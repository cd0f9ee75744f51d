--------------------------- MODULE JsClient_proofs ---------------------------
(***************************************************************************)
(* Proofs about JsClient, for any tabs, entries, keys, page size, window,  *)
(* rounds, overlapping reads, pages' calls, failures and number of upsets. *)
(***************************************************************************)
EXTENDS JsClient, FiniteSetTheorems, SequenceTheorems, WellFoundedInduction, TLAPS

-----------------------------------------------------------------------------
(* The inductive invariant.  Its parts are about the record r of one tab.  *)

Pcs == {"idle", "await", "register", "fast", "probe", "pull", "tx", "done", "again", "walk"}

RunState ==
    [pc : Pcs, wait : SUBSET Entry, round : Nat, mine : Seq(Entry), at : Nat,
     anchor : 0..MaxEntry, cur : 0..MaxEntry, body : SUBSET Entry, new : BOOLEAN]

TabState ==
    [calls : SUBSET AllCalls, store : {"none", "scan", "loaded", "open", "closed", "gone"},
     added : Seq(Entry), hash : SUBSET (0..MaxEntry), client : {"none", "open", "closing", "closed"},
     reg : BOOLEAN, ever : BOOLEAN, ended : BOOLEAN, writes : Seq(Entry),
     wop : {"wait", "tx", "done", "stored", "held"}, recent : Seq(Entry), run : RunState,
     queued : {"none", "wait", "ready"}, drop : {"none", "wait", "sent"},
     dropOn : SUBSET {"run", "queued"}, folded : Nat, view : [Key -> 0..MaxEntry],
     reads : [Reader -> {<<>>} \cup (Nat \X Nat)], heard : BOOLEAN, issued : SUBSET Entry,
     need : SUBSET Entry, qneed : SUBSET Entry]

Held(r) == ToSet(r.added)

(* A tab with no store holds nothing, and one with no client has written   *)
(* and synced nothing; the queue holds writes of the session, each once;   *)
(* what a sync took is in memory.                                          *)
ShapeOK(r) ==
    /\ r.store = "none" => r.added = <<>>
    /\ r.store \in {"none", "scan", "loaded"} => r.client = "none"
    /\ r.client = "none" => /\ r.writes = <<>> /\ r.run = Idle /\ r.issued = {}
                            /\ r.recent = <<>> /\ r.need = {} /\ r.qneed = {}
    /\ r.store = "closed" => r.client = "closed"
    /\ r.wop = "wait" \/ r.writes # <<>>
    /\ r.wop \in {"stored", "held"} => Head(r.writes) \in Held(r)
    /\ r.run.pc = "idle" => r.run = Idle
    /\ r.run.pc = "await" => r.run.mine = <<>>
    /\ r.need \subseteq r.issued /\ r.qneed \subseteq r.issued
    /\ ToSet(r.writes) \subseteq r.issued
    /\ \A i, j \in 1..Len(r.writes) : r.writes[i] = r.writes[j] => i = j
    /\ ToSet(r.recent) \subseteq Held(r) /\ ToSet(r.run.mine) \subseteq Held(r)

(* The cached hash is none, or that of the set.                            *)
HashOK(r) == r.hash \in {NoHash, Held(r)}

(* The view is that of the first entries added, and no read goes past      *)
(* them.                                                                   *)
ReadsOK(r) ==
    /\ r.folded <= Len(r.added)
    /\ \A k \in Key : r.view[k] =
          Max({0} \cup {e \in ToSet(SubSeq(r.added, 1, r.folded)) : KeyOf[e] = k})
    /\ \A q \in Reader : r.reads[q] # <<>> => r.reads[q][2] <= Len(r.added)

(* An entry nobody heard of is one whose write is about to settle, or that *)
(* the sync under way will tell of.                                        *)
HeardOK(r) ==
    r.client \in {"open", "closing"} /\ ~r.heard => r.wop = "stored" \/ r.run.new

(* A write is in the queue, in memory, or rejected; a sync waits for those *)
(* its callers issued, so its PROBE covers them.                           *)
NeedOK(r) ==
    /\ r.issued \subseteq Held(r) \cup failed \cup ToSet(r.writes)
    /\ r.run.pc = "await" => r.need \cap ToSet(r.writes) \subseteq r.run.wait
    /\ r.run.pc \notin {"idle", "await"} => r.need \subseteq Held(r) \cup failed
    /\ r.run.pc \in {"probe", "again"} =>
          r.need \subseteq r.run.body \cup failed /\ ToSet(r.run.mine) \subseteq r.run.body

(* A write in memory is on the server, or on its way there; one that came  *)
(* back to memory before its own call settled is on the server.            *)
FastOK(r) ==
    vault # "ended" =>
        /\ r.issued \cap Held(r) \subseteq
              server \cup ToSet(r.writes) \cup ToSet(r.recent) \cup ToSet(r.run.mine)
        /\ r.run.pc \in {"tx", "done"} => r.run.body \subseteq server
        /\ \A i \in 1..Len(r.writes) : r.writes[i] \in Held(r) =>
              r.writes[i] \in server \/ (i = 1 /\ r.wop = "stored")

(* Memory and what is about to be put in it are committed.                 *)
DiskOK(r) ==
    /\ r.store \in {"scan", "loaded", "open"} => Held(r) \subseteq db
    /\ r.store = "open" /\ r.wop = "done" => Head(r.writes) \in db
    /\ r.store = "open" /\ r.run.pc = "done" => r.run.body \subseteq db
    /\ r.store = "closed" => r.issued \ failed \subseteq db

(* Nothing is held that nobody sealed.                                     *)
UsedOK(r) == Held(r) \subseteq used /\ r.issued \subseteq used /\ r.run.body \subseteq used

TabOK(r) ==
    /\ r \in TabState
    /\ ShapeOK(r) /\ HashOK(r) /\ ReadsOK(r) /\ HeardOK(r) /\ NeedOK(r) /\ FastOK(r)
    /\ DiskOK(r) /\ UsedOK(r)

(* The rows a tab with an open store has committed and not announced.      *)
Owed(r) ==
    (IF r.store = "open" /\ r.wop = "done" THEN {Head(r.writes)} ELSE {})
    \cup (IF r.store = "open" /\ r.run.pc = "done" THEN r.run.body ELSE {})

(* A step of the tab that the others cannot tell.                          *)
Follows(x, r) ==
    Held(x) = Held(r) /\ x.store = r.store /\ Owed(x) = Owed(r) /\ x.issued = r.issued

(* A tab that listens is sent committed rows, none of them its own unless  *)
(* the server has it; one that has scanned lacks only rows it will hear of.*)
ChanOK(t) ==
    /\ ~Listens(t) => chan[t] = <<>>
    /\ \A i \in 1..Len(chan[t]) :
          /\ chan[t][i] \subseteq db
          /\ vault # "ended" => chan[t][i] \cap tab[t].issued \subseteq server

Coming(t) == UNION ToSet(chan[t])
AllOwed   == UNION {Owed(tab[u]) : u \in Tab}

AgreeOK(t) ==
    tab[t].store \in {"loaded", "open"} =>
        db \subseteq Mem(t) \cup Coming(t) \cup orphans \cup AllOwed

WorldOK ==
    /\ vault \in {"none", "live", "ended"}
    /\ used \in SUBSET Entry /\ server \subseteq used /\ db \subseteq used
    /\ chan \in [Tab -> Seq(SUBSET Entry)]
    /\ missed = {}

IndInv ==
    /\ WorldOK
    /\ DOMAIN tab = Tab
    /\ \A t \in Tab : TabOK(tab[t])
    /\ \A t \in Tab : ChanOK(t)
    /\ \A t \in Tab : AgreeOK(t)
    /\ \A t, u \in Tab : t # u => tab[t].issued \cap tab[u].issued = {}

-----------------------------------------------------------------------------
(* Entries, their order and their greatest.                                *)

(* Any nonempty set of naturals has a least element.                       *)
LEMMA LeastNat ==
    ASSUME NEW B, B \subseteq Nat, B # {}
    PROVE  \E n \in B : \A m \in B : ~(m < n)
<1>1. PICK n \in B : \A m \in B : <<m, n>> \notin OpToRel(<, Nat)
  BY NatLessThanWellFounded, WFMin
<1>2. QED
  BY <1>1 DEF OpToRel

(* Any nonempty collection of sets of entries has a least.                 *)
LEMMA LeastSet ==
    ASSUME NEW B, B \subseteq SUBSET Entry, B # {}
    PROVE  \E s \in B : \A r \in B : r \subseteq s => r = s
<1>1. \A s \in SUBSET Entry : IsFiniteSet(s)
  <2>1. IsFiniteSet(Entry)
    BY FS_Interval, JsConstants DEF Entry
  <2>2. QED
    BY <2>1, FS_Subset
<1>2. B \subseteq FiniteSubsetsOf(Entry)
  BY <1>1 DEF FiniteSubsetsOf
<1>3. IsWellFoundedOn(StrictSubsetOrdering(Entry), FiniteSubsetsOf(Entry))
  BY FS_StrictSubsetOrderingWellFounded
<1>4. PICK s \in B : \A r \in B : <<r, s>> \notin StrictSubsetOrdering(Entry)
  BY <1>2, <1>3, WFMin
<1>5. ASSUME NEW r \in B, r \subseteq s, r # s PROVE FALSE
  BY <1>4, <1>5 DEF StrictSubsetOrdering
<1>6. QED
  BY <1>4, <1>5

(* The greatest of a set is in it, and is the one that none exceeds.       *)
LEMMA MaxFacts ==
    ASSUME NEW P \in SUBSET (0..MaxEntry), P # {}
    PROVE  /\ Max(P) \in P /\ \A e \in P : e <= Max(P)
           /\ \A x \in P : (\A e \in P : e <= x) => Max(P) = x
<1>1. P \subseteq Nat /\ \A e \in P : e <= MaxEntry
  BY JsConstants
<1> DEFINE B == {n \in Nat : MaxEntry - n \in P}
<1>2. B # {} /\ B \subseteq Nat
  <2>1. PICK e \in P : TRUE
    OBVIOUS
  <2>2. MaxEntry - e \in Nat /\ MaxEntry - (MaxEntry - e) = e
    BY <1>1, JsConstants
  <2>3. MaxEntry - e \in B
    BY <2>1, <2>2
  <2>4. QED
    BY <2>3
<1>3. PICK n \in B : \A m \in B : ~(m < n)
  <2> HIDE DEF B
  <2>1. QED
    BY <1>2, LeastNat
<1>4. MaxEntry - n \in P
  OBVIOUS
<1>5. ASSUME NEW e \in P PROVE MaxEntry - n >= e
  <2>1. MaxEntry - e \in Nat /\ MaxEntry - (MaxEntry - e) = e
    BY <1>1, JsConstants
  <2>2. MaxEntry - e \in B
    BY <2>1
  <2>3. ~(MaxEntry - e < n)
    BY <1>3, <2>2
  <2>4. QED
    BY <1>1, <2>1, <2>3, JsConstants
<1>6. \E x \in P : \A y \in P : x >= y
  BY <1>4, <1>5
<1>7. Max(P) \in P /\ \A y \in P : Max(P) >= y
  BY <1>6 DEF Max
<1>8. ASSUME NEW x \in P, \A e \in P : e <= x
      PROVE  Max(P) = x
  <2>1. x \in Nat /\ Max(P) \in Nat
    BY <1>1, <1>7
  <2>2. Max(P) <= x /\ Max(P) >= x
    BY <1>7, <1>8
  <2>3. QED
    BY <2>1, <2>2
<1>9. QED
  BY <1>1, <1>7, <1>8

(* The greatest of two sets, one after the other.                          *)
LEMMA MaxJoin ==
    ASSUME NEW A \in SUBSET (0..MaxEntry), A # {}, NEW B \in SUBSET (0..MaxEntry)
    PROVE  Max({Max(A)} \cup B) = Max(A \cup B)
<1>1. Max(A) \in A /\ \A e \in A : e <= Max(A)
  BY MaxFacts
<1> DEFINE x == Max({Max(A)} \cup B)
<1>2. {Max(A)} \cup B \in SUBSET (0..MaxEntry) /\ {Max(A)} \cup B # {}
  BY <1>1
<1>3. x \in {Max(A)} \cup B /\ \A e \in {Max(A)} \cup B : e <= x
  BY <1>2, MaxFacts
<1> HIDE DEF x
<1>4. x \in A \cup B
  BY <1>1, <1>3
<1>5. ASSUME NEW e \in A \cup B PROVE e <= x
  <2>0. \A y \in A \cup B : y \in Nat
    BY JsConstants
  <2>1. e \in Nat /\ x \in Nat /\ Max(A) \in Nat
    BY <1>1, <1>4, <2>0
  <2>2. CASE e \in A
    BY <1>1, <1>3, <2>1, <2>2
  <2>3. CASE e \in B
    BY <1>3, <2>3
  <2>4. QED
    BY <2>2, <2>3
<1>6. Max(A \cup B) = x
  BY <1>4, <1>5, MaxFacts
<1>7. QED
  BY <1>6 DEF x

(* Every set of entries can be put in order ...                            *)
LEMMA OrderExists ==
    ASSUME NEW S \in SUBSET Entry
    PROVE  \E q \in [1..Cardinality(S) -> S] : \A i, j \in DOMAIN q : i < j => q[i] < q[j]
<1> DEFINE Ord(T) == \E q \in [1..Cardinality(T) -> T] : \A i, j \in DOMAIN q : i < j => q[i] < q[j]
           B == {T \in SUBSET Entry : ~Ord(T)}
<1>0. \A T \in SUBSET Entry : IsFiniteSet(T)
  <2>1. IsFiniteSet(Entry)
    BY FS_Interval, JsConstants DEF Entry
  <2>2. QED
    BY <2>1, FS_Subset
<1>1. SUFFICES ASSUME B # {} PROVE FALSE
  OBVIOUS
<1>2. PICK T \in B : \A R \in B : R \subseteq T => R = T
  <2>1. B \subseteq SUBSET Entry
    OBVIOUS
  <2> HIDE DEF B
  <2>2. QED
    BY <1>1, <2>1, LeastSet
<1>3. T \in SUBSET Entry /\ ~Ord(T)
  OBVIOUS
<1>4. T # {}
  <2>1. SUFFICES ASSUME T = {} PROVE FALSE
    OBVIOUS
  <2>2. Cardinality(T) = 0
    BY <2>1, FS_EmptySet
  <2>3. 1..Cardinality(T) = {}
    BY <2>2
  <2>4. [x \in {} |-> x] \in [1..Cardinality(T) -> T] /\ DOMAIN [x \in {} |-> x] = {}
    BY <2>3
  <2>5. Ord(T)
    BY <2>4
  <2>6. QED
    BY <1>3, <2>5
<1>5. T \in SUBSET (0..MaxEntry)
  BY <1>3, JsConstants DEF Entry
<1> DEFINE m == Max(T)
           R == T \ {m}
<1>6. m \in T /\ \A e \in R : e < m
  <2>1. m \in T /\ \A e \in T : e <= m
    BY <1>4, <1>5, MaxFacts
  <2>2. \A e \in T : e \in Nat
    BY <1>5, JsConstants
  <2> HIDE DEF m
  <2>3. QED
    BY <2>1, <2>2
<1>7. R \subseteq T /\ R # T /\ R \in SUBSET Entry
  BY <1>3, <1>6
<1>8. Ord(R)
  BY <1>2, <1>7
<1>9. Cardinality(T) \in Nat /\ Cardinality(R) \in Nat /\ Cardinality(T) = Cardinality(R) + 1
  BY <1>0, <1>3, <1>6, <1>7, FS_RemoveElement, FS_CardinalityType
<1>10. PICK q \in [1..Cardinality(R) -> R] : \A i, j \in DOMAIN q : i < j => q[i] < q[j]
  BY <1>8
<1> DEFINE n == Cardinality(R)
           p == [i \in 1..(n + 1) |-> IF i = n + 1 THEN m ELSE q[i]]
<1> HIDE DEF m, R, n, Ord, B
<1>11. p \in [1..(n + 1) -> T]
  <2>1. ASSUME NEW i \in 1..(n + 1), i # n + 1 PROVE q[i] \in T
    BY <1>7, <1>9, <1>10, <2>1 DEF n
  <2>2. QED
    BY <1>6, <2>1
<1>12. ASSUME NEW i \in 1..(n + 1), NEW j \in 1..(n + 1), i < j PROVE p[i] < p[j]
  <2>1. n \in Nat /\ i # n + 1 /\ i \in 1..n
    BY <1>9, <1>12 DEF n
  <2>2. q[i] \in R /\ p[i] = q[i]
    BY <1>10, <2>1 DEF n
  <2>3. CASE j = n + 1
    BY <1>6, <2>2, <2>3
  <2>4. CASE j # n + 1
    <3>1. j \in 1..n /\ p[j] = q[j]
      BY <2>1, <2>4
    <3>2. QED
      BY <1>10, <1>12, <2>1, <2>2, <3>1 DEF n
  <2>5. QED
    BY <2>3, <2>4
<1>13. Cardinality(T) = n + 1 /\ DOMAIN p = 1..(n + 1)
  BY <1>9 DEF n
<1>14. Ord(T)
  <2> HIDE DEF p
  <2>1. QED
    BY <1>11, <1>12, <1>13 DEF Ord
<1>15. QED
  BY <1>3, <1>14

(* ... and InOrder does so.                                                *)
LEMMA InOrderFacts ==
    ASSUME NEW S \in SUBSET Entry
    PROVE  InOrder(S) \in Seq(Entry) /\ ToSet(InOrder(S)) = S
<1> DEFINE n == Cardinality(S)
           q == InOrder(S)
<1>1. IsFiniteSet(S) /\ n \in Nat
  <2>1. IsFiniteSet(Entry)
    BY FS_Interval, JsConstants DEF Entry
  <2>2. QED
    BY <2>1, FS_Subset, FS_CardinalityType
<1>2. q \in [1..n -> S] /\ \A i, j \in DOMAIN q : i < j => q[i] < q[j]
  <2>1. \E f \in [1..Cardinality(S) -> S] : \A i, j \in DOMAIN f : i < j => f[i] < f[j]
    BY OrderExists
  <2>2. QED
    BY <2>1 DEF InOrder
<1> HIDE DEF n, q
<1>3. \A i \in 1..n : q[i] \in Nat
  <2>1. \A e \in S : e \in Nat
    BY JsConstants DEF Entry
  <2>2. QED
    BY <1>2, <2>1
<1>4. \A i, j \in 1..n : q[i] = q[j] => i = j
  <2>1. SUFFICES ASSUME NEW i \in 1..n, NEW j \in 1..n, i # j PROVE q[i] # q[j]
    OBVIOUS
  <2>2. CASE i < j
    BY <1>2, <1>3, <2>2
  <2>3. CASE j < i
    BY <1>2, <1>3, <2>3
  <2>4. QED
    BY <1>1, <2>1, <2>2, <2>3
<1>5. q \in Injection(1..n, S)
  BY <1>2, <1>4 DEF Injection, IsInjective
<1>6. IsFiniteSet(1..n) /\ Cardinality(1..n) = n
  BY <1>1, FS_Interval
<1>7. q \in Surjection(1..n, S)
  BY <1>1, <1>5, <1>6, FS_Injection DEF n
<1>8. ToSet(q) = S
  BY <1>2, <1>7 DEF Surjection, ToSet
<1>9. q \in Seq(Entry)
  <2>1. q \in [1..n -> Entry]
    BY <1>2
  <2>2. QED
    BY <1>1, <2>1, SeqDef
<1>10. QED
  BY <1>8, <1>9 DEF q

(* What a sequence of entries holds, when it is joined, extended or cut.   *)
LEMMA SetFacts ==
    ASSUME NEW s \in Seq(Entry), NEW t \in Seq(Entry)
    PROVE  /\ ToSet(s) \in SUBSET Entry
           /\ s \o t \in Seq(Entry) /\ ToSet(s \o t) = ToSet(s) \cup ToSet(t)
           /\ \A e \in Entry : Append(s, e) \in Seq(Entry) /\ ToSet(Append(s, e)) = ToSet(s) \cup {e}
           /\ <<>> \in Seq(Entry) /\ ToSet(<<>>) = {}
           /\ s # <<>> => /\ Tail(s) \in Seq(Entry) /\ Head(s) \in Entry
                          /\ ToSet(s) = {Head(s)} \cup ToSet(Tail(s))
<1>1. ToSet(s \o t) = ToSet(s) \cup ToSet(t)
  <2>1. ASSUME NEW x \in ToSet(s \o t) PROVE x \in ToSet(s) \cup ToSet(t)
    BY DEF ToSet
  <2>2. ASSUME NEW x \in ToSet(s) PROVE x \in ToSet(s \o t)
    BY DEF ToSet
  <2>3. ASSUME NEW x \in ToSet(t) PROVE x \in ToSet(s \o t)
    <3>1. PICK i \in DOMAIN t : t[i] = x
      BY DEF ToSet
    <3>2. Len(s) + i \in DOMAIN (s \o t) /\ (s \o t)[Len(s) + i] = x
      BY <3>1
    <3>3. QED
      BY <3>2 DEF ToSet
  <2>4. QED
    BY <2>1, <2>2, <2>3
<1>2. ASSUME NEW e \in Entry PROVE ToSet(Append(s, e)) = ToSet(s) \cup {e}
  <2>1. ASSUME NEW x \in ToSet(Append(s, e)) PROVE x \in ToSet(s) \cup {e}
    BY DEF ToSet
  <2>2. ASSUME NEW x \in ToSet(s) PROVE x \in ToSet(Append(s, e))
    BY DEF ToSet
  <2>3. e \in ToSet(Append(s, e))
    <3>1. Len(s) + 1 \in DOMAIN Append(s, e) /\ Append(s, e)[Len(s) + 1] = e
      OBVIOUS
    <3>2. QED
      BY <3>1 DEF ToSet
  <2>4. QED
    BY <2>1, <2>2, <2>3
<1>3. ASSUME s # <<>>
      PROVE  Tail(s) \in Seq(Entry) /\ Head(s) \in Entry /\ ToSet(s) = {Head(s)} \cup ToSet(Tail(s))
  <2>1. /\ Tail(s) \in Seq(Entry) /\ Head(s) \in Entry /\ Head(s) = s[1] /\ Len(s) \in Nat
        /\ Len(s) >= 1
        /\ Len(Tail(s)) = Len(s) - 1 /\ \A i \in 1..(Len(s) - 1) : Tail(s)[i] = s[i + 1]
    BY <1>3
  <2>2. ASSUME NEW x \in ToSet(s) PROVE x \in {Head(s)} \cup ToSet(Tail(s))
    <3>1. PICK i \in 1..Len(s) : s[i] = x
      BY DEF ToSet
    <3>2. CASE i = 1
      BY <2>1, <3>1, <3>2
    <3>3. CASE i # 1
      <4>1. i - 1 \in DOMAIN Tail(s) /\ Tail(s)[i - 1] = x
        BY <2>1, <3>1, <3>3
      <4>2. QED
        BY <4>1 DEF ToSet
    <3>4. QED
      BY <3>2, <3>3
  <2>3. ASSUME NEW x \in ToSet(Tail(s)) PROVE x \in ToSet(s)
    <3>1. PICK i \in 1..Len(Tail(s)) : Tail(s)[i] = x
      BY <2>1 DEF ToSet
    <3>2. i + 1 \in DOMAIN s /\ s[i + 1] = x
      BY <2>1, <3>1
    <3>3. QED
      BY <3>2 DEF ToSet
  <2>4. Head(s) \in ToSet(s)
    BY <2>1 DEF ToSet
  <2>5. QED
    BY <2>1, <2>2, <2>3, <2>4
<1>4. s \o t \in Seq(Entry) /\ (\A e \in Entry : Append(s, e) \in Seq(Entry)) /\ <<>> \in Seq(Entry)
  OBVIOUS
<1>5. ToSet(<<>>) = {} /\ ToSet(s) \in SUBSET Entry
  BY DEF ToSet
<1>6. QED
  BY <1>1, <1>2, <1>3, <1>4, <1>5

(* No sync runs.                                                           *)
LEMMA IdleMade ==
    /\ Idle \in RunState /\ Idle.pc = "idle" /\ Idle.mine = <<>> /\ Idle.body = {} /\ Idle.new = FALSE
    /\ Idle.wait = {} /\ Idle.round = 0 /\ Idle.at = 0 /\ Idle.anchor = 0 /\ Idle.cur = 0
BY JsConstants DEF Idle, RunState, Pcs

-----------------------------------------------------------------------------
(* What the steps make of a tab's record.                                  *)

(* A sync ends: what it took is on the server, or is given back.           *)
LEMMA SettledOK ==
    ASSUME NEW r, TabOK(r), NEW ok \in BOOLEAN,
           r.client # "none", r.run.pc # "done",
           ok /\ vault # "ended" => ToSet(r.run.mine) \subseteq server
    PROVE  TabOK(Settled(r, ok)) /\ Follows(Settled(r, ok), r)
<1> DEFINE q == IF ok THEN r.recent ELSE r.run.mine \o r.recent
           d == r.dropOn \ {"run"}
           w == IF r.queued = "wait" THEN "ready" ELSE r.queued
           h == r.heard \/ r.run.new
           x == Settled(r, ok)
<1>1. r \in TabState /\ r.run \in RunState /\ r.recent \in Seq(Entry) /\ r.run.mine \in Seq(Entry)
  BY DEF TabOK, TabState, RunState
<1>2. q \in Seq(Entry) /\ ToSet(r.recent) \subseteq ToSet(q) /\ ToSet(q) \subseteq Held(r)
      /\ (~ok => ToSet(r.run.mine) \subseteq ToSet(q))
  BY <1>1, SetFacts DEF TabOK, ShapeOK
<1>3. x = [r EXCEPT !.run = Idle, !.need = {}, !.heard = h, !.recent = q,
                    !.dropOn = d, !.queued = w]
  BY <1>1 DEF Settled
<1>0. h \in BOOLEAN /\ d \in SUBSET {"run", "queued"} /\ w \in {"none", "wait", "ready"}
  BY <1>1 DEF TabState
<1>13. Idle \in RunState /\ {} \in SUBSET Entry
  BY IdleMade
<1> HIDE DEF q, x, h, d, w
<1>4. /\ x \in TabState
      /\ x.store = r.store /\ x.added = r.added /\ x.hash = r.hash /\ x.client = r.client
      /\ x.writes = r.writes /\ x.wop = r.wop /\ x.recent = q /\ x.run = Idle /\ x.folded = r.folded
      /\ x.view = r.view /\ x.reads = r.reads /\ x.issued = r.issued /\ x.need = {} /\ x.qneed = r.qneed
      /\ x.heard = h
  <2>1. /\ x.store = r.store /\ x.added = r.added /\ x.hash = r.hash /\ x.client = r.client
        /\ x.writes = r.writes /\ x.wop = r.wop /\ x.recent = q /\ x.run = Idle /\ x.folded = r.folded
        /\ x.view = r.view /\ x.reads = r.reads /\ x.issued = r.issued /\ x.need = {}
        /\ x.qneed = r.qneed
        /\ x.heard = h
    BY <1>1, <1>3 DEF TabState
  <2>2. x \in TabState
    BY <1>0, <1>1, <1>2, <1>3, <1>13, ZenonT(60) DEF TabState
  <2>3. QED
    BY <2>1, <2>2
<1>5. ShapeOK(x)
  BY <1>2, <1>4, IdleMade, SetFacts DEF TabOK, ShapeOK, Held
<1>6. HashOK(x) /\ ReadsOK(x)
  BY <1>4 DEF TabOK, HashOK, ReadsOK, Held
<1>7. HeardOK(x)
  BY <1>4 DEF TabOK, HeardOK, h
<1>8. NeedOK(x)
  BY <1>4, IdleMade DEF TabOK, NeedOK, Held
<1>9. FastOK(x)
  BY <1>2, <1>4, IdleMade DEF TabOK, FastOK, Held
<1>10. DiskOK(x) /\ UsedOK(x)
  BY <1>4, IdleMade DEF TabOK, DiskOK, UsedOK, Held
<1>11. Owed(x) = Owed(r)
  BY <1>4, IdleMade DEF Owed
<1>12. QED
  BY <1>4, <1>5, <1>6, <1>7, <1>8, <1>9, <1>10, <1>11 DEF TabOK, Follows, Held, x

(* The set hash is that of the set.                                        *)
LEMMA HashFacts ==
    ASSUME NEW r, HashOK(r)
    PROVE  SetHash(r) = Held(r)
BY DEF HashOK, SetHash, Held

(* A sync goes on, or starts with what it took: q is what it leaves in     *)
(* recent.                                                                 *)
LEMMA GoingOK ==
    ASSUME NEW r, TabOK(r), r.client # "none", r.run.pc # "done", r.need \subseteq Held(r) \cup failed,
           NEW q \in Seq(Entry), NEW s \in RunState, s.pc \notin {"idle", "await", "done"},
           s.new = r.run.new, ToSet(q) \cup ToSet(s.mine) = ToSet(r.recent) \cup ToSet(r.run.mine),
           s.pc \notin {"probe", "again"} => s.body \subseteq used,
           s.pc = "tx" /\ vault # "ended" => s.body \subseteq server
    PROVE  LET x == Going([r EXCEPT !.recent = q], s)
           IN  TabOK(x) /\ Follows(x, r)
<1> DEFINE y == [r EXCEPT !.recent = q]
           x == Going(y, s)
           b == IF s.pc \in {"probe", "again"} THEN Held(r) ELSE s.body
           h == IF s.pc \in {"probe", "again"} THEN Held(r) ELSE r.hash
           z == [s EXCEPT !.body = b]
<1>1. r \in TabState /\ r.added \in Seq(Entry) /\ ShapeOK(r) /\ HashOK(r)
  BY DEF TabOK, TabState
<1>2. /\ y \in TabState /\ y.added = r.added /\ y.hash = r.hash
  BY <1>1 DEF TabState
<1>3. SetHash(y) = Held(r)
  <2>1. Held(y) = Held(r)
    BY <1>2 DEF Held
  <2>2. HashOK(y)
    BY <1>1, <1>2, <2>1 DEF HashOK
  <2>3. QED
    BY <2>1, <2>2, HashFacts
<1>4. Held(r) \in SUBSET Entry /\ Held(r) \subseteq used
  BY <1>1, SetFacts DEF Held, TabOK, UsedOK
<1>5. b \in SUBSET Entry /\ b \subseteq used /\ h \in SUBSET (0..MaxEntry) /\ h \in {NoHash, Held(r)}
  <2>1. s.body \in SUBSET Entry /\ r.hash \in SUBSET (0..MaxEntry) /\ r.hash \in {NoHash, Held(r)}
    BY <1>1 DEF RunState, TabState, HashOK
  <2>2. Held(r) \in SUBSET (0..MaxEntry)
    BY <1>4, JsConstants DEF Entry
  <2>3. QED
    BY <1>4, <2>1, <2>2
<1>6. x = [r EXCEPT !.recent = q, !.run = z, !.hash = h]
  <2>1. CASE s.pc \in {"probe", "again"}
    <3>1. x = [y EXCEPT !.run = [s EXCEPT !.body = Held(r)], !.hash = Held(r)]
      BY <1>3, <2>1 DEF Going
    <3>2. QED
      BY <1>1, <2>1, <3>1 DEF TabState
  <2>2. CASE s.pc \notin {"probe", "again"}
    <3>1. x = [y EXCEPT !.run = s]
      BY <2>2 DEF Going
    <3>2. z = s
      BY <2>2 DEF RunState
    <3>3. QED
      BY <1>1, <2>2, <3>1, <3>2, ZenonT(60) DEF TabState
  <2>3. QED
    BY <2>1, <2>2
<1> HIDE DEF b, h
<1>7. z \in RunState /\ z.pc = s.pc /\ z.mine = s.mine /\ z.new = s.new /\ z.body = b
  BY <1>5 DEF RunState
<1> HIDE DEF x, z, y
<1>8. /\ x \in TabState
      /\ x.store = r.store /\ x.added = r.added /\ x.hash = h /\ x.client = r.client
      /\ x.writes = r.writes /\ x.wop = r.wop /\ x.recent = q /\ x.run = z /\ x.folded = r.folded
      /\ x.view = r.view /\ x.reads = r.reads /\ x.issued = r.issued /\ x.need = r.need
      /\ x.qneed = r.qneed /\ x.heard = r.heard
  BY <1>1, <1>5, <1>6, <1>7, ZenonT(60) DEF TabState
<1>9. ShapeOK(x)
  BY <1>1, <1>7, <1>8 DEF ShapeOK, Held
<1>10. HashOK(x) /\ ReadsOK(x) /\ HeardOK(x)
  BY <1>5, <1>7, <1>8 DEF TabOK, HashOK, ReadsOK, HeardOK, Held
<1>11. NeedOK(x)
  BY <1>1, <1>7, <1>8 DEF TabOK, ShapeOK, NeedOK, Held, b
<1>12. FastOK(x)
  BY <1>7, <1>8 DEF TabOK, FastOK, Held, b
<1>13. DiskOK(x) /\ UsedOK(x)
  BY <1>5, <1>7, <1>8 DEF TabOK, DiskOK, UsedOK, Held
<1>14. Owed(x) = Owed(r)
  BY <1>7, <1>8 DEF Owed
<1>15. QED
  BY <1>8, <1>9, <1>10, <1>11, <1>12, <1>13, <1>14 DEF TabOK, Follows, Held, x, y

(* A sync goes on with what it took.                                       *)
LEMMA OnOK ==
    ASSUME NEW r, TabOK(r), r.run.pc \notin {"idle", "await", "done"},
           NEW s \in RunState, s.pc \notin {"idle", "await", "done"},
           s.new = r.run.new, s.mine = r.run.mine,
           s.pc \notin {"probe", "again"} => s.body \subseteq used,
           s.pc = "tx" /\ vault # "ended" => s.body \subseteq server
    PROVE  LET x == Going(r, s)
           IN  TabOK(x) /\ Follows(x, r)
<1>1. r.client # "none" /\ r.need \subseteq Held(r) \cup failed
  BY IdleMade DEF TabOK, ShapeOK, NeedOK
<1>2. r.recent \in Seq(Entry) /\ r = [r EXCEPT !.recent = r.recent]
  BY DEF TabOK, TabState
<1> DEFINE x == Going([r EXCEPT !.recent = r.recent], s)
<1>3. TabOK(x) /\ Follows(x, r)
  BY <1>1, <1>2, GoingOK
<1>4. x = Going(r, s)
  BY <1>2
<1> HIDE DEF x
<1>5. QED
  BY <1>3, <1>4

(* The lesser of two numbers.                                              *)
LEMMA MinTwo ==
    ASSUME NEW a \in Nat, NEW b \in Nat
    PROVE  Min({a, b}) \in Nat /\ Min({a, b}) <= a /\ Min({a, b}) <= b
<1>1. CASE a <= b
  <2>1. \E x \in {a, b} : \A y \in {a, b} : x =< y
    BY <1>1
  <2>2. QED
    BY <2>1 DEF Min
<1>2. CASE b <= a
  <2>1. \E x \in {a, b} : \A y \in {a, b} : x =< y
    BY <1>2
  <2>2. QED
    BY <2>1 DEF Min
<1>3. QED
  BY <1>1, <1>2

(* The first request of a round is REGISTER, a fast push of entries taken, *)
(* or PROBE.                                                               *)
LEMMA RoundOpens ==
    ASSUME NEW r, NEW s \in RunState
    PROVE  /\ LET z == FastPath(s)
              IN  /\ z \in RunState /\ z.pc \in {"fast", "probe"} /\ z.mine = s.mine /\ z.new = s.new
                  /\ z.pc = "fast" => z.body \subseteq ToSet(s.mine)
           /\ LET z == Round(r, s)
              IN  /\ z \in RunState /\ z.pc \in {"register", "fast", "probe"} /\ z.mine = s.mine
                  /\ z.new = s.new /\ (z.pc = "fast" => z.body \subseteq ToSet(s.mine))
                  /\ z.pc = "register" => z.body = s.body
<1> DEFINE u == Min({s.at + PageSize, Len(s.mine)})
           f == FastPath(s)
<1>1. s.mine \in Seq(Entry) /\ s.at \in Nat /\ Len(s.mine) \in Nat
  BY DEF RunState
<1>2. u \in Nat /\ u <= Len(s.mine)
  BY <1>1, MinTwo, JsConstants, SMTT(30)
<1>3. /\ f \in RunState /\ f.pc \in {"fast", "probe"} /\ f.mine = s.mine /\ f.new = s.new
      /\ f.pc = "fast" => f.body \subseteq ToSet(s.mine)
  <2>1. CASE s.round = 0 /\ s.at < Len(s.mine)
    <3> DEFINE p == ToSet(SubSeq(s.mine, s.at + 1, u))
    <3>1. f = [s EXCEPT !.pc = "fast", !.at = u, !.body = p]
      BY <2>1 DEF FastPath
    <3>2. p \subseteq ToSet(s.mine)
      <4> HIDE DEF u
      <4>1. SUFFICES ASSUME NEW e \in p PROVE e \in ToSet(s.mine)
        OBVIOUS
      <4>2. PICK i \in DOMAIN SubSeq(s.mine, s.at + 1, u) : SubSeq(s.mine, s.at + 1, u)[i] = e
        BY DEF ToSet
      <4>3. s.at + i \in 1..Len(s.mine) /\ s.mine[s.at + i] = e
        BY <1>1, <1>2, <4>2, SMTT(30)
      <4>4. QED
        BY <1>1, <4>3 DEF ToSet
    <3>3. p \in SUBSET Entry
      BY <1>1, <3>2, SetFacts
    <3> HIDE DEF p, u, f
    <3>4. QED
      BY <1>2, <3>1, <3>2, <3>3 DEF RunState, Pcs
  <2>2. CASE ~(s.round = 0 /\ s.at < Len(s.mine))
    <3>1. f = [s EXCEPT !.pc = "probe"]
      BY <2>2 DEF FastPath
    <3> HIDE DEF f
    <3>2. QED
      BY <3>1 DEF RunState, Pcs
  <2>3. QED
    BY <2>1, <2>2
<1> HIDE DEF f
<1>4. CASE r.reg
  BY <1>3, <1>4 DEF Round, f
<1>5. CASE ~r.reg
  <2>1. Round(r, s) = [s EXCEPT !.pc = "register"]
    BY <1>5 DEF Round
  <2>2. QED
    BY <1>3, <2>1 DEF RunState, Pcs, f
<1>6. QED
  BY <1>4, <1>5

(* Another round, or the sync gives up.                                    *)
LEMMA NextRoundOK ==
    ASSUME NEW t \in Tab, NEW r, TabOK(r), r.run.pc \notin {"idle", "await", "done"}
    PROVE  LET x == NextRound(t, r)
           IN  TabOK(x) /\ Follows(x, r)
<1>1. r.client # "none" /\ r.run \in RunState /\ ToSet(r.run.mine) \subseteq used
      /\ r.run.body \subseteq used
  BY IdleMade DEF TabOK, TabState, ShapeOK, UsedOK
<1>2. CASE r.run.round + 1 < MaxRounds
  <2> DEFINE s == [r.run EXCEPT !.round = @ + 1]
             z == Round(r, s)
  <2>1. s \in RunState /\ s.mine = r.run.mine /\ s.new = r.run.new /\ s.body = r.run.body
    BY <1>1 DEF RunState
  <2> HIDE DEF s
  <2>2. /\ z \in RunState /\ z.pc \in {"register", "fast", "probe"} /\ z.mine = s.mine
        /\ z.new = s.new /\ (z.pc = "fast" => z.body \subseteq ToSet(s.mine))
        /\ z.pc = "register" => z.body = s.body
    BY <2>1, RoundOpens
  <2> HIDE DEF z
  <2>3. z.pc \notin {"probe", "again"} => z.body \subseteq used
    BY <1>1, <2>1, <2>2
  <2>4. NextRound(t, r) = Going(r, z)
    BY <1>2 DEF NextRound, s, z
  <2>5. QED
    BY <2>1, <2>2, <2>3, <2>4, OnOK
<1>3. CASE ~(r.run.round + 1 < MaxRounds)
  BY <1>1, <1>3, SettledOK DEF NextRound
<1>4. QED
  BY <1>2, <1>3

(* Two records of a tab that differ only in what no part of the invariant  *)
(* is about.                                                               *)
Alike(x, r) ==
    /\ x.store = r.store /\ x.added = r.added /\ x.hash = r.hash /\ x.client = r.client
    /\ x.writes = r.writes /\ x.wop = r.wop /\ x.recent = r.recent /\ x.run = r.run
    /\ x.folded = r.folded /\ x.view = r.view /\ x.reads = r.reads /\ x.heard = r.heard
    /\ x.issued = r.issued /\ x.need = r.need /\ x.qneed = r.qneed

(* They are right together.                                                *)
LEMMA AlikeOK ==
    ASSUME NEW r, TabOK(r), NEW x \in TabState, Alike(x, r)
    PROVE  TabOK(x) /\ Follows(x, r)
<1>1. ShapeOK(x) /\ HashOK(x) /\ ReadsOK(x) /\ HeardOK(x)
  BY DEF Alike, TabOK, ShapeOK, HashOK, ReadsOK, HeardOK, Held
<1>2. NeedOK(x) /\ FastOK(x) /\ DiskOK(x) /\ UsedOK(x)
  BY DEF Alike, TabOK, NeedOK, FastOK, DiskOK, UsedOK, Held
<1>3. QED
  BY <1>1, <1>2 DEF Alike, TabOK, Follows, Held, Owed

(* Registration is one such thing.                                         *)
LEMMA RegOK ==
    ASSUME NEW r, TabOK(r), NEW a \in BOOLEAN, NEW b \in BOOLEAN
    PROVE  LET x == [r EXCEPT !.reg = a, !.ever = b]
           IN  TabOK(x) /\ Follows(x, r) /\ x.run = r.run
<1> DEFINE x == [r EXCEPT !.reg = a, !.ever = b]
<1>0. r \in TabState
  BY DEF TabOK
<1>1. x \in TabState /\ Alike(x, r)
  <2>1. x \in TabState
    BY <1>0 DEF TabState
  <2>2. Alike(x, r)
    BY <1>0 DEF TabState, Alike
  <2>3. QED
    BY <2>1, <2>2
<1>2. x.run = r.run
  BY <1>1 DEF Alike
<1> HIDE DEF x
<1>3. QED
  BY <1>1, <1>2, AlikeOK DEF x

(* One step after another.                                                 *)
LEMMA FollowsOn ==
    ASSUME NEW x, NEW y, NEW z, Follows(x, y), Follows(y, z)
    PROVE  Follows(x, z)
BY DEF Follows

(* A page of a set of entries: none when nothing is past the cursor, and   *)
(* its last entry is the new cursor.                                       *)
LEMMA PageFacts ==
    ASSUME NEW S \in SUBSET Entry, NEW c \in 0..MaxEntry, FirstPage(S, c) # {}
    PROVE  FirstPage(S, c) \subseteq S /\ Max(FirstPage(S, c)) \in 0..MaxEntry
<1>1. FirstPage(S, c) \subseteq S
  BY DEF FirstPage
<1>2. FirstPage(S, c) \in SUBSET (0..MaxEntry)
  <2>1. Entry \subseteq 0..MaxEntry
    BY JsConstants DEF Entry
  <2>2. QED
    BY <1>1, <2>1
<1>3. QED
  BY <1>1, <1>2, MaxFacts

(* pushFrom goes on, or the round ends.                                    *)
LEMMA PushWalkOK ==
    ASSUME NEW t \in Tab, TabOK(tab[t]), tab[t].run.pc \notin {"idle", "await", "done"},
           NEW c \in 0..MaxEntry
    PROVE  TabOK(PushWalk(t, c)) /\ Follows(PushWalk(t, c), tab[t])
<1> DEFINE S == Mem(t)
           batch == FirstPage(S, c)
           s == [tab[t].run EXCEPT !.pc = "walk", !.cur = Max(batch), !.body = batch]
<1>1. tab[t].run \in RunState /\ tab[t].added \in Seq(Entry)
  BY DEF TabOK, TabState
<1>2. S \in SUBSET Entry /\ S \subseteq used
  BY <1>1, SetFacts DEF Mem, TabOK, UsedOK, Held
<1>3. CASE batch = {}
  BY <1>3, NextRoundOK DEF PushWalk
<1>4. CASE batch # {}
  <2>1. batch \subseteq S /\ Max(batch) \in 0..MaxEntry
    BY <1>2, <1>4, PageFacts
  <2>2. PushWalk(t, c) = Going(tab[t], s)
    BY <1>4 DEF PushWalk, Onward
  <2> HIDE DEF batch, S
  <2>3. s \in RunState /\ s.pc = "walk" /\ s.body = batch /\ s.new = tab[t].run.new
        /\ s.mine = tab[t].run.mine
    BY <1>1, <1>2, <2>1 DEF RunState, Pcs
  <2> HIDE DEF s
  <2>4. s.body \subseteq used
    BY <1>2, <2>1, <2>3
  <2>5. QED
    BY <2>2, <2>3, <2>4, OnOK
<1>5. QED
  BY <1>3, <1>4

(* A sync begins, and waits for the writes that are queued.                *)
LEMMA StartedOK ==
    ASSUME NEW r, TabOK(r), r.client # "none", r.run.pc = "idle", NEW n \in SUBSET r.issued
    PROVE  TabOK(Started(r, n)) /\ Follows(Started(r, n), r)
<1> DEFINE s == [Idle EXCEPT !.pc = "await", !.wait = ToSet(r.writes)]
           x == [r EXCEPT !.run = s, !.need = n]
<1>1. r \in TabState /\ r.writes \in Seq(Entry) /\ r.issued \in SUBSET Entry
  BY DEF TabOK, TabState
<1>2. ToSet(r.writes) \in SUBSET Entry
  BY <1>1, SetFacts
<1>3. /\ s \in RunState /\ s.pc = "await" /\ s.wait = ToSet(r.writes) /\ s.mine = <<>>
      /\ s.body = {} /\ s.new = FALSE
  BY <1>2, IdleMade DEF RunState, Pcs
<1>4. r.run = Idle
  BY DEF TabOK, ShapeOK
<1>5. x = Started(r, n)
  BY DEF Started
<1> HIDE DEF s
<1>6. /\ x \in TabState
      /\ x.store = r.store /\ x.added = r.added /\ x.hash = r.hash /\ x.client = r.client
      /\ x.writes = r.writes /\ x.wop = r.wop /\ x.recent = r.recent /\ x.run = s /\ x.folded = r.folded
      /\ x.view = r.view /\ x.reads = r.reads /\ x.issued = r.issued /\ x.need = n
      /\ x.qneed = r.qneed /\ x.heard = r.heard
  BY <1>1, <1>3 DEF TabState
<1> HIDE DEF x
<1>7. ShapeOK(x) /\ HashOK(x) /\ ReadsOK(x)
  BY <1>3, <1>4, <1>6, SetFacts, IdleMade DEF TabOK, ShapeOK, HashOK, ReadsOK, Held
<1>8. HeardOK(x) /\ NeedOK(x)
  BY <1>3, <1>4, <1>6, IdleMade DEF TabOK, ShapeOK, HeardOK, NeedOK, Held
<1>9. FastOK(x) /\ DiskOK(x) /\ UsedOK(x)
  BY <1>3, <1>4, <1>6, IdleMade DEF TabOK, FastOK, DiskOK, UsedOK, Held
<1>10. Follows(x, r)
  BY <1>3, <1>4, <1>6, IdleMade DEF Follows, Held, Owed
<1>11. QED
  BY <1>5, <1>6, <1>7, <1>8, <1>9, <1>10 DEF TabOK

-----------------------------------------------------------------------------
(* What a step of one tab leaves true of all.                              *)

(* The world goes on: sets grow, and an ended vault stays so.              *)
Grows ==
    /\ used \subseteq used' /\ failed \subseteq failed' /\ db \subseteq db'
    /\ vault = "ended" => vault' = "ended"
    /\ vault' # "ended" => server \subseteq server'

(* A record stays right while it does.                                     *)
LEMMA GrowKeeps ==
    ASSUME NEW r, TabOK(r), Grows
    PROVE  TabOK(r)'
<1>1. ShapeOK(r)' /\ HashOK(r)' /\ ReadsOK(r)' /\ HeardOK(r)' /\ (r \in TabState)'
  BY DEF TabOK, ShapeOK, HashOK, ReadsOK, HeardOK, Held
<1>2. NeedOK(r)'
  BY DEF Grows, TabOK, NeedOK, Held
<1>3. FastOK(r)'
  BY DEF Grows, TabOK, FastOK, Held
<1>4. DiskOK(r)' /\ UsedOK(r)'
  BY DEF Grows, TabOK, DiskOK, UsedOK, Held
<1>5. QED
  BY <1>1, <1>2, <1>3, <1>4 DEF TabOK

(* The world of a step that leaves the messages and the history alone.     *)
Quiet ==
    /\ Grows /\ UNCHANGED <<db, chan, orphans>>
    /\ WorldOK'

(* A step of one tab that neither commits rows nor announces any.          *)
LEMMA QuietKeeps ==
    ASSUME IndInv, NEW t \in Tab, NEW x, Sets(t, x), Quiet, TabOK(x)',
           x.store = tab[t].store, Held(x) = Held(tab[t]), Owed(x) = Owed(tab[t]),
           x.issued \subseteq tab[t].issued \cup (used' \ used)
    PROVE  IndInv'
<1>1. DOMAIN tab' = Tab /\ tab'[t] = x /\ \A u \in Tab : u # t => tab'[u] = tab[u]
  BY DEF Sets, IndInv
<1>2. ASSUME NEW u \in Tab PROVE TabOK(tab[u])'
  <2>1. CASE u = t
    BY <1>1, <2>1
  <2>2. CASE u # t
    <3>1. PICK r : r = tab[u]
      OBVIOUS
    <3>2. TabOK(r)'
      BY <3>1, GrowKeeps DEF IndInv, Quiet
    <3>3. tab'[u] = r
      BY <1>1, <2>2, <3>1
    <3>4. QED
      BY <3>2, <3>3
  <2>3. QED
    BY <2>1, <2>2
<1>3. ASSUME NEW u \in Tab
      PROVE  /\ tab'[u].store = tab[u].store /\ Mem(u)' = Mem(u) /\ Owed(tab[u])' = Owed(tab[u])
             /\ tab'[u].issued \subseteq tab[u].issued \cup (used' \ used)
  <2>1. CASE u = t
    BY <1>1, <2>1 DEF Mem, Held, Owed
  <2>2. CASE u # t
    BY <1>1, <2>2 DEF Mem, Held, Owed
  <2>3. QED
    BY <2>1, <2>2
<1>4. ASSUME NEW u \in Tab PROVE ChanOK(u)'
  <2>1. ChanOK(u) /\ db \subseteq used
    BY DEF IndInv, WorldOK
  <2>2. QED
    BY <1>3, <2>1 DEF ChanOK, Listens, Quiet, Grows
<1>5. ASSUME NEW u \in Tab PROVE AgreeOK(u)'
  <2>1. AllOwed' = AllOwed
    BY <1>3 DEF AllOwed
  <2>2. AgreeOK(u)
    BY DEF IndInv
  <2>3. QED
    BY <1>3, <2>1, <2>2 DEF AgreeOK, Coming, Quiet
<1>6. ASSUME NEW u \in Tab, NEW v \in Tab, u # v PROVE tab'[u].issued \cap tab'[v].issued = {}
  <2>1. tab[u].issued \subseteq used /\ tab[v].issued \subseteq used
    BY DEF IndInv, TabOK, UsedOK
  <2>2. tab[u].issued \cap tab[v].issued = {}
    BY <1>6 DEF IndInv
  <2>3. u # t => tab'[u].issued = tab[u].issued
    BY <1>1
  <2>4. v # t => tab'[v].issued = tab[v].issued
    BY <1>1
  <2>5. QED
    BY <1>3, <1>6, <2>1, <2>2, <2>3, <2>4
<1>7. QED
  BY <1>1, <1>2, <1>4, <1>5, <1>6 DEF IndInv, Quiet

(* A step of one tab that the others cannot tell.                          *)
LEMMA FollowsKeeps ==
    ASSUME IndInv, NEW t \in Tab, NEW x, Sets(t, x), Quiet, TabOK(x), Follows(x, tab[t])
    PROVE  IndInv'
<1>1. TabOK(x)'
  BY GrowKeeps DEF Quiet
<1>2. QED
  BY <1>1, QuietKeeps DEF Follows

(* The world of a step that changes nothing but its tab.                   *)
LEMMA StillQuiet ==
    ASSUME IndInv, UNCHANGED <<remote, disk, history>>
    PROVE  Quiet
BY DEF IndInv, WorldOK, Quiet, Grows, remote, disk, history

(* Such a step.                                                            *)
LEMMA StillKeeps ==
    ASSUME IndInv, NEW t \in Tab, NEW x, Sets(t, x), UNCHANGED <<remote, disk, history>>,
           TabOK(x), Follows(x, tab[t])
    PROVE  IndInv'
BY StillQuiet, FollowsKeeps

-----------------------------------------------------------------------------
(* Steps of a sync, of drop and of close that end no transaction.          *)

(* sync().                                                                 *)
LEMMA SyncCallKeeps ==
    ASSUME IndInv, NEW t \in Tab, SyncCall(t)
    PROVE  IndInv'
<1>1. TabOK(tab[t]) /\ tab[t].client = "open" /\ UNCHANGED <<remote, disk, history>>
  BY DEF IndInv, SyncCall
<1>2. CASE tab[t].run.pc = "idle"
  <2>1. PICK x : x = Started(tab[t], tab[t].issued)
    OBVIOUS
  <2>2. TabOK(x) /\ Follows(x, tab[t])
    BY <1>1, <1>2, <2>1, StartedOK
  <2>3. Sets(t, x)
    BY <1>2, <2>1 DEF SyncCall
  <2>4. QED
    BY <1>1, <2>2, <2>3, StillKeeps
<1>3. CASE tab[t].run.pc # "idle"
  <2>1. PICK r : r = tab[t]
    OBVIOUS
  <2> DEFINE q == IF r.queued = "none" THEN "wait" ELSE r.queued
  <2>2. PICK x : x = [r EXCEPT !.queued = q, !.qneed = r.issued]
    OBVIOUS
  <2>3. Sets(t, x)
    BY <1>3, <2>1, <2>2 DEF SyncCall, Sets
  <2>4. r \in TabState /\ TabOK(r) /\ r.client = "open" /\ q \in {"none", "wait", "ready"}
    BY <1>1, <2>1 DEF TabOK, TabState
  <2> HIDE DEF q
  <2>5. /\ x \in TabState
        /\ x.store = r.store /\ x.added = r.added /\ x.hash = r.hash /\ x.client = r.client
        /\ x.writes = r.writes /\ x.wop = r.wop /\ x.recent = r.recent /\ x.run = r.run
        /\ x.folded = r.folded /\ x.view = r.view /\ x.reads = r.reads /\ x.issued = r.issued
        /\ x.need = r.need /\ x.qneed = r.issued /\ x.heard = r.heard
    BY <2>2, <2>4, ZenonT(60) DEF TabState
  <2>6. ShapeOK(x) /\ HashOK(x) /\ ReadsOK(x) /\ HeardOK(x)
    BY <2>4, <2>5 DEF TabOK, ShapeOK, HashOK, ReadsOK, HeardOK, Held
  <2>7. NeedOK(x) /\ FastOK(x) /\ DiskOK(x) /\ UsedOK(x)
    BY <2>4, <2>5 DEF TabOK, NeedOK, FastOK, DiskOK, UsedOK, Held
  <2>8. TabOK(x) /\ Follows(x, r)
    BY <2>5, <2>6, <2>7 DEF TabOK, Follows, Owed, Held
  <2>9. QED
    BY <1>1, <2>1, <2>3, <2>8, StillKeeps
<1>4. QED
  BY <1>2, <1>3

(* The queued sync() gets its turn.                                        *)
LEMMA QueuedRunsKeeps ==
    ASSUME IndInv, NEW t \in Tab, QueuedRuns(t)
    PROVE  IndInv'
<1>1. PICK r : r = tab[t]
  OBVIOUS
<1> DEFINE d == r.dropOn \ {"queued"}
<1>2. PICK y : y = [r EXCEPT !.queued = "none", !.qneed = {}, !.dropOn = d]
  OBVIOUS
<1>3. TabOK(r) /\ r \in TabState /\ d \in SUBSET {"run", "queued"}
      /\ UNCHANGED <<remote, disk, history>>
  BY <1>1 DEF IndInv, TabOK, TabState, QueuedRuns
<1>4. y = [tab[t] EXCEPT !.queued = "none", !.qneed = {}, !.dropOn = @ \ {"queued"}]
  BY <1>1, <1>2, <1>3 DEF TabState
<1> HIDE DEF d
<1>5. /\ y \in TabState
      /\ y.store = r.store /\ y.added = r.added /\ y.hash = r.hash /\ y.client = r.client
      /\ y.writes = r.writes /\ y.wop = r.wop /\ y.recent = r.recent /\ y.run = r.run
      /\ y.folded = r.folded /\ y.view = r.view /\ y.reads = r.reads /\ y.issued = r.issued
      /\ y.need = r.need /\ y.qneed = {} /\ y.heard = r.heard
  BY <1>2, <1>3, ZenonT(60) DEF TabState
<1>6. TabOK(y) /\ Follows(y, r)
  <2>1. ShapeOK(y) /\ HashOK(y) /\ ReadsOK(y) /\ HeardOK(y)
    BY <1>3, <1>5 DEF TabOK, ShapeOK, HashOK, ReadsOK, HeardOK, Held
  <2>2. NeedOK(y) /\ FastOK(y) /\ DiskOK(y) /\ UsedOK(y)
    BY <1>3, <1>5 DEF TabOK, NeedOK, FastOK, DiskOK, UsedOK, Held
  <2>3. QED
    BY <1>5, <2>1, <2>2 DEF TabOK, Follows, Owed, Held
<1>7. CASE y.client # "open"
  <2>1. Sets(t, y)
    BY <1>4, <1>7 DEF QueuedRuns
  <2>2. QED
    BY <1>1, <1>3, <1>6, <2>1, StillKeeps
<1>8. CASE y.client = "open" /\ y.run.pc = "idle"
  <2> DEFINE s == Started(y, r.qneed)
             e == IF "queued" \in r.dropOn THEN s.dropOn \cup {"run"} ELSE s.dropOn
  <2>1. PICK x : x = [s EXCEPT !.dropOn = e]
    OBVIOUS
  <2>2. r.qneed \in SUBSET y.issued
    BY <1>3, <1>5 DEF TabOK, ShapeOK
  <2>3. TabOK(s) /\ Follows(s, y)
    BY <1>6, <1>8, <2>2, StartedOK
  <2>4. Sets(t, x)
    BY <1>1, <1>4, <1>8, <2>1 DEF QueuedRuns
  <2> HIDE DEF s
  <2>5. s \in TabState /\ e \in SUBSET {"run", "queued"}
    BY <2>3 DEF TabOK, TabState
  <2> HIDE DEF e
  <2>6. x \in TabState /\ Alike(x, s)
    <3>1. x \in TabState
      BY <2>1, <2>5 DEF TabState
    <3>2. Alike(x, s)
      BY <2>1, <2>5 DEF TabState, Alike
    <3>3. QED
      BY <3>1, <3>2
  <2>7. TabOK(x) /\ Follows(x, s)
    BY <2>3, <2>6, AlikeOK
  <2>8. Follows(x, r)
    BY <1>6, <2>3, <2>7, FollowsOn
  <2>9. QED
    BY <1>1, <1>3, <2>4, <2>7, <2>8, StillKeeps
<1>9. CASE y.client = "open" /\ y.run.pc # "idle"
  <2>1. PICK x : x = [r EXCEPT !.queued = "wait"]
    OBVIOUS
  <2>2. Sets(t, x)
    BY <1>1, <1>4, <1>9, <2>1 DEF QueuedRuns
  <2>3. x \in TabState /\ Alike(x, r)
    <3>1. x \in TabState
      BY <1>3, <2>1, ZenonT(60) DEF TabState
    <3>2. Alike(x, r)
      BY <1>3, <2>1 DEF TabState, Alike
    <3>3. QED
      BY <3>1, <3>2
  <2>4. QED
    BY <1>1, <1>3, <2>2, <2>3, AlikeOK, StillKeeps
<1>10. QED
  BY <1>7, <1>8, <1>9

(* syncOnce takes what was written.                                        *)
LEMMA SyncTakesKeeps ==
    ASSUME IndInv, NEW t \in Tab, SyncTakes(t)
    PROVE  IndInv'
<1>1. PICK r : r = tab[t]
  OBVIOUS
<1>2. /\ TabOK(r) /\ r \in TabState /\ r.run \in RunState /\ r.recent \in Seq(Entry)
      /\ r.run.pc = "await" /\ UNCHANGED <<remote, disk, history>>
  BY <1>1 DEF IndInv, TabOK, TabState, SyncTakes
<1> DEFINE s == [r.run EXCEPT !.mine = r.recent, !.wait = {}]
           z == Round(r, s)
<1>3. s \in RunState /\ s.mine = r.recent /\ s.new = r.run.new /\ s.body = r.run.body
  BY <1>2 DEF RunState
<1>4. PICK x : x = Going([r EXCEPT !.recent = <<>>], z)
  OBVIOUS
<1>5. Sets(t, x)
  BY <1>1, <1>4 DEF SyncTakes
<1> HIDE DEF s
<1>6. /\ z \in RunState /\ z.pc \in {"register", "fast", "probe"} /\ z.mine = s.mine
      /\ z.new = s.new /\ (z.pc = "fast" => z.body \subseteq ToSet(s.mine))
      /\ z.pc = "register" => z.body = s.body
  BY <1>3, RoundOpens
<1> HIDE DEF z
<1>7. r.client # "none" /\ r.run.mine = <<>> /\ ToSet(r.recent) \subseteq used
      /\ r.run.body \subseteq used
  BY <1>2, IdleMade DEF TabOK, ShapeOK, UsedOK
<1>8. r.need \subseteq Held(r) \cup failed
  <2>1. r.run.wait \cap ToSet(r.writes) = {}
    BY <1>1 DEF SyncTakes
  <2>2. r.need \subseteq r.issued /\ r.need \cap ToSet(r.writes) \subseteq r.run.wait
        /\ r.issued \subseteq Held(r) \cup failed \cup ToSet(r.writes)
    BY <1>2 DEF TabOK, ShapeOK, NeedOK
  <2>3. QED
    BY <2>1, <2>2
<1>9. <<>> \in Seq(Entry) /\ ToSet(<<>>) = {}
  BY <1>2, SetFacts
<1>10. ToSet(<<>>) \cup ToSet(z.mine) = ToSet(r.recent) \cup ToSet(r.run.mine)
  BY <1>3, <1>6, <1>7, <1>9
<1>11. z.pc \notin {"probe", "again"} => z.body \subseteq used
  BY <1>3, <1>6, <1>7
<1>12. TabOK(x) /\ Follows(x, r)
  BY <1>2, <1>3, <1>4, <1>6, <1>7, <1>8, <1>9, <1>10, <1>11, GoingOK
<1>13. QED
  BY <1>1, <1>2, <1>5, <1>12, StillKeeps

(* A request fails, or is refused: the sync throws.                        *)
LEMMA ThrownOK ==
    ASSUME IndInv, NEW t \in Tab, tab[t].run.pc \notin {"idle", "await", "done"}
    PROVE  TabOK(Thrown(t)) /\ Follows(Thrown(t), tab[t])
<1>1. TabOK(tab[t]) /\ tab[t].client # "none"
  BY IdleMade DEF IndInv, TabOK, ShapeOK
<1>2. QED
  BY <1>1, SettledOK DEF Thrown

(* REGISTER.                                                               *)
LEMMA AnswerRegisterKeeps ==
    ASSUME IndInv, NEW t \in Tab, AnswerRegister(t)
    PROVE  IndInv'
<1>1. PICK r : r = tab[t]
  OBVIOUS
<1>2. /\ TabOK(r) /\ r.run \in RunState /\ r.run.pc = "register"
      /\ ToSet(r.run.mine) \subseteq used
  BY <1>1 DEF IndInv, TabOK, TabState, AnswerRegister, UsedOK, ShapeOK
<1>3. Quiet
  BY DEF AnswerRegister, IndInv, WorldOK, Quiet, Grows, disk, history
<1>4. CASE vault = "ended"
  <2>1. PICK x : x = Thrown(t)
    OBVIOUS
  <2>2. Sets(t, x)
    BY <1>4, <2>1 DEF AnswerRegister
  <2>3. TabOK(x) /\ Follows(x, r)
    BY <1>1, <1>2, <2>1, ThrownOK
  <2>4. QED
    BY <1>1, <1>3, <2>2, <2>3, FollowsKeeps
<1>5. CASE vault # "ended"
  <2> DEFINE z == FastPath(r.run)
  <2>1. PICK y : y = [r EXCEPT !.reg = TRUE, !.ever = TRUE]
    OBVIOUS
  <2>2. PICK x : x = Going(y, z)
    OBVIOUS
  <2>3. Sets(t, x)
    BY <1>1, <1>5, <2>1, <2>2 DEF AnswerRegister
  <2>4. TabOK(y) /\ Follows(y, r) /\ y.run = r.run
    BY <1>2, <2>1, RegOK
  <2>5. /\ z \in RunState /\ z.pc \in {"fast", "probe"} /\ z.mine = r.run.mine
        /\ z.new = r.run.new /\ (z.pc = "fast" => z.body \subseteq ToSet(r.run.mine))
    BY <1>2, RoundOpens
  <2> HIDE DEF z
  <2>6. TabOK(x) /\ Follows(x, y)
    BY <1>2, <2>2, <2>4, <2>5, OnOK
  <2>7. Follows(x, r)
    BY <2>4, <2>6, FollowsOn
  <2>8. QED
    BY <1>1, <1>3, <2>3, <2>6, <2>7, FollowsKeeps
<1>6. QED
  BY <1>4, <1>5

(* Where reconciliation starts.                                            *)
LEMMA AnchorType ==
    ASSUME NEW t \in Tab, TabOK(tab[t])
    PROVE  Anchor(t) \in 0..MaxEntry
<1>1. tab[t].added \in Seq(Entry)
  BY DEF TabOK, TabState
<1>2. Mem(t) \in SUBSET (0..MaxEntry)
  <2>1. Entry \subseteq 0..MaxEntry
    BY JsConstants DEF Entry
  <2>2. QED
    BY <1>1, <2>1, SetFacts DEF Mem
<1>3. Mem(t) # {} => Max(Mem(t)) \in 0..MaxEntry
  BY <1>2, MaxFacts
<1> DEFINE m == Max(Mem(t))
<1>4. \/ Anchor(t) = m - Window - 1 /\ m > Window /\ m \in 0..MaxEntry
      \/ Anchor(t) = 0
  BY <1>3 DEF Anchor
<1> HIDE DEF m
<1>5. QED
  BY <1>4, JsConstants

(* PROBE: equal sets cover what the callers wrote, and else the sync goes  *)
(* on.                                                                     *)
LEMMA AnswerProbeKeeps ==
    ASSUME IndInv, NEW t \in Tab, AnswerProbe(t)
    PROVE  IndInv'
<1>1. PICK r : r = tab[t]
  OBVIOUS
<1>2. /\ TabOK(r) /\ r.run \in RunState /\ r.run.pc \in {"probe", "again"} /\ r.run.body \subseteq used
      /\ UNCHANGED remote /\ r.run.anchor \in 0..MaxEntry
  BY <1>1 DEF IndInv, TabOK, TabState, RunState, AnswerProbe, UsedOK
<1>3. CASE r.run.body = server
  <2>1. Ends(t)
    BY <1>1, <1>3 DEF AnswerProbe
  <2>2. PICK x : x = Settled(r, TRUE)
    OBVIOUS
  <2>3. Sets(t, x)
    BY <1>1, <2>1, <2>2 DEF Ends
  <2>4. r.need \subseteq server \cup failed /\ ToSet(r.run.mine) \subseteq server /\ r.client # "none"
    BY <1>2, <1>3, IdleMade DEF TabOK, NeedOK, ShapeOK
  <2>5. TabOK(x) /\ Follows(x, r)
    BY <1>2, <2>2, <2>4, SettledOK
  <2>6. missed' = {}
    BY <1>1, <2>1, <2>4 DEF Ends, IndInv, WorldOK
  <2>7. Quiet
    BY <1>2, <2>1, <2>6 DEF Ends, IndInv, WorldOK, Quiet, Grows, remote, disk
  <2>8. QED
    BY <1>1, <2>3, <2>5, <2>7, FollowsKeeps
<1>4. CASE r.run.body # server
  <2>1. UNCHANGED <<remote, disk, history>>
    BY <1>1, <1>2, <1>4 DEF AnswerProbe
  <2>2. CASE r.run.pc = "probe"
    <3> DEFINE a == Anchor(t)
               s == [r.run EXCEPT !.pc = "pull", !.anchor = a, !.cur = a]
    <3>1. PICK x : x = Going(r, s)
      OBVIOUS
    <3>2. Sets(t, x)
      BY <1>1, <1>4, <2>2, <3>1 DEF AnswerProbe, Onward
    <3>3. a \in 0..MaxEntry
      BY <1>1, <1>2, AnchorType
    <3> HIDE DEF a
    <3>4. s \in RunState /\ s.pc = "pull" /\ s.new = r.run.new /\ s.mine = r.run.mine
          /\ s.body = r.run.body
      BY <1>2, <3>3 DEF RunState, Pcs
    <3> HIDE DEF s
    <3>5. TabOK(x) /\ Follows(x, r)
      BY <1>2, <2>2, <3>1, <3>4, OnOK
    <3>6. QED
      BY <1>1, <2>1, <3>2, <3>5, StillKeeps
  <2>3. CASE r.run.pc = "again"
    <3>1. PICK x : x = PushWalk(t, r.run.anchor)
      OBVIOUS
    <3>2. Sets(t, x)
      BY <1>1, <1>4, <2>3, <3>1 DEF AnswerProbe
    <3>3. TabOK(x) /\ Follows(x, r)
      BY <1>1, <1>2, <2>3, <3>1, PushWalkOK
    <3>4. QED
      BY <1>1, <2>1, <3>2, <3>3, StillKeeps
  <2>4. QED
    BY <1>2, <2>2, <2>3
<1>5. QED
  BY <1>3, <1>4

(* A page of the pull.                                                     *)
LEMMA AnswerPullKeeps ==
    ASSUME IndInv, NEW t \in Tab, AnswerPull(t)
    PROVE  IndInv'
<1>1. PICK r : r = tab[t]
  OBVIOUS
<1>2. /\ TabOK(r) /\ r.run \in RunState /\ r.run.pc = "pull" /\ UNCHANGED <<remote, disk, history>>
      /\ r.run.cur \in 0..MaxEntry /\ r.run.body \subseteq used
  BY <1>1 DEF IndInv, TabOK, TabState, RunState, AnswerPull, UsedOK
<1> DEFINE page == FirstPage(server, r.run.cur)
           fresh == page \ Mem(t)
<1>3. server \in SUBSET Entry /\ server \subseteq used
  BY DEF IndInv, WorldOK
<1>4. CASE page = {}
  <2> DEFINE s == [r.run EXCEPT !.pc = "again"]
  <2>1. PICK x : x = Going(r, s)
    OBVIOUS
  <2>2. Sets(t, x)
    BY <1>1, <1>4, <2>1 DEF AnswerPull, Onward
  <2>3. s \in RunState /\ s.pc = "again" /\ s.new = r.run.new /\ s.mine = r.run.mine
    BY <1>2 DEF RunState, Pcs
  <2> HIDE DEF s
  <2>4. TabOK(x) /\ Follows(x, r)
    BY <1>2, <2>1, <2>3, OnOK
  <2>5. QED
    BY <1>1, <1>2, <2>2, <2>4, StillKeeps
<1>5. CASE page # {} /\ tab[t].store # "open"
  <2>1. PICK x : x = Thrown(t)
    OBVIOUS
  <2>2. Sets(t, x)
    BY <1>1, <1>5, <2>1 DEF AnswerPull
  <2>3. TabOK(x) /\ Follows(x, r)
    BY <1>1, <1>2, <2>1, ThrownOK
  <2>4. QED
    BY <1>1, <1>2, <2>2, <2>3, StillKeeps
<1>6. CASE page # {} /\ tab[t].store = "open"
  <2> DEFINE p == IF fresh = {} THEN "pull" ELSE "tx"
             s == [r.run EXCEPT !.pc = p, !.cur = Max(page), !.body = fresh]
  <2>1. PICK x : x = Going(r, s)
    OBVIOUS
  <2>2. Sets(t, x)
    BY <1>1, <1>6, <2>1 DEF AnswerPull, Onward
  <2>3. page \subseteq server /\ Max(page) \in 0..MaxEntry
    BY <1>2, <1>3, <1>6, PageFacts
  <2>4. fresh \in SUBSET Entry /\ fresh \subseteq server /\ p \in {"pull", "tx"}
    BY <1>3, <2>3
  <2> HIDE DEF page, fresh, p
  <2>5. s \in RunState /\ s.pc = p /\ s.new = r.run.new /\ s.mine = r.run.mine /\ s.body = fresh
    BY <1>2, <2>3, <2>4 DEF RunState, Pcs
  <2> HIDE DEF s
  <2>6. TabOK(x) /\ Follows(x, r)
    BY <1>2, <1>3, <2>1, <2>4, <2>5, OnOK
  <2>7. QED
    BY <1>1, <1>2, <2>2, <2>6, StillKeeps
<1>7. QED
  BY <1>4, <1>5, <1>6

(* PUSH.                                                                   *)
LEMMA AnswerPushKeeps ==
    ASSUME IndInv, NEW t \in Tab, AnswerPush(t)
    PROVE  IndInv'
<1>1. PICK r : r = tab[t]
  OBVIOUS
<1>2. /\ TabOK(r) /\ r.run \in RunState /\ r.run.pc \in {"fast", "walk"} /\ r.run.body \subseteq used
      /\ r.run.cur \in 0..MaxEntry /\ ToSet(r.run.mine) \subseteq used
  BY <1>1, SMTT(30) DEF IndInv, TabOK, TabState, RunState, AnswerPush, UsedOK, ShapeOK
<1>3. Quiet
  BY <1>1, <1>2 DEF AnswerPush, IndInv, WorldOK, Quiet, Grows, disk, history
<1>4. CASE r.run.pc = "fast"
  <2> DEFINE z == FastPath(r.run)
  <2>1. PICK x : x = Going(r, z)
    OBVIOUS
  <2>2. Sets(t, x)
    BY <1>1, <1>4, <2>1 DEF AnswerPush, Onward
  <2>3. /\ z \in RunState /\ z.pc \in {"fast", "probe"} /\ z.mine = r.run.mine
        /\ z.new = r.run.new /\ (z.pc = "fast" => z.body \subseteq ToSet(r.run.mine))
    BY <1>2, RoundOpens
  <2> HIDE DEF z
  <2>4. TabOK(x) /\ Follows(x, r)
    BY <1>2, <2>1, <2>3, OnOK
  <2>5. QED
    BY <1>1, <1>3, <2>2, <2>4, FollowsKeeps
<1>5. CASE r.run.pc = "walk"
  <2>1. PICK x : x = PushWalk(t, r.run.cur)
    OBVIOUS
  <2>2. Sets(t, x)
    BY <1>1, <1>5, <2>1 DEF AnswerPush
  <2>3. TabOK(x) /\ Follows(x, r)
    BY <1>1, <1>2, <1>5, <2>1, PushWalkOK
  <2>4. QED
    BY <1>1, <1>3, <2>2, <2>3, FollowsKeeps
<1>6. QED
  BY <1>2, <1>4, <1>5

(* UNKNOWN_VAULT.                                                          *)
LEMMA AnswerUnknownKeeps ==
    ASSUME IndInv, NEW t \in Tab, AnswerUnknown(t)
    PROVE  IndInv'
<1>1. PICK r : r = tab[t]
  OBVIOUS
<1>2. /\ TabOK(r) /\ r \in TabState /\ r.run.pc \notin {"idle", "await", "done"}
      /\ r.ever \in BOOLEAN /\ UNCHANGED <<remote, disk, history>>
  BY <1>1 DEF IndInv, TabOK, TabState, AnswerUnknown, Requests
<1>3. PICK x : x = UnknownVault(t)
  OBVIOUS
<1>4. Sets(t, x)
  BY <1>3 DEF AnswerUnknown
<1>5. TabOK(x) /\ Follows(x, r)
  <2>1. CASE tab[t].ended \/ (Ephemeral /\ tab[t].ever)
    BY <1>1, <1>2, <1>3, <2>1, ThrownOK DEF UnknownVault
  <2>2. CASE ~(tab[t].ended \/ (Ephemeral /\ tab[t].ever))
    <3>1. PICK y : y = [r EXCEPT !.reg = FALSE, !.ever = r.ever]
      OBVIOUS
    <3>2. y = [r EXCEPT !.reg = FALSE]
      BY <1>2, <3>1 DEF TabState
    <3>3. x = NextRound(t, y)
      BY <1>1, <1>3, <2>2, <3>2 DEF UnknownVault
    <3>4. TabOK(y) /\ Follows(y, r) /\ y.run = r.run
      BY <1>2, <3>1, RegOK
    <3>5. TabOK(x) /\ Follows(x, y)
      BY <1>2, <3>3, <3>4, NextRoundOK
    <3>6. QED
      BY <3>4, <3>5, FollowsOn
  <2>3. QED
    BY <2>1, <2>2
<1>6. QED
  BY <1>1, <1>2, <1>4, <1>5, StillKeeps

(* The transaction of a page aborts.                                       *)
LEMMA PageFailsKeeps ==
    ASSUME IndInv, NEW t \in Tab, PageFails(t)
    PROVE  IndInv'
<1>1. PICK x : x = Thrown(t)
  OBVIOUS
<1>2. Sets(t, x) /\ UNCHANGED <<remote, disk, history>> /\ tab[t].run.pc = "tx"
  BY <1>1 DEF PageFails
<1>3. TabOK(x) /\ Follows(x, tab[t])
  BY <1>1, <1>2, ThrownOK
<1>4. QED
  BY <1>2, <1>3, StillKeeps

(* The transport throws, whether or not the server got the request.        *)
LEMMA RequestFailsKeeps ==
    ASSUME IndInv, NEW t \in Tab, RequestFails(t)
    PROVE  IndInv'
<1>1. PICK x : x = Thrown(t)
  OBVIOUS
<1>2. Sets(t, x) /\ UNCHANGED <<disk, history>> /\ tab[t].run.pc \notin {"idle", "await", "done"}
  BY <1>1 DEF RequestFails, Requests
<1>3. TabOK(x) /\ Follows(x, tab[t])
  BY <1>1, <1>2, ThrownOK
<1>4. tab[t].run.body \subseteq used
  BY DEF IndInv, TabOK, UsedOK
<1>5. Grows /\ WorldOK'
  <2>1. CASE UNCHANGED remote
    BY <1>2, <2>1 DEF IndInv, WorldOK, Grows, remote, disk, history
  <2>2. CASE server' = server \cup tab[t].run.body /\ UNCHANGED vault
    BY <1>2, <1>4, <2>2 DEF IndInv, WorldOK, Grows, disk, history
  <2>3. CASE vault = "none" /\ vault' = "live" /\ UNCHANGED server
    BY <1>2, <2>3 DEF IndInv, WorldOK, Grows, disk, history
  <2>4. QED
    BY <2>1, <2>2, <2>3 DEF RequestFails
<1>6. Quiet
  BY <1>2, <1>5 DEF Quiet, disk, history
<1>7. QED
  BY <1>2, <1>3, <1>6, FollowsKeeps

(* drop() starts to wait, sends its request, and gets its answer.          *)
LEMMA DropKeeps ==
    ASSUME IndInv, NEW t \in Tab, DropCall(t) \/ DropSends(t) \/ DropAnswer(t)
    PROVE  IndInv'
<1>1. PICK r : r = tab[t]
  OBVIOUS
<1>2. TabOK(r) /\ r \in TabState
  BY <1>1 DEF IndInv, TabOK
<1>3. \E x : Sets(t, x) /\ x \in TabState /\ Alike(x, r)
  <2> DEFINE d == (IF r.run.pc # "idle" THEN {"run"} ELSE {}) \cup (IF r.queued # "none" THEN {"queued"} ELSE {})
  <2>1. CASE DropCall(t)
    <3>1. PICK x : x = [r EXCEPT !.drop = "wait", !.dropOn = d]
      OBVIOUS
    <3>2. Sets(t, x)
      BY <1>1, <2>1, <3>1 DEF DropCall
    <3>3. d \in SUBSET {"run", "queued"}
      OBVIOUS
    <3> HIDE DEF d
    <3>4. x \in TabState
      BY <1>2, <3>1, <3>3, ZenonT(60) DEF TabState
    <3>5. Alike(x, r)
      BY <1>2, <3>1 DEF TabState, Alike
    <3>6. QED
      BY <3>2, <3>4, <3>5
  <2>2. CASE DropSends(t)
    <3>1. PICK x : x = [r EXCEPT !.drop = "sent"]
      OBVIOUS
    <3>2. Sets(t, x)
      BY <1>1, <2>2, <3>1 DEF DropSends
    <3>3. x \in TabState
      BY <1>2, <3>1, ZenonT(60) DEF TabState
    <3>4. Alike(x, r)
      BY <1>2, <3>1 DEF TabState, Alike
    <3>5. QED
      BY <3>2, <3>3, <3>4
  <2>3. CASE DropAnswer(t)
    <3> DEFINE ends == Ephemeral /\ vault = "live"
    <3>1. PICK lost \in {FALSE} \cup {"request" \in Fails} :
             Sets(t, [tab[t] EXCEPT !.drop = "none", !.ended = @ \/ (ends /\ ~lost)])
      BY <2>3 DEF DropAnswer
    <3>2. PICK e : e = (r.ended \/ (ends /\ ~lost))
      OBVIOUS
    <3>3. e \in BOOLEAN
      BY <3>2
    <3>4. PICK x : x = [r EXCEPT !.drop = "none", !.ended = e]
      OBVIOUS
    <3>5. Sets(t, x)
      BY <1>1, <1>2, <3>1, <3>2, <3>4 DEF Sets, TabState
    <3>6. x \in TabState
      BY <1>2, <3>3, <3>4, ZenonT(60) DEF TabState
    <3>7. Alike(x, r)
      BY <1>2, <3>4 DEF TabState, Alike
    <3>8. QED
      BY <3>5, <3>6, <3>7
  <2>4. QED
    BY <2>1, <2>2, <2>3
<1>4. Quiet
  <2>1. CASE DropCall(t) \/ DropSends(t)
    BY <2>1, StillQuiet DEF DropCall, DropSends
  <2>2. CASE DropAnswer(t)
    <3>1. UNCHANGED <<disk, history>>
      BY <2>2 DEF DropAnswer
    <3>2. UNCHANGED <<vault, server>> \/ (vault' = "ended" /\ server' = {})
      BY <2>2 DEF DropAnswer
    <3>3. QED
      BY <3>1, <3>2 DEF IndInv, WorldOK, Quiet, Grows, disk, history
  <2>3. QED
    BY <2>1, <2>2
<1>5. QED
  BY <1>1, <1>2, <1>3, <1>4, AlikeOK, FollowsKeeps

(* wait() computes the set hash.                                           *)
LEMMA WaitCallKeeps ==
    ASSUME IndInv, NEW t \in Tab, WaitCall(t)
    PROVE  IndInv'
<1>1. PICK r : r = tab[t]
  OBVIOUS
<1>2. TabOK(r) /\ r \in TabState /\ r.added \in Seq(Entry) /\ HashOK(r)
  BY <1>1 DEF IndInv, TabOK, TabState
<1>3. PICK x : x = [r EXCEPT !.hash = Held(r)]
  OBVIOUS
<1>4. SetHash(r) = Held(r)
  BY <1>2, HashFacts
<1>5. Sets(t, x) /\ UNCHANGED <<remote, disk, history>>
  BY <1>1, <1>3, <1>4 DEF WaitCall
<1>6. Held(r) \in SUBSET (0..MaxEntry)
  <2>1. Entry \subseteq 0..MaxEntry
    BY JsConstants DEF Entry
  <2>2. QED
    BY <1>2, <2>1, SetFacts DEF Held
<1>7. /\ x \in TabState
      /\ x.store = r.store /\ x.added = r.added /\ x.hash = Held(r) /\ x.client = r.client
      /\ x.writes = r.writes /\ x.wop = r.wop /\ x.recent = r.recent /\ x.run = r.run
      /\ x.folded = r.folded /\ x.view = r.view /\ x.reads = r.reads /\ x.issued = r.issued
      /\ x.need = r.need /\ x.qneed = r.qneed /\ x.heard = r.heard
  BY <1>2, <1>3, <1>6, ZenonT(60) DEF TabState
<1>8. ShapeOK(x) /\ HashOK(x) /\ ReadsOK(x) /\ HeardOK(x)
  BY <1>2, <1>7 DEF TabOK, ShapeOK, HashOK, ReadsOK, HeardOK, Held
<1>9. NeedOK(x) /\ FastOK(x) /\ DiskOK(x) /\ UsedOK(x)
  BY <1>2, <1>7 DEF TabOK, NeedOK, FastOK, DiskOK, UsedOK, Held
<1>10. TabOK(x) /\ Follows(x, r)
  BY <1>7, <1>8, <1>9 DEF TabOK, Follows, Owed, Held
<1>11. QED
  BY <1>1, <1>5, <1>10, StillKeeps

(* close() bars new calls.                                                 *)
LEMMA CloseCallKeeps ==
    ASSUME IndInv, NEW t \in Tab, CloseCall(t)
    PROVE  IndInv'
<1>1. PICK r : r = tab[t]
  OBVIOUS
<1>2. TabOK(r) /\ r \in TabState /\ r.client = "open"
  BY <1>1 DEF IndInv, TabOK, TabState, CloseCall
<1>3. PICK x : x = [r EXCEPT !.client = "closing"]
  OBVIOUS
<1>4. Sets(t, x) /\ UNCHANGED <<remote, disk, history>>
  BY <1>1, <1>3 DEF CloseCall
<1>5. /\ x \in TabState
      /\ x.store = r.store /\ x.added = r.added /\ x.hash = r.hash /\ x.client = "closing"
      /\ x.writes = r.writes /\ x.wop = r.wop /\ x.recent = r.recent /\ x.run = r.run
      /\ x.folded = r.folded /\ x.view = r.view /\ x.reads = r.reads /\ x.issued = r.issued
      /\ x.need = r.need /\ x.qneed = r.qneed /\ x.heard = r.heard
  BY <1>2, <1>3, ZenonT(60) DEF TabState
<1>6. ShapeOK(x) /\ HashOK(x) /\ ReadsOK(x) /\ HeardOK(x)
  BY <1>2, <1>5 DEF TabOK, ShapeOK, HashOK, ReadsOK, HeardOK, Held
<1>7. NeedOK(x) /\ FastOK(x) /\ DiskOK(x) /\ UsedOK(x)
  BY <1>2, <1>5 DEF TabOK, NeedOK, FastOK, DiskOK, UsedOK, Held
<1>8. TabOK(x) /\ Follows(x, r)
  BY <1>5, <1>6, <1>7 DEF TabOK, Follows, Owed, Held
<1>9. QED
  BY <1>1, <1>4, <1>8, StillKeeps

-----------------------------------------------------------------------------
(* Reads.                                                                  *)

(* A read changes the view, the count of what is folded, and the reads.    *)
LEMMA ReadKeeps ==
    ASSUME IndInv, NEW t \in Tab, NEW r, r = tab[t], NEW x, Sets(t, x),
           UNCHANGED <<remote, disk, history>>,
           NEW f \in Nat, NEW v \in [Key -> 0..MaxEntry], NEW p \in [Reader -> {<<>>} \cup (Nat \X Nat)],
           x = [r EXCEPT !.folded = f, !.view = v, !.reads = p], ReadsOK(x)
    PROVE  IndInv'
<1>1. TabOK(r) /\ r \in TabState
  BY DEF IndInv, TabOK, TabState
<1>2. /\ x \in TabState
      /\ x.store = r.store /\ x.added = r.added /\ x.hash = r.hash /\ x.client = r.client
      /\ x.writes = r.writes /\ x.wop = r.wop /\ x.recent = r.recent /\ x.run = r.run
      /\ x.issued = r.issued /\ x.need = r.need /\ x.qneed = r.qneed /\ x.heard = r.heard
  BY <1>1, ZenonT(60) DEF TabState
<1>3. ShapeOK(x) /\ HashOK(x) /\ HeardOK(x)
  BY <1>1, <1>2 DEF TabOK, ShapeOK, HashOK, HeardOK, Held
<1>4. NeedOK(x) /\ FastOK(x) /\ DiskOK(x) /\ UsedOK(x)
  BY <1>1, <1>2 DEF TabOK, NeedOK, FastOK, DiskOK, UsedOK, Held
<1>5. TabOK(x) /\ Follows(x, r)
  BY <1>2, <1>3, <1>4 DEF TabOK, Follows, Owed, Held
<1>6. QED
  BY <1>5, StillKeeps

(* replay takes what the store gained.                                     *)
LEMMA ReadBeginsKeeps ==
    ASSUME IndInv, NEW t \in Tab, NEW q \in Reader, ReadBegins(t, q)
    PROVE  IndInv'
<1>1. PICK r : r = tab[t]
  OBVIOUS
<1>2. r \in TabState /\ ReadsOK(r) /\ r.added \in Seq(Entry) /\ Len(r.added) \in Nat /\ r.folded \in Nat
      /\ r.view \in [Key -> 0..MaxEntry] /\ r.reads \in [Reader -> {<<>>} \cup (Nat \X Nat)]
  BY <1>1 DEF IndInv, TabOK, TabState
<1>3. PICK p : p = [r.reads EXCEPT ![q] = <<r.folded, Len(r.added)>>]
  OBVIOUS
<1>4. PICK x : x = [r EXCEPT !.folded = r.folded, !.view = r.view, !.reads = p]
  OBVIOUS
<1>5. p \in [Reader -> {<<>>} \cup (Nat \X Nat)]
  BY <1>2, <1>3
<1>6. x = [r EXCEPT !.reads[q] = <<r.folded, Len(r.added)>>]
  BY <1>2, <1>3, <1>4 DEF TabState
<1>7. Sets(t, x) /\ UNCHANGED <<remote, disk, history>>
  BY <1>1, <1>6 DEF ReadBegins
<1>8. x.folded = r.folded /\ x.view = r.view /\ x.added = r.added /\ x.reads = p
  BY <1>2, <1>4 DEF TabState
<1>9. ReadsOK(x)
  BY <1>2, <1>3, <1>8 DEF ReadsOK
<1>10. QED
  BY <1>1, <1>2, <1>4, <1>5, <1>7, <1>9, ReadKeeps

(* The fold goes on from what is folded, whatever read folded it.          *)
LEMMA ReadFoldsKeeps ==
    ASSUME IndInv, NEW t \in Tab, NEW q \in Reader, ReadFolds(t, q)
    PROVE  IndInv'
<1>1. PICK r : r = tab[t]
  OBVIOUS
<1>2. r \in TabState /\ ReadsOK(r) /\ r.added \in Seq(Entry) /\ Len(r.added) \in Nat /\ r.folded \in Nat
      /\ r.view \in [Key -> 0..MaxEntry] /\ r.reads \in [Reader -> {<<>>} \cup (Nat \X Nat)]
  BY <1>1 DEF IndInv, TabOK, TabState
<1> DEFINE u == r.reads[q][2]
           n == r.folded
           fresh == {r.added[i] : i \in (n + 1)..u}
<1>3. u \in Nat /\ u <= Len(r.added)
  <2>1. r.reads[q] # <<>>
    BY <1>1 DEF ReadFolds
  <2>2. r.reads[q] \in Nat \X Nat
    BY <1>2, <2>1
  <2>3. QED
    BY <1>2, <2>1, <2>2 DEF ReadsOK
<1>4. PICK f : f = IF n < u THEN n + (u - n) ELSE n
  OBVIOUS
<1>5. PICK v : v = [k \in Key |-> Max({r.view[k]} \cup {e \in fresh : KeyOf[e] = k})]
  OBVIOUS
<1>6. PICK p : p = [r.reads EXCEPT ![q] = <<>>]
  OBVIOUS
<1>7. PICK x : x = [r EXCEPT !.folded = f, !.view = v, !.reads = p]
  OBVIOUS
<1>8. f \in Nat /\ f <= Len(r.added) /\ (n < u => f = u) /\ (~(n < u) => f = n)
  BY <1>2, <1>3, <1>4 DEF ReadsOK
<1>9. p \in [Reader -> {<<>>} \cup (Nat \X Nat)]
  BY <1>2, <1>6
<1>10. Sets(t, x) /\ UNCHANGED <<remote, disk, history>>
  <2>1. x = [r EXCEPT !.folded = IF n < u THEN @ + (u - n) ELSE @,
                      !.view = [k \in Key |-> Max({@[k]} \cup {e \in fresh : KeyOf[e] = k})],
                      !.reads[q] = <<>>]
    BY <1>2, <1>4, <1>5, <1>6, <1>7 DEF TabState
  <2>2. QED
    BY <1>1, <2>1 DEF ReadFolds, FoldFrom
<1> DEFINE old == ToSet(SubSeq(r.added, 1, n))
           all == ToSet(SubSeq(r.added, 1, f))
<1>11. all = old \cup fresh /\ all \subseteq Entry
  <2>1. n <= Len(r.added) /\ n <= f
    BY <1>2, <1>8 DEF ReadsOK
  <2>2. \A m \in Nat : m <= Len(r.added) => ToSet(SubSeq(r.added, 1, m)) = {r.added[i] : i \in 1..m}
    <3>1. SUFFICES ASSUME NEW m \in Nat, m <= Len(r.added)
                   PROVE  ToSet(SubSeq(r.added, 1, m)) = {r.added[i] : i \in 1..m}
      OBVIOUS
    <3> DEFINE w == SubSeq(r.added, 1, m)
    <3>2. Len(w) = m /\ DOMAIN w = 1..m /\ \A i \in 1..m : w[i] = r.added[i]
      BY <1>2, <3>1
    <3> HIDE DEF w
    <3>3. ToSet(w) = {r.added[i] : i \in 1..m}
      BY <3>2 DEF ToSet
    <3>4. QED
      BY <3>3 DEF w
  <2>3. old = {r.added[i] : i \in 1..n} /\ all = {r.added[i] : i \in 1..f}
    BY <1>2, <1>8, <2>1, <2>2
  <2> HIDE DEF old, all
  <2>4. 1..f = (1..n) \cup ((n + 1)..u)
    BY <1>2, <1>3, <1>8
  <2>5. \A i \in 1..f : r.added[i] \in Entry
    BY <1>2, <1>8
  <2> HIDE DEF n, u
  <2>6. QED
    BY <2>3, <2>4, <2>5
<1> HIDE DEF fresh, old, all, n, u
<1>12. ASSUME NEW k \in Key
       PROVE  /\ Max({r.view[k]} \cup {e \in fresh : KeyOf[e] = k})
                    = Max({0} \cup {e \in all : KeyOf[e] = k})
              /\ Max({r.view[k]} \cup {e \in fresh : KeyOf[e] = k}) \in 0..MaxEntry
  <2> DEFINE A == {0} \cup {e \in old : KeyOf[e] = k}
             B == {e \in fresh : KeyOf[e] = k}
  <2>1. Entry \subseteq 0..MaxEntry /\ 0 \in 0..MaxEntry
    BY JsConstants DEF Entry
  <2>2. A \in SUBSET (0..MaxEntry) /\ A # {} /\ B \in SUBSET (0..MaxEntry)
    BY <1>11, <2>1
  <2>3. r.view[k] = Max(A)
    BY <1>2 DEF ReadsOK, old, n
  <2>4. A \cup B = {0} \cup {e \in all : KeyOf[e] = k}
    BY <1>11
  <2>5. Max(A \cup B) \in 0..MaxEntry
    BY <2>2, MaxFacts
  <2>6. Max({Max(A)} \cup B) = Max(A \cup B)
    BY <2>2, MaxJoin
  <2>7. QED
    BY <2>3, <2>4, <2>5, <2>6
<1>13. v \in [Key -> 0..MaxEntry] /\ \A k \in Key : v[k] = Max({0} \cup {e \in all : KeyOf[e] = k})
  BY <1>5, <1>12
<1>14. x.folded = f /\ x.view = v /\ x.added = r.added /\ x.reads = p
  BY <1>2, <1>7 DEF TabState
<1>15. ReadsOK(x)
  <2>1. \A k \in Reader : x.reads[k] # <<>> => x.reads[k][2] <= Len(x.added)
    BY <1>2, <1>6, <1>14 DEF ReadsOK
  <2>2. QED
    BY <1>8, <1>13, <1>14, <2>1 DEF ReadsOK, all
<1>16. QED
  BY <1>1, <1>7, <1>8, <1>9, <1>10, <1>13, <1>15, ReadKeeps

-----------------------------------------------------------------------------
(* The write queue.                                                        *)

(* A queue without its head.                                               *)
LEMMA QueueFacts ==
    ASSUME NEW w \in Seq(Entry), w # <<>>, \A i, j \in 1..Len(w) : w[i] = w[j] => i = j
    PROVE  /\ Tail(w) \in Seq(Entry) /\ Head(w) \in Entry /\ Head(w) = w[1] /\ Len(Tail(w)) = Len(w) - 1
           /\ Len(w) \in Nat /\ 1 \in 1..Len(w) /\ \A i \in 1..(Len(w) - 1) : Tail(w)[i] = w[i + 1]
           /\ \A i, j \in 1..Len(Tail(w)) : Tail(w)[i] = Tail(w)[j] => i = j
           /\ ToSet(w) = {Head(w)} \cup ToSet(Tail(w)) /\ Head(w) \notin ToSet(Tail(w))
<1>1. /\ Tail(w) \in Seq(Entry) /\ Head(w) \in Entry /\ Head(w) = w[1] /\ Len(Tail(w)) = Len(w) - 1
      /\ Len(w) \in Nat /\ 1 \in 1..Len(w) /\ \A i \in 1..(Len(w) - 1) : Tail(w)[i] = w[i + 1]
  OBVIOUS
<1>2. ASSUME NEW i \in 1..Len(Tail(w)), NEW j \in 1..Len(Tail(w)), Tail(w)[i] = Tail(w)[j]
      PROVE  i = j
  <2>1. i + 1 \in 1..Len(w) /\ j + 1 \in 1..Len(w) /\ w[i + 1] = w[j + 1]
    BY <1>1, <1>2
  <2>2. i + 1 = j + 1
    BY <2>1
  <2>3. QED
    BY <1>1, <2>2
<1>3. ToSet(w) = {Head(w)} \cup ToSet(Tail(w))
  BY SetFacts
<1>4. ASSUME Head(w) \in ToSet(Tail(w)) PROVE FALSE
  <2>1. PICK i \in 1..Len(Tail(w)) : Tail(w)[i] = Head(w)
    BY <1>1, <1>4 DEF ToSet
  <2>2. i + 1 \in 1..Len(w) /\ w[i + 1] = w[1] /\ i + 1 # 1
    BY <1>1, <2>1
  <2>3. QED
    BY <1>1, <2>2
<1>5. QED
  BY <1>1, <1>2, <1>3, <1>4

(* The type of a record once a write has settled.                          *)
LEMMA SettledType ==
    ASSUME NEW r \in TabState, NEW q \in Seq(Entry), NEW h \in BOOLEAN
    PROVE  [r EXCEPT !.recent = q, !.heard = h] \in TabState
BY DEF TabState

(* A write leaves the queue, rejected or held: q is recent after it.       *)
LEMMA DequeuedOK ==
    ASSUME NEW r, TabOK(r), r.writes # <<>>, r.wop # "done", NEW q \in Seq(Entry), NEW h \in BOOLEAN,
           ToSet(r.recent) \subseteq ToSet(q), ToSet(q) \subseteq Held(r),
           r.wop = "stored" => Head(r.writes) \in ToSet(q) /\ h,
           r.wop # "stored" => h = r.heard,
           NEW x, x = [r EXCEPT !.writes = Tail(r.writes), !.wop = "wait", !.recent = q, !.heard = h],
           failed \subseteq failed', Head(r.writes) \in Held(r) \cup failed',
           UNCHANGED <<vault, server, db, used>>
    PROVE  TabOK(x)' /\ Follows(x, r)
<1> DEFINE w == r.writes
<1>1. r \in TabState /\ w \in Seq(Entry) /\ w # <<>> /\ \A i, j \in 1..Len(w) : w[i] = w[j] => i = j
  BY DEF TabOK, TabState, ShapeOK
<1> HIDE DEF w
<1>2. /\ Tail(w) \in Seq(Entry) /\ Head(w) \in Entry /\ Head(w) = w[1] /\ Len(Tail(w)) = Len(w) - 1
      /\ Len(w) \in Nat /\ 1 \in 1..Len(w) /\ \A i \in 1..(Len(w) - 1) : Tail(w)[i] = w[i + 1]
      /\ \A i, j \in 1..Len(Tail(w)) : Tail(w)[i] = Tail(w)[j] => i = j
      /\ ToSet(w) = {Head(w)} \cup ToSet(Tail(w)) /\ Head(w) \notin ToSet(Tail(w))
  BY <1>1, QueueFacts
<1>3. PICK v : v = Tail(w)
  OBVIOUS
<1>4. x = [r EXCEPT !.writes = v, !.wop = "wait", !.recent = q, !.heard = h]
  BY <1>3 DEF w
<1>5. x.store = r.store /\ x.added = r.added /\ x.hash = r.hash /\ x.client = r.client
      /\ x.writes = v /\ x.wop = "wait" /\ x.recent = q /\ x.run = r.run /\ x.folded = r.folded
      /\ x.view = r.view /\ x.reads = r.reads /\ x.issued = r.issued /\ x.need = r.need
      /\ x.qneed = r.qneed /\ x.heard = h
  BY <1>1, <1>4, ZenonT(60) DEF TabState
<1>7. v \in Seq(Entry) /\ "wait" \in {"wait", "tx", "done", "stored", "held"}
  BY <1>2, <1>3
<1>6. x \in TabState
  <2>1. [r EXCEPT !.writes = v, !.wop = "wait"] \in TabState
    BY <1>1, <1>7 DEF TabState
  <2>2. PICK y : y = [r EXCEPT !.writes = v, !.wop = "wait"]
    OBVIOUS
  <2>3. [y EXCEPT !.recent = q, !.heard = h] \in TabState
    BY <2>1, <2>2, SettledType
  <2>4. x = [y EXCEPT !.recent = q, !.heard = h]
    BY <1>1, <1>4, <2>2 DEF TabState
  <2>5. QED
    BY <2>3, <2>4
<1>8. r.client # "none"
  BY DEF TabOK, ShapeOK
<1>9. ShapeOK(x)
  BY <1>2, <1>3, <1>5, <1>8 DEF TabOK, ShapeOK, Held, w
<1>10. HashOK(x) /\ ReadsOK(x)
  BY <1>5 DEF TabOK, HashOK, ReadsOK, Held
<1>11. HeardOK(x)
  BY <1>5 DEF TabOK, HeardOK
<1>12. NeedOK(x)'
  <2>1. /\ r.issued \subseteq Held(r) \cup failed \cup ToSet(w)
        /\ r.run.pc = "await" => r.need \cap ToSet(w) \subseteq r.run.wait
        /\ r.run.pc \notin {"idle", "await"} => r.need \subseteq Held(r) \cup failed
        /\ r.run.pc \in {"probe", "again"} =>
              r.need \subseteq r.run.body \cup failed /\ ToSet(r.run.mine) \subseteq r.run.body
    BY DEF TabOK, NeedOK, w
  <2>2. Head(w) \in Held(r) \cup failed' /\ failed \subseteq failed'
    BY DEF w
  <2>3. QED
    BY <1>2, <1>3, <1>5, <2>1, <2>2 DEF NeedOK, Held
<1>13. FastOK(x)'
  <2>1. SUFFICES ASSUME vault # "ended" PROVE
           /\ r.issued \cap Held(r) \subseteq
                 server \cup ToSet(v) \cup ToSet(q) \cup ToSet(r.run.mine)
           /\ r.run.pc \in {"tx", "done"} => r.run.body \subseteq server
           /\ \A i \in 1..Len(v) : v[i] \in Held(r) => v[i] \in server
    BY <1>5 DEF FastOK, Held
  <2>2. /\ r.issued \cap Held(r) \subseteq
              server \cup ToSet(w) \cup ToSet(r.recent) \cup ToSet(r.run.mine)
        /\ r.run.pc \in {"tx", "done"} => r.run.body \subseteq server
        /\ \A i \in 1..Len(w) : w[i] \in Held(r) => w[i] \in server \/ (i = 1 /\ r.wop = "stored")
    BY <2>1 DEF TabOK, FastOK, w
  <2>3. Head(w) \in Held(r) => Head(w) \in server \cup ToSet(q)
    BY <1>2, <2>2 DEF w
  <2>4. r.issued \cap Held(r) \subseteq server \cup ToSet(v) \cup ToSet(q) \cup ToSet(r.run.mine)
    BY <1>2, <1>3, <2>2, <2>3
  <2>5. ASSUME NEW i \in 1..Len(v), v[i] \in Held(r) PROVE v[i] \in server
    <3>1. i + 1 \in 1..Len(w) /\ v[i] = w[i + 1] /\ i + 1 # 1
      BY <1>2, <1>3
    <3>2. QED
      BY <2>2, <2>5, <3>1
  <2>6. QED
    BY <2>2, <2>4, <2>5
<1>14. DiskOK(x)' /\ UsedOK(x)'
  BY <1>5 DEF TabOK, DiskOK, UsedOK, Held
<1>15. Follows(x, r)
  BY <1>5 DEF Follows, Held, Owed
<1>16. QED
  BY <1>6, <1>9, <1>10, <1>11, <1>12, <1>13, <1>14, <1>15 DEF TabOK, ShapeOK, HashOK, ReadsOK, HeardOK, Held

(* A write is rejected.                                                    *)
LEMMA RejectedKeeps ==
    ASSUME IndInv, NEW t \in Tab, tab[t].writes # <<>>, tab[t].wop \in {"wait", "tx"}, Rejected(t)
    PROVE  IndInv'
<1>1. PICK r : r = tab[t]
  OBVIOUS
<1>2. TabOK(r) /\ r \in TabState /\ r.recent \in Seq(Entry) /\ r.heard \in BOOLEAN
  BY <1>1 DEF IndInv, TabOK, TabState
<1>3. PICK x : x = [r EXCEPT !.writes = Tail(r.writes), !.wop = "wait", !.recent = r.recent,
                            !.heard = r.heard]
  OBVIOUS
<1>4. x = [r EXCEPT !.writes = Tail(@), !.wop = "wait"]
  BY <1>2, <1>3 DEF TabState
<1>5. Sets(t, x)
  BY <1>1, <1>4 DEF Rejected, Dequeued
<1>6. failed' = failed \cup {Head(r.writes)}
      /\ UNCHANGED <<vault, server, db, chan, used, missed, orphans>>
  BY <1>1 DEF Rejected, remote, disk
<1>7. Quiet
  BY <1>6 DEF IndInv, WorldOK, Quiet, Grows
<1>8. ToSet(r.recent) \subseteq Held(r)
  BY <1>2 DEF TabOK, ShapeOK
<1>9. TabOK(x)' /\ Follows(x, r)
  BY <1>1, <1>2, <1>3, <1>6, <1>8, DequeuedOK
<1>10. QED
  BY <1>1, <1>5, <1>7, <1>9, QuietKeeps DEF Follows

(* record resumes.                                                         *)
LEMMA WriteSettlesKeeps ==
    ASSUME IndInv, NEW t \in Tab, WriteSettles(t)
    PROVE  IndInv'
<1>1. PICK r : r = tab[t]
  OBVIOUS
<1>2. TabOK(r) /\ r \in TabState /\ r.recent \in Seq(Entry) /\ r.heard \in BOOLEAN
      /\ r.wop \in {"stored", "held"} /\ r.writes \in Seq(Entry)
  BY <1>1 DEF IndInv, TabOK, TabState, WriteSettles
<1>3. r.writes # <<>> /\ Head(r.writes) \in Held(r) /\ ToSet(r.recent) \subseteq Held(r)
  BY <1>2 DEF TabOK, ShapeOK
<1>4. PICK q : q = IF r.wop = "held" THEN r.recent ELSE Append(r.recent, Head(r.writes))
  OBVIOUS
<1>5. PICK h : h = IF r.wop = "held" THEN r.heard ELSE TRUE
  OBVIOUS
<1>6. PICK x : x = [r EXCEPT !.writes = Tail(r.writes), !.wop = "wait", !.recent = q, !.heard = h]
  OBVIOUS
<1>7. Head(r.writes) \in Entry
  BY <1>2, <1>3, SetFacts
<1>8. q \in Seq(Entry) /\ ToSet(r.recent) \subseteq ToSet(q) /\ ToSet(q) \subseteq Held(r)
      /\ (r.wop = "stored" => Head(r.writes) \in ToSet(q)) /\ h \in BOOLEAN
  <2>1. CASE r.wop = "held"
    BY <1>2, <1>3, <1>4, <1>5, <2>1
  <2>2. CASE r.wop = "stored"
    <3>1. q = Append(r.recent, Head(r.writes)) /\ h = TRUE
      BY <1>4, <1>5, <2>2
    <3>2. q \in Seq(Entry) /\ ToSet(q) = ToSet(r.recent) \cup {Head(r.writes)}
      BY <1>2, <1>7, <3>1, SetFacts
    <3>3. QED
      BY <1>3, <3>1, <3>2
  <2>3. QED
    BY <1>2, <2>1, <2>2
<1>9. x = IF r.wop = "held" THEN [r EXCEPT !.writes = Tail(@), !.wop = "wait"]
          ELSE [[r EXCEPT !.writes = Tail(@), !.wop = "wait"] EXCEPT
                   !.recent = Append(@, Head(r.writes)), !.heard = TRUE]
  BY <1>2, <1>4, <1>5, <1>6 DEF TabState
<1>10. Sets(t, x) /\ UNCHANGED <<remote, disk, history>>
  BY <1>1, <1>9 DEF WriteSettles, Dequeued
<1>11. UNCHANGED <<vault, server, db, used, failed>>
  BY <1>10 DEF remote, disk, history
<1>12. TabOK(x)' /\ Follows(x, r)
  BY <1>2, <1>3, <1>5, <1>6, <1>8, <1>11, DequeuedOK
<1>13. QED
  BY <1>1, <1>10, <1>12, StillQuiet, QuietKeeps DEF Follows

(* The head of the queue begins.                                           *)
LEMMA WriteBeginsKeeps ==
    ASSUME IndInv, NEW t \in Tab, WriteBegins(t)
    PROVE  IndInv'
<1>1. PICK r : r = tab[t]
  OBVIOUS
<1>2. TabOK(r) /\ r \in TabState /\ r.writes # <<>> /\ r.wop = "wait"
  BY <1>1 DEF IndInv, TabOK, WriteBegins
<1>3. CASE r.store # "open"
  BY <1>1, <1>2, <1>3, RejectedKeeps DEF WriteBegins
<1>4. CASE r.store = "open"
  <2>1. PICK p : p = IF Head(r.writes) \in Held(r) THEN "held" ELSE "tx"
    OBVIOUS
  <2>2. PICK x : x = [r EXCEPT !.wop = p]
    OBVIOUS
  <2>9. p \in {"wait", "tx", "done", "stored", "held"}
    BY <2>1
  <2>3. Sets(t, x) /\ UNCHANGED <<remote, disk, history>>
    BY <1>1, <1>4, <2>1, <2>2 DEF WriteBegins, Mem, Held
  <2>4. /\ x \in TabState
        /\ x.store = r.store /\ x.added = r.added /\ x.hash = r.hash /\ x.client = r.client
        /\ x.writes = r.writes /\ x.wop = p /\ x.recent = r.recent /\ x.run = r.run
        /\ x.folded = r.folded /\ x.view = r.view /\ x.reads = r.reads /\ x.issued = r.issued
        /\ x.need = r.need /\ x.qneed = r.qneed /\ x.heard = r.heard
    BY <1>2, <2>2, <2>9, ZenonT(60) DEF TabState
  <2>5. ShapeOK(x) /\ HashOK(x) /\ ReadsOK(x) /\ HeardOK(x)
    BY <1>2, <2>1, <2>4 DEF TabOK, ShapeOK, HashOK, ReadsOK, HeardOK, Held
  <2>6. NeedOK(x) /\ FastOK(x) /\ DiskOK(x) /\ UsedOK(x)
    BY <1>2, <2>1, <2>4 DEF TabOK, NeedOK, FastOK, DiskOK, UsedOK, Held
  <2>7. TabOK(x) /\ Follows(x, r)
    BY <1>2, <2>1, <2>4, <2>5, <2>6 DEF TabOK, Follows, Owed, Held
  <2>8. QED
    BY <1>1, <2>3, <2>7, StillKeeps
<1>5. QED
  BY <1>3, <1>4

(* A transaction of the queue aborts.                                      *)
LEMMA WriteFailsKeeps ==
    ASSUME IndInv, NEW t \in Tab, WriteFails(t)
    PROVE  IndInv'
<1>1. tab[t].wop = "tx" /\ tab[t].writes # <<>>
  BY DEF IndInv, TabOK, ShapeOK, WriteFails
<1>2. QED
  BY <1>1, RejectedKeeps DEF WriteFails

(* putFmt and delete queue a new entry.                                    *)
LEMMA PutKeeps ==
    ASSUME IndInv, NEW t \in Tab, NEW e \in Entry, Put(t, e)
    PROVE  IndInv'
<1>1. PICK r : r = tab[t]
  OBVIOUS
<1>2. TabOK(r) /\ r \in TabState /\ r.client = "open" /\ r.writes \in Seq(Entry)
      /\ Len(r.writes) \in Nat
      /\ r.issued \in SUBSET Entry
  BY <1>1 DEF IndInv, TabOK, TabState, Put
<1>3. e \notin used /\ used' = used \cup {e}
      /\ UNCHANGED <<vault, server, db, chan, failed, missed, orphans>>
  BY DEF Put, remote, disk
<1>4. PICK w : w = Append(r.writes, e)
  OBVIOUS
<1>5. PICK x : x = [r EXCEPT !.writes = w, !.issued = r.issued \cup {e}]
  OBVIOUS
<1>6. Sets(t, x)
  <2>1. x = [r EXCEPT !.writes = Append(@, e), !.issued = @ \cup {e}]
    BY <1>2, <1>4, <1>5 DEF TabState
  <2>2. QED
    BY <1>1, <2>1 DEF Put
<1>7. /\ w \in Seq(Entry) /\ w # <<>> /\ ToSet(w) = ToSet(r.writes) \cup {e}
      /\ Len(w) = Len(r.writes) + 1
      /\ \A i \in 1..Len(r.writes) : w[i] = r.writes[i]
      /\ w[Len(w)] = e /\ (r.writes # <<>> => Head(w) = Head(r.writes))
  BY <1>2, <1>4, SetFacts
<1>8. /\ x \in TabState
      /\ x.store = r.store /\ x.added = r.added /\ x.hash = r.hash /\ x.client = r.client
      /\ x.writes = w /\ x.wop = r.wop /\ x.recent = r.recent /\ x.run = r.run
      /\ x.folded = r.folded /\ x.view = r.view /\ x.reads = r.reads /\ x.issued = r.issued \cup {e}
      /\ x.need = r.need /\ x.qneed = r.qneed /\ x.heard = r.heard
  BY <1>2, <1>5, <1>7, ZenonT(60) DEF TabState
<1>10. e \notin r.issued /\ e \notin Held(r) /\ e \notin ToSet(r.writes)
  BY <1>2, <1>3 DEF TabOK, UsedOK, ShapeOK
<1>11. \A i, j \in 1..Len(w) : w[i] = w[j] => i = j
  <2>1. \A i \in 1..Len(r.writes) : r.writes[i] # e
    BY <1>2, <1>10 DEF ToSet
  <2>2. \A i, j \in 1..Len(r.writes) : r.writes[i] = r.writes[j] => i = j
    BY <1>2 DEF TabOK, ShapeOK
  <2>3. \A i \in 1..Len(w) : i \in 1..Len(r.writes) \/ i = Len(w)
    BY <1>2, <1>7
  <2>4. QED
    BY <1>7, <2>1, <2>2, <2>3
<1>12. ShapeOK(x)
  BY <1>2, <1>7, <1>8, <1>10, <1>11 DEF TabOK, ShapeOK, Held
<1>13. HashOK(x) /\ ReadsOK(x) /\ HeardOK(x)
  BY <1>2, <1>8 DEF TabOK, HashOK, ReadsOK, HeardOK, Held
<1>14. NeedOK(x)
  BY <1>2, <1>7, <1>8, <1>10 DEF TabOK, NeedOK, ShapeOK, Held
<1>15. FastOK(x)
  <2>1. \A i \in 1..Len(w) : i \in 1..Len(r.writes) \/ i = Len(w)
    BY <1>2, <1>7
  <2>2. QED
    BY <1>2, <1>7, <1>8, <1>10, <2>1 DEF TabOK, FastOK, Held
<1>16. DiskOK(x)
  BY <1>2, <1>7, <1>8 DEF TabOK, DiskOK, ShapeOK, Held
<1>17. (UsedOK(x))'
  BY <1>2, <1>3, <1>8 DEF TabOK, UsedOK, Held
<1>18. TabOK(x)'
  <2>1. ShapeOK(x)' /\ HashOK(x)' /\ ReadsOK(x)' /\ HeardOK(x)'
    BY <1>12, <1>13 DEF ShapeOK, HashOK, ReadsOK, HeardOK, Held
  <2>2. NeedOK(x)' /\ FastOK(x)' /\ DiskOK(x)'
    BY <1>3, <1>14, <1>15, <1>16 DEF NeedOK, FastOK, DiskOK, Held
  <2>3. QED
    BY <1>8, <1>17, <2>1, <2>2 DEF TabOK
<1>19. Held(x) = Held(r) /\ Owed(x) = Owed(r)
  BY <1>2, <1>7, <1>8 DEF Held, Owed, TabOK, ShapeOK
<1>20. Quiet
  BY <1>3 DEF IndInv, WorldOK, Quiet, Grows
<1>21. x.issued \subseteq r.issued \cup (used' \ used)
  BY <1>3, <1>8
<1>22. QED
  BY <1>1, <1>6, <1>8, <1>18, <1>19, <1>20, <1>21, QuietKeeps

-----------------------------------------------------------------------------
(* What a store gains.                                                     *)

(* MemStore.add of a batch.                                                *)
LEMMA AddMemFacts ==
    ASSUME NEW r \in TabState, HashOK(r), NEW S \in SUBSET Entry
    PROVE  \E a \in Seq(Entry), h \in SUBSET (0..MaxEntry) :
              /\ AddMem(r, S) = [r EXCEPT !.added = a, !.hash = h]
              /\ ToSet(a) = Held(r) \cup S /\ h \in {NoHash, Held(r) \cup S}
              /\ Len(r.added) <= Len(a)
              /\ \A n \in 0..Len(r.added) : SubSeq(a, 1, n) = SubSeq(r.added, 1, n)
<1> DEFINE o == InOrder(S \ Held(r))
           a == r.added \o o
           h == IF S \subseteq Held(r) THEN r.hash ELSE NoHash
<1>1. r.added \in Seq(Entry) /\ r.hash \in SUBSET (0..MaxEntry)
  BY DEF TabState
<1>2. o \in Seq(Entry) /\ ToSet(o) = S \ Held(r)
  BY InOrderFacts
<1> HIDE DEF o
<1>3. a \in Seq(Entry) /\ ToSet(a) = Held(r) \cup S
  BY <1>1, <1>2, SetFacts DEF Held
<1>4. h \in SUBSET (0..MaxEntry) /\ h \in {NoHash, Held(r) \cup S}
  <2>1. NoHash \in SUBSET (0..MaxEntry)
    BY JsConstants DEF NoHash
  <2>2. CASE S \subseteq Held(r)
    <3>1. Held(r) \cup S = Held(r)
      BY <2>2
    <3>2. QED
      BY <1>1, <2>2, <3>1 DEF HashOK
  <2>3. CASE ~(S \subseteq Held(r))
    BY <2>1, <2>3
  <2>4. QED
    BY <2>2, <2>3
<1>5. Len(r.added) <= Len(a) /\ \A n \in 0..Len(r.added) : SubSeq(a, 1, n) = SubSeq(r.added, 1, n)
  <2>1. Len(r.added) <= Len(a)
    BY <1>1, <1>2
  <2>2. ASSUME NEW n \in 0..Len(r.added) PROVE SubSeq(a, 1, n) = SubSeq(r.added, 1, n)
    BY <1>1, <1>2
  <2>3. QED
    BY <2>1, <2>2
<1>6. AddMem(r, S) = [r EXCEPT !.added = a, !.hash = h]
  BY DEF AddMem, o, Held
<1> HIDE DEF a, h
<1>7. QED
  BY <1>3, <1>4, <1>5, <1>6

(* A tab's record x once the store of r gained S: by its scan, from a      *)
(* message, or from a transaction of its own, of the queue or of the sync. *)
Gains(x, r, S) ==
    /\ x.client = r.client /\ x.writes = r.writes /\ x.recent = r.recent
    /\ x.folded = r.folded /\ x.view = r.view /\ x.reads = r.reads /\ x.issued = r.issued
    /\ x.need = r.need /\ x.qneed = r.qneed
    /\ Held(x) = Held(r) \cup S /\ x.hash \in {NoHash, Held(r) \cup S}
    /\ Len(r.added) <= Len(x.added)
    /\ \A n \in 0..Len(r.added) : SubSeq(x.added, 1, n) = SubSeq(r.added, 1, n)
    /\ x.store = r.store \/ (r.store = "scan" /\ x.store = "loaded")
    /\ x.wop = r.wop \/ (r.wop = "done" /\ x.wop \in {"stored", "held"})
    /\ \/ x.run = r.run
       \/ r.run.pc = "done" /\ x.run.pc = "pull" /\ x.run.mine = r.run.mine /\ x.run.body = r.run.body

(* It is right when S is committed, the queue knows what it stored, and    *)
(* writes of this tab that came back are on the server.                    *)
LEMMA GainOK ==
    ASSUME NEW r, TabOK(r), r.store # "none", NEW S, NEW x \in TabState, Gains(x, r, S),
           S \subseteq used, r.store \in {"scan", "loaded", "open"} => S \subseteq db,
           x.wop \in {"stored", "held"} => Head(r.writes) \in Held(r) \cup S, HeardOK(x),
           vault # "ended" =>
              /\ S \cap r.issued \subseteq server \cup ToSet(r.writes)
              /\ \A i \in 1..Len(r.writes) : r.writes[i] \in Held(r) \cup S =>
                    r.writes[i] \in server \/ (i = 1 /\ x.wop = "stored")
    PROVE  TabOK(x)
<1>1. r \in TabState
  BY DEF TabOK
<1> DEFINE c == x.store
           a == x.added
           w == x.wop
           u == x.run
<1>3. /\ x.client = r.client /\ x.writes = r.writes /\ x.recent = r.recent
      /\ x.folded = r.folded /\ x.view = r.view /\ x.reads = r.reads /\ x.issued = r.issued
      /\ x.need = r.need /\ x.qneed = r.qneed /\ x.hash \in {NoHash, Held(r) \cup S}
  BY DEF Gains
<1>4. /\ c = r.store \/ (r.store = "scan" /\ c = "loaded")
      /\ w = r.wop \/ (r.wop = "done" /\ w \in {"stored", "held"})
      /\ u = r.run \/ (r.run.pc = "done" /\ u.pc = "pull" /\ u.mine = r.run.mine /\ u.body = r.run.body)
  BY DEF Gains
<1>5. Held(x) = Held(r) \cup S
  BY DEF Gains
<1>6. ShapeOK(x)
  <2>1. /\ c \in {"none", "scan", "loaded"} => r.store \in {"none", "scan", "loaded"}
        /\ c = "closed" => r.store = "closed"
        /\ c # "none"
    BY <1>4
  <2>2. /\ r.client = "none" => u = Idle
        /\ u.pc = "idle" => u = Idle
        /\ u.pc = "await" => u.mine = <<>>
        /\ u.mine = r.run.mine
    BY <1>4, IdleMade DEF TabOK, ShapeOK
  <2>3. w = "wait" \/ r.writes # <<>>
    BY <1>4 DEF TabOK, ShapeOK
  <2>4. ShapeOK(r)
    BY DEF TabOK
  <2>5. QED
    BY <1>3, <1>5, <2>1, <2>2, <2>3, <2>4 DEF ShapeOK
<1>7. HashOK(x)
  BY <1>3, <1>5 DEF HashOK
<1>8. ReadsOK(x)
  <2>1. r.folded \in 0..Len(r.added) /\ Len(r.added) \in Nat /\ Len(a) \in Nat
    BY <1>1 DEF TabOK, ReadsOK, TabState
  <2>9. Len(r.added) <= Len(a) /\ \A n \in 0..Len(r.added) : SubSeq(a, 1, n) = SubSeq(r.added, 1, n)
    BY DEF Gains
  <2>2. SubSeq(a, 1, r.folded) = SubSeq(r.added, 1, r.folded)
    BY <2>1, <2>9
  <2>3. \A q \in Reader : r.reads[q] # <<>> => r.reads[q][2] \in Nat
    BY <1>1 DEF TabState
  <2>4. \A q \in Reader : r.reads[q] # <<>> => r.reads[q][2] <= Len(a)
    BY <2>1, <2>3, <2>9 DEF TabOK, ReadsOK
  <2>5. r.folded <= Len(a)
    BY <2>1, <2>9
  <2>6. SubSeq(x.added, 1, x.folded) = SubSeq(r.added, 1, r.folded)
    BY <1>3, <2>2
  <2>7. \A k \in Key : x.view[k] =
           Max({0} \cup {e \in ToSet(SubSeq(x.added, 1, x.folded)) : KeyOf[e] = k})
    BY <1>3, <2>6 DEF TabOK, ReadsOK
  <2>8. QED
    BY <1>3, <2>4, <2>5, <2>7 DEF ReadsOK
<1>9. NeedOK(x)
  <2>1. NeedOK(r)
    BY DEF TabOK
  <2>2. QED
    BY <1>3, <1>4, <1>5, <2>1 DEF NeedOK
<1>10. FastOK(x)
  <2>1. FastOK(r)
    BY DEF TabOK
  <2>2. QED
    BY <1>3, <1>4, <1>5, <2>1 DEF FastOK
<1>11. DiskOK(x)
  <2>1. DiskOK(r)
    BY DEF TabOK
  <2>2. QED
    BY <1>3, <1>4, <1>5, <2>1 DEF DiskOK
<1>12. UsedOK(x)
  BY <1>3, <1>4, <1>5 DEF TabOK, UsedOK
<1>13. QED
  BY <1>6, <1>7, <1>8, <1>9, <1>10, <1>11, <1>12 DEF TabOK

(* A step of one tab: the others' records stay right.                      *)
LEMMA OneTab ==
    ASSUME IndInv, NEW t \in Tab, NEW x, Sets(t, x), Grows, TabOK(x)', x.issued \subseteq tab[t].issued
    PROVE  /\ DOMAIN tab' = Tab /\ tab'[t] = x /\ \A u \in Tab : u # t => tab'[u] = tab[u]
           /\ \A u \in Tab : TabOK(tab[u])'
           /\ \A u, v \in Tab : u # v => tab'[u].issued \cap tab'[v].issued = {}
           /\ \A u \in Tab : tab'[u].issued \subseteq tab[u].issued
<1>1. DOMAIN tab' = Tab /\ tab'[t] = x /\ \A u \in Tab : u # t => tab'[u] = tab[u]
  BY DEF Sets, IndInv
<1>2. ASSUME NEW u \in Tab PROVE TabOK(tab[u])'
  <2>1. CASE u = t
    BY <1>1, <2>1
  <2>2. CASE u # t
    <3>1. PICK r : r = tab[u]
      OBVIOUS
    <3>2. TabOK(r)'
      BY <3>1, GrowKeeps DEF IndInv
    <3>3. tab'[u] = r
      BY <1>1, <2>2, <3>1
    <3>4. QED
      BY <3>2, <3>3
  <2>3. QED
    BY <2>1, <2>2
<1>3. \A u \in Tab : tab'[u].issued \subseteq tab[u].issued
  BY <1>1
<1>4. \A u, v \in Tab : u # v => tab'[u].issued \cap tab'[v].issued = {}
  <2>1. \A u, v \in Tab : u # v => tab[u].issued \cap tab[v].issued = {}
    BY DEF IndInv
  <2>2. QED
    BY <1>3, <2>1
<1>5. QED
  BY <1>1, <1>2, <1>3, <1>4

-----------------------------------------------------------------------------
(* Steps that commit rows, announce them or hear of them.                  *)

(* A tab with no page.                                                     *)
LEMMA BlankOK ==
    ASSUME NEW c \in SUBSET AllCalls, used \in SUBSET Entry
    PROVE  /\ TabOK(Blank(c)) /\ Held(Blank(c)) = {} /\ Blank(c).store = "none"
           /\ Owed(Blank(c)) = {} /\ Blank(c).issued = {}
<1> DEFINE x == Blank(c)
           v == [k \in Key |-> 0]
           p == [q \in Reader |-> <<>>]
<1>1. v \in [Key -> 0..MaxEntry] /\ p \in [Reader -> {<<>>} \cup (Nat \X Nat)]
  BY JsConstants
<1>2. Idle \in RunState /\ <<>> \in Seq(Entry) /\ ToSet(<<>>) = {}
      /\ NoHash \in SUBSET (0..MaxEntry)
  <2>1. <<>> \in Seq(Entry) /\ Idle \in RunState
    BY IdleMade
  <2>2. ToSet(<<>>) = {}
    BY <2>1, SetFacts
  <2>3. NoHash \in SUBSET (0..MaxEntry)
    BY JsConstants DEF NoHash
  <2>4. QED
    BY <2>1, <2>2, <2>3
<1>3. /\ x.store = "none" /\ x.added = <<>> /\ x.hash = NoHash /\ x.client = "none"
      /\ x.writes = <<>> /\ x.wop = "wait" /\ x.recent = <<>> /\ x.run = Idle
      /\ x.folded = 0 /\ x.view = v /\ x.reads = p /\ x.issued = {}
      /\ x.need = {} /\ x.qneed = {} /\ x.heard = TRUE
  BY DEF Blank
<1>4. x \in TabState
  <2> HIDE DEF v, p
  <2>1. x = [calls |-> c, store |-> "none", added |-> <<>>, hash |-> NoHash, client |-> "none",
             reg |-> FALSE, ever |-> FALSE, ended |-> FALSE, writes |-> <<>>, wop |-> "wait",
             recent |-> <<>>, run |-> Idle, queued |-> "none", drop |-> "none", dropOn |-> {},
             folded |-> 0, view |-> v, reads |-> p, heard |-> TRUE, issued |-> {}, need |-> {},
             qneed |-> {}]
    BY DEF Blank, v, p
  <2> HIDE DEF x
  <2>2. QED
    BY <1>1, <1>2, <2>1 DEF TabState
<1> HIDE DEF x
<1>5. Held(x) = {}
  BY <1>2, <1>3 DEF Held
<1>6. ShapeOK(x) /\ HashOK(x) /\ HeardOK(x)
  BY <1>2, <1>3, <1>5, IdleMade DEF ShapeOK, HashOK, HeardOK
<1>7. ReadsOK(x)
  <2>1. SubSeq(x.added, 1, x.folded) = <<>> /\ Len(x.added) = 0
    BY <1>3
  <2>2. ASSUME NEW k \in Key
        PROVE  x.view[k] = Max({0} \cup {e \in ToSet(SubSeq(x.added, 1, x.folded)) : KeyOf[e] = k})
    <3>1. {0} \cup {e \in ToSet(SubSeq(x.added, 1, x.folded)) : KeyOf[e] = k} = {0}
      BY <1>2, <2>1
    <3>2. {0} \in SUBSET (0..MaxEntry) /\ {0} # {}
      BY JsConstants
    <3>3. Max({0}) = 0
      BY <3>2, MaxFacts
    <3>4. x.view[k] = 0
      BY <1>3
    <3>5. QED
      BY <3>1, <3>3, <3>4
  <2>3. QED
    BY <1>3, <2>1, <2>2 DEF ReadsOK
<1>8. NeedOK(x) /\ FastOK(x) /\ DiskOK(x) /\ UsedOK(x)
  BY <1>2, <1>3, <1>5, IdleMade DEF NeedOK, FastOK, DiskOK, UsedOK
<1>9. Owed(x) = {}
  BY <1>3 DEF Owed
<1>10. QED
  BY <1>3, <1>4, <1>5, <1>6, <1>7, <1>8, <1>9 DEF TabOK, x

(* The page opens its store.                                               *)
LEMMA OpenKeeps ==
    ASSUME IndInv, NEW t \in Tab, Open(t)
    PROVE  IndInv'
<1>1. PICK r : r = tab[t]
  OBVIOUS
<1>2. TabOK(r) /\ r \in TabState /\ r.store = "none" /\ UNCHANGED <<remote, disk, history>>
  BY <1>1 DEF IndInv, TabOK, Open
<1>3. PICK x : x = [r EXCEPT !.store = "scan"]
  OBVIOUS
<1>4. Sets(t, x)
  BY <1>1, <1>3 DEF Open
<1>5. /\ x \in TabState
      /\ x.store = "scan" /\ x.added = r.added /\ x.hash = r.hash /\ x.client = r.client
      /\ x.writes = r.writes /\ x.wop = r.wop /\ x.recent = r.recent /\ x.run = r.run
      /\ x.folded = r.folded /\ x.view = r.view /\ x.reads = r.reads /\ x.issued = r.issued
      /\ x.need = r.need /\ x.qneed = r.qneed /\ x.heard = r.heard
  BY <1>2, <1>3, ZenonT(60) DEF TabState
<1>6. Held(r) = {} /\ Held(x) = {} /\ r.issued = {}
  <2>1. r.added = <<>> /\ <<>> \in Seq(Entry)
    BY <1>2 DEF TabOK, ShapeOK
  <2>2. QED
    BY <1>2, <1>5, <2>1, SetFacts DEF Held, TabOK, ShapeOK
<1>7. ShapeOK(x) /\ HashOK(x) /\ ReadsOK(x) /\ HeardOK(x)
  BY <1>2, <1>5, <1>6 DEF TabOK, ShapeOK, HashOK, ReadsOK, HeardOK
<1>8. NeedOK(x) /\ FastOK(x) /\ DiskOK(x) /\ UsedOK(x)
  BY <1>2, <1>5, <1>6 DEF TabOK, NeedOK, FastOK, DiskOK, UsedOK
<1>9. TabOK(x)
  BY <1>5, <1>7, <1>8 DEF TabOK
<1>10. Quiet
  BY <1>2, StillQuiet
<1>11. Grows /\ WorldOK' /\ UNCHANGED <<vault, server, db, chan, orphans>>
  BY <1>2, <1>10 DEF Quiet, remote
<1>12. TabOK(x)'
  BY <1>9, <1>11, GrowKeeps
<1>13. /\ DOMAIN tab' = Tab /\ tab'[t] = x /\ \A u \in Tab : u # t => tab'[u] = tab[u]
       /\ \A u \in Tab : TabOK(tab[u])'
       /\ \A u, v \in Tab : u # v => tab'[u].issued \cap tab'[v].issued = {}
       /\ \A u \in Tab : tab'[u].issued \subseteq tab[u].issued
  BY <1>1, <1>4, <1>5, <1>11, <1>12, OneTab
<1>14. ASSUME NEW u \in Tab PROVE ChanOK(u)'
  <2>1. ChanOK(u)
    BY DEF IndInv
  <2>2. Listens(u) => Listens(u)'
    BY <1>1, <1>2, <1>5, <1>13 DEF Listens
  <2>3. QED
    BY <1>11, <1>13, <2>1, <2>2 DEF ChanOK
<1>15. ASSUME NEW u \in Tab PROVE AgreeOK(u)'
  <2>1. \A v \in Tab : Owed(tab[v])' = Owed(tab[v])
    BY <1>1, <1>2, <1>5, <1>13 DEF Owed
  <2>2. AgreeOK(u)
    BY DEF IndInv
  <2>3. CASE u = t
    BY <1>5, <1>13, <2>3 DEF AgreeOK
  <2>4. CASE u # t
    <3>1. AllOwed' = AllOwed
      BY <2>1 DEF AllOwed
    <3>2. QED
      BY <1>11, <1>13, <2>2, <2>4, <3>1 DEF AgreeOK, Coming, Mem
  <2>5. QED
    BY <2>3, <2>4
<1>16. QED
  BY <1>11, <1>13, <1>14, <1>15 DEF IndInv

(* The scan reads every row.                                               *)
LEMMA ScanKeeps ==
    ASSUME IndInv, NEW t \in Tab, Scan(t)
    PROVE  IndInv'
<1>1. PICK r : r = tab[t]
  OBVIOUS
<1>2. TabOK(r) /\ r \in TabState /\ r.store = "scan" /\ UNCHANGED <<remote, disk, history>>
      /\ HashOK(r) /\ db \in SUBSET Entry /\ used \in SUBSET Entry /\ db \in SUBSET used
  BY <1>1 DEF IndInv, TabOK, Scan, WorldOK
<1>3. PICK a \in Seq(Entry), h \in SUBSET (0..MaxEntry) :
         /\ AddMem(r, db) = [r EXCEPT !.added = a, !.hash = h]
         /\ ToSet(a) = Held(r) \cup db /\ h \in {NoHash, Held(r) \cup db}
         /\ Len(r.added) <= Len(a)
         /\ \A n \in 0..Len(r.added) : SubSeq(a, 1, n) = SubSeq(r.added, 1, n)
  BY <1>2, AddMemFacts
<1>4. PICK x : x = [r EXCEPT !.added = a, !.hash = h, !.store = "loaded"]
  OBVIOUS
<1>5. Sets(t, x)
  BY <1>1, <1>3, <1>4 DEF Scan
<1>6. /\ x \in TabState
      /\ x.store = "loaded" /\ x.added = a /\ x.hash = h /\ x.client = r.client
      /\ x.writes = r.writes /\ x.wop = r.wop /\ x.recent = r.recent /\ x.run = r.run
      /\ x.folded = r.folded /\ x.view = r.view /\ x.reads = r.reads /\ x.issued = r.issued
      /\ x.need = r.need /\ x.qneed = r.qneed /\ x.heard = r.heard
  BY <1>2, <1>4, ZenonT(60) DEF TabState
<1>7. r.client = "none" /\ r.issued = {} /\ r.writes = <<>> /\ r.wop = "wait"
  BY <1>2 DEF TabOK, ShapeOK
<1>8. TabOK(x)
  <2>1. Gains(x, r, db)
    BY <1>2, <1>3, <1>6 DEF Gains, Held
  <2>2. HeardOK(x) /\ x.wop \notin {"stored", "held"}
    BY <1>6, <1>7 DEF HeardOK
  <2>3. vault # "ended" =>
           /\ db \cap r.issued \subseteq server \cup ToSet(r.writes)
           /\ \A i \in 1..Len(r.writes) : r.writes[i] \in Held(r) \cup db =>
                 r.writes[i] \in server \/ (i = 1 /\ x.wop = "stored")
    BY <1>7
  <2>4. QED
    BY <1>2, <1>6, <2>1, <2>2, <2>3, GainOK
<1>9. Grows /\ WorldOK' /\ UNCHANGED <<vault, server, db, chan, orphans>>
  BY <1>2, StillQuiet DEF Quiet, remote
<1>10. TabOK(x)'
  BY <1>8, <1>9, GrowKeeps
<1>11. /\ DOMAIN tab' = Tab /\ tab'[t] = x /\ \A u \in Tab : u # t => tab'[u] = tab[u]
       /\ \A u \in Tab : TabOK(tab[u])'
       /\ \A u, v \in Tab : u # v => tab'[u].issued \cap tab'[v].issued = {}
       /\ \A u \in Tab : tab'[u].issued \subseteq tab[u].issued
  BY <1>1, <1>5, <1>6, <1>9, <1>10, OneTab
<1>12. ASSUME NEW u \in Tab PROVE ChanOK(u)'
  <2>1. ChanOK(u)
    BY DEF IndInv
  <2>2. Listens(u) => Listens(u)'
    BY <1>1, <1>2, <1>6, <1>11 DEF Listens
  <2>3. QED
    BY <1>9, <1>11, <2>1, <2>2 DEF ChanOK
<1>13. ASSUME NEW u \in Tab PROVE AgreeOK(u)'
  <2>1. CASE u = t
    <3>1. db' \subseteq Mem(t)'
      BY <1>3, <1>6, <1>9, <1>11 DEF Mem
    <3>2. QED
      BY <2>1, <3>1 DEF AgreeOK
  <2>2. CASE u # t
    <3>1. \A v \in Tab : Owed(tab[v])' = Owed(tab[v])
      BY <1>1, <1>2, <1>6, <1>11 DEF Owed
    <3>2. AllOwed' = AllOwed
      BY <3>1 DEF AllOwed
    <3>3. AgreeOK(u)
      BY DEF IndInv
    <3>4. QED
      BY <1>9, <1>11, <2>2, <3>2, <3>3 DEF AgreeOK, Coming, Mem
  <2>3. QED
    BY <2>1, <2>2
<1>14. QED
  BY <1>9, <1>11, <1>12, <1>13 DEF IndInv

(* open resolves.                                                          *)
LEMMA MakeClientKeeps ==
    ASSUME IndInv, NEW t \in Tab, MakeClient(t)
    PROVE  IndInv'
<1>1. PICK r : r = tab[t]
  OBVIOUS
<1>2. TabOK(r) /\ r \in TabState /\ r.store = "loaded" /\ UNCHANGED <<remote, disk, history>>
  BY <1>1 DEF IndInv, TabOK, MakeClient
<1>3. PICK x : x = [r EXCEPT !.store = "open", !.client = "open", !.heard = TRUE]
  OBVIOUS
<1>4. Sets(t, x)
  BY <1>1, <1>3 DEF MakeClient
<1>5. /\ x \in TabState
      /\ x.store = "open" /\ x.added = r.added /\ x.hash = r.hash /\ x.client = "open"
      /\ x.writes = r.writes /\ x.wop = r.wop /\ x.recent = r.recent /\ x.run = r.run
      /\ x.folded = r.folded /\ x.view = r.view /\ x.reads = r.reads /\ x.issued = r.issued
      /\ x.need = r.need /\ x.qneed = r.qneed /\ x.heard = TRUE
  BY <1>2, <1>3, ZenonT(60) DEF TabState
<1>6. r.wop = "wait" /\ r.run.pc = "idle" /\ r.client = "none"
  BY <1>2, IdleMade DEF TabOK, ShapeOK
<1>7. ShapeOK(x) /\ HashOK(x) /\ ReadsOK(x) /\ HeardOK(x)
  BY <1>2, <1>5, <1>6 DEF TabOK, ShapeOK, HashOK, ReadsOK, HeardOK, Held
<1>8. NeedOK(x) /\ FastOK(x) /\ DiskOK(x) /\ UsedOK(x)
  BY <1>2, <1>5, <1>6 DEF TabOK, NeedOK, FastOK, DiskOK, UsedOK, Held
<1>9. Grows /\ WorldOK' /\ UNCHANGED <<vault, server, db, chan, orphans>>
  BY <1>2, StillQuiet DEF Quiet, remote
<1>10. TabOK(x)'
  BY <1>5, <1>7, <1>8, <1>9, GrowKeeps DEF TabOK
<1>11. /\ DOMAIN tab' = Tab /\ tab'[t] = x /\ \A u \in Tab : u # t => tab'[u] = tab[u]
       /\ \A u \in Tab : TabOK(tab[u])'
       /\ \A u, v \in Tab : u # v => tab'[u].issued \cap tab'[v].issued = {}
       /\ \A u \in Tab : tab'[u].issued \subseteq tab[u].issued
  BY <1>1, <1>4, <1>5, <1>9, <1>10, OneTab
<1>12. ASSUME NEW u \in Tab PROVE ChanOK(u)'
  <2>1. ChanOK(u)
    BY DEF IndInv
  <2>2. Listens(u) => Listens(u)'
    BY <1>1, <1>2, <1>5, <1>11 DEF Listens
  <2>3. QED
    BY <1>9, <1>11, <2>1, <2>2 DEF ChanOK
<1>13. ASSUME NEW u \in Tab PROVE AgreeOK(u)'
  <2>1. \A v \in Tab : Owed(tab[v])' = Owed(tab[v])
    BY <1>1, <1>2, <1>5, <1>6, <1>11 DEF Owed
  <2>2. AllOwed' = AllOwed
    BY <2>1 DEF AllOwed
  <2>3. AgreeOK(u)
    BY DEF IndInv
  <2>4. Mem(u)' = Mem(u) /\ (tab'[u].store \in {"loaded", "open"} => tab[u].store \in {"loaded", "open"})
    BY <1>1, <1>2, <1>5, <1>11 DEF Mem
  <2>5. QED
    BY <1>9, <2>2, <2>3, <2>4 DEF AgreeOK, Coming
<1>14. QED
  BY <1>9, <1>11, <1>12, <1>13 DEF IndInv

(* A message arrives.                                                      *)
LEMMA DeliverKeeps ==
    ASSUME IndInv, NEW t \in Tab, Deliver(t)
    PROVE  IndInv'
<1>1. PICK r : r = tab[t]
  OBVIOUS
<1>2. PICK m : m = chan[t]
  OBVIOUS
<1>3. m \in Seq(SUBSET Entry) /\ m # <<>> /\ Len(m) \in Nat /\ chan \in [Tab -> Seq(SUBSET Entry)]
  BY <1>2 DEF IndInv, WorldOK, Deliver
<1>4. PICK S : S = Head(m)
  OBVIOUS
<1>5. S \in SUBSET Entry /\ S = m[1] /\ 1 \in 1..Len(m)
      /\ Tail(m) \in Seq(SUBSET Entry) /\ Len(Tail(m)) = Len(m) - 1
      /\ \A i \in 1..Len(Tail(m)) : Tail(m)[i] = m[i + 1] /\ i + 1 \in 1..Len(m)
  BY <1>3, <1>4
<1>6. TabOK(r) /\ r \in TabState /\ HashOK(r) /\ UNCHANGED <<remote, db, history>>
      /\ r.store \in {"scan", "loaded", "open"} /\ db \subseteq used
  BY <1>1 DEF IndInv, TabOK, Deliver, Listens, WorldOK
<1>7. S \subseteq db /\ (vault # "ended" => S \cap r.issued \subseteq server)
  BY <1>1, <1>2, <1>5 DEF IndInv, ChanOK
<1>8. PICK a \in Seq(Entry), h \in SUBSET (0..MaxEntry) :
         /\ AddMem(r, S) = [r EXCEPT !.added = a, !.hash = h]
         /\ ToSet(a) = Held(r) \cup S /\ h \in {NoHash, Held(r) \cup S}
         /\ Len(r.added) <= Len(a)
         /\ \A n \in 0..Len(r.added) : SubSeq(a, 1, n) = SubSeq(r.added, 1, n)
  BY <1>5, <1>6, AddMemFacts, ZenonT(60)
<1>9. PICK d : d = (r.heard \/ ~(S \subseteq Held(r)))
  OBVIOUS
<1>10. d \in BOOLEAN
  BY <1>9
<1>11. PICK x : x = [r EXCEPT !.added = a, !.hash = h, !.heard = d]
  OBVIOUS
<1>12. Sets(t, x)
  <2>1. x = [[r EXCEPT !.added = a, !.hash = h] EXCEPT !.heard = @ \/ ~(S \subseteq Held(r))]
    BY <1>6, <1>9, <1>11 DEF TabState
  <2>2. QED
    BY <1>1, <1>2, <1>4, <1>8, <2>1 DEF Deliver, Mem, Held
<1>13. /\ x \in TabState
      /\ x.store = r.store /\ x.added = a /\ x.hash = h /\ x.client = r.client
      /\ x.writes = r.writes /\ x.wop = r.wop /\ x.recent = r.recent /\ x.run = r.run
      /\ x.folded = r.folded /\ x.view = r.view /\ x.reads = r.reads /\ x.issued = r.issued
      /\ x.need = r.need /\ x.qneed = r.qneed /\ x.heard = d
  BY <1>6, <1>10, <1>11, ZenonT(60) DEF TabState
<1>14. TabOK(x)
  <2>1. Gains(x, r, S)
    BY <1>8, <1>13 DEF Gains, Held
  <2>2. HeardOK(x)
    BY <1>6, <1>9, <1>13 DEF TabOK, HeardOK
  <2>3. x.wop \in {"stored", "held"} => Head(r.writes) \in Held(r) \cup S
    BY <1>6, <1>13 DEF TabOK, ShapeOK
  <2>4. ASSUME vault # "ended"
        PROVE  /\ S \cap r.issued \subseteq server \cup ToSet(r.writes)
               /\ \A i \in 1..Len(r.writes) : r.writes[i] \in Held(r) \cup S =>
                     r.writes[i] \in server \/ (i = 1 /\ x.wop = "stored")
    <3>1. \A i \in 1..Len(r.writes) : r.writes[i] \in r.issued
      BY <1>6 DEF TabOK, ShapeOK, ToSet, TabState
    <3>2. QED
      BY <1>6, <1>7, <1>13, <2>4, <3>1 DEF TabOK, FastOK
  <2>5. r.store # "none" /\ S \subseteq used
    BY <1>6, <1>7
  <2>6. QED
    BY <1>6, <1>7, <1>13, <2>1, <2>2, <2>3, <2>4, <2>5, GainOK
<1>15. chan' = [chan EXCEPT ![t] = Tail(m)]
  BY <1>2 DEF Deliver
<1>16. Grows /\ UNCHANGED <<vault, server, db, used, orphans>>
  BY <1>6 DEF Grows, remote, history
<1>17. WorldOK'
  BY <1>3, <1>5, <1>6, <1>15, <1>16 DEF IndInv, WorldOK, history
<1>18. TabOK(x)'
  BY <1>14, <1>16, GrowKeeps
<1>19. /\ DOMAIN tab' = Tab /\ tab'[t] = x /\ \A u \in Tab : u # t => tab'[u] = tab[u]
       /\ \A u \in Tab : TabOK(tab[u])'
       /\ \A u, v \in Tab : u # v => tab'[u].issued \cap tab'[v].issued = {}
       /\ \A u \in Tab : tab'[u].issued \subseteq tab[u].issued
  BY <1>1, <1>12, <1>13, <1>16, <1>18, OneTab
<1>20. chan'[t] = Tail(m) /\ \A u \in Tab : u # t => chan'[u] = chan[u]
  BY <1>3, <1>15
<1>21. ASSUME NEW u \in Tab PROVE ChanOK(u)'
  <2>1. ChanOK(u)
    BY DEF IndInv
  <2>2. CASE u # t
    BY <1>16, <1>19, <1>20, <2>1, <2>2 DEF ChanOK, Listens
  <2>3. CASE u = t
    <3>1. Listens(t)'
      BY <1>6, <1>13, <1>19 DEF Listens
    <3>2. \A i \in 1..Len(Tail(m)) :
             /\ Tail(m)[i] \subseteq db
             /\ vault # "ended" => Tail(m)[i] \cap r.issued \subseteq server
      BY <1>1, <1>2, <1>5, <2>1, <2>3 DEF ChanOK
    <3>3. QED
      BY <1>13, <1>16, <1>19, <1>20, <2>3, <3>1, <3>2 DEF ChanOK
  <2>4. QED
    BY <2>2, <2>3
<1>22. ASSUME NEW u \in Tab PROVE AgreeOK(u)'
  <2>1. \A v \in Tab : Owed(tab[v])' = Owed(tab[v])
    BY <1>1, <1>13, <1>19 DEF Owed
  <2>2. AllOwed' = AllOwed
    BY <2>1 DEF AllOwed
  <2>3. AgreeOK(u)
    BY DEF IndInv
  <2>4. CASE u # t
    BY <1>16, <1>19, <1>20, <2>2, <2>3, <2>4 DEF AgreeOK, Coming, Mem
  <2>5. CASE u = t
    <3>1. Mem(t) = Held(r) /\ Mem(t)' = Held(r) \cup S
      BY <1>1, <1>8, <1>13, <1>19 DEF Mem, Held
    <3>2. UNION ToSet(m) \subseteq S \cup UNION ToSet(Tail(m))
      <4>1. SUFFICES ASSUME NEW i \in 1..Len(m) PROVE m[i] \subseteq S \cup UNION ToSet(Tail(m))
        BY <1>3 DEF ToSet
      <4>2. CASE i = 1
        BY <1>5, <4>2
      <4>3. CASE i # 1
        <5>1. i - 1 \in 1..Len(Tail(m)) /\ (i - 1) + 1 = i
          BY <1>3, <1>5, <4>3
        <5>2. Tail(m)[i - 1] = m[i]
          BY <1>5, <5>1
        <5>3. m[i] \in ToSet(Tail(m))
          <6>1. PICK k : k = Tail(m)
            OBVIOUS
          <6>2. k \in Seq(SUBSET Entry) /\ i - 1 \in 1..Len(k) /\ k[i - 1] = m[i]
            BY <1>5, <5>1, <5>2, <6>1
          <6>3. m[i] \in ToSet(k)
            BY <6>2 DEF ToSet
          <6>4. QED
            BY <6>1, <6>3
        <5>4. QED
          BY <5>3
      <4>4. QED
        BY <4>2, <4>3
    <3>3. tab'[t].store = tab[t].store
      BY <1>1, <1>13, <1>19
    <3>4. QED
      BY <1>2, <1>16, <1>20, <2>2, <2>3, <2>5, <3>1, <3>2, <3>3 DEF AgreeOK, Coming
  <2>6. QED
    BY <2>4, <2>5
<1>23. QED
  BY <1>17, <1>19, <1>21, <1>22 DEF IndInv

(* A transaction completes.                                                *)
LEMMA CommitKeeps ==
    ASSUME IndInv, NEW t \in Tab, NEW x, Sets(t, x), NEW S, Commits(t, S), S \subseteq used,
           UNCHANGED <<remote, chan, history>>, TabOK(x)', x.store = tab[t].store,
           Held(x) = Held(tab[t]), x.issued = tab[t].issued, Owed(tab[t]) \subseteq Owed(x),
           tab[t].store = "open" => S \subseteq Owed(x)
    PROVE  IndInv'
<1>1. db \subseteq db' /\ db' \subseteq db \cup Owed(x) /\ db' \subseteq used
  BY DEF Commits, IndInv, WorldOK
<1>2. Grows /\ UNCHANGED <<vault, server, chan, used, orphans>>
  BY <1>1 DEF Grows, remote, history
<1>3. WorldOK'
  BY <1>1, <1>2 DEF IndInv, WorldOK, history
<1>4. /\ DOMAIN tab' = Tab /\ tab'[t] = x /\ \A u \in Tab : u # t => tab'[u] = tab[u]
      /\ \A u \in Tab : TabOK(tab[u])'
      /\ \A u, v \in Tab : u # v => tab'[u].issued \cap tab'[v].issued = {}
      /\ \A u \in Tab : tab'[u].issued \subseteq tab[u].issued
  BY <1>2, OneTab
<1>5. ASSUME NEW u \in Tab PROVE ChanOK(u)'
  <2>1. ChanOK(u)
    BY DEF IndInv
  <2>2. Listens(u)' <=> Listens(u)
    BY <1>4 DEF Listens
  <2>3. QED
    BY <1>1, <1>2, <1>4, <2>1, <2>2 DEF ChanOK
<1>6. ASSUME NEW u \in Tab PROVE AgreeOK(u)'
  <2>1. \A v \in Tab : Owed(tab[v]) \subseteq Owed(tab[v])'
    BY <1>4 DEF Owed
  <2>2. AllOwed \subseteq AllOwed' /\ Owed(x) \subseteq AllOwed'
    <3>1. Owed(tab[t])' = Owed(x)
      BY <1>4 DEF Owed
    <3>2. QED
      BY <2>1, <3>1 DEF AllOwed
  <2>3. AgreeOK(u) /\ Coming(u)' = Coming(u)
    BY <1>2 DEF IndInv, Coming
  <2>4. Mem(u)' = Mem(u) /\ tab'[u].store = tab[u].store
    BY <1>4 DEF Mem, Held
  <2>5. QED
    BY <1>1, <1>2, <2>2, <2>3, <2>4 DEF AgreeOK
<1>7. QED
  BY <1>3, <1>4, <1>5, <1>6 DEF IndInv

(* A transaction of the queue.                                             *)
LEMMA WriteCommitsKeeps ==
    ASSUME IndInv, NEW t \in Tab, WriteCommits(t)
    PROVE  IndInv'
<1>1. PICK r : r = tab[t]
  OBVIOUS
<1>2. PICK S : S = {Head(r.writes)}
  OBVIOUS
<1>3. TabOK(r) /\ r \in TabState /\ r.wop = "tx" /\ UNCHANGED <<remote, chan, history>> /\ Commits(t, S)
  BY <1>1, <1>2 DEF IndInv, TabOK, WriteCommits
<1>4. PICK x : x = [r EXCEPT !.wop = "done"]
  OBVIOUS
<1>5. Sets(t, x)
  BY <1>1, <1>4 DEF WriteCommits
<1>6. /\ x \in TabState
      /\ x.store = r.store /\ x.added = r.added /\ x.hash = r.hash /\ x.client = r.client
      /\ x.writes = r.writes /\ x.wop = "done" /\ x.recent = r.recent /\ x.run = r.run
      /\ x.folded = r.folded /\ x.view = r.view /\ x.reads = r.reads /\ x.issued = r.issued
      /\ x.need = r.need /\ x.qneed = r.qneed /\ x.heard = r.heard
  BY <1>3, <1>4, ZenonT(60) DEF TabState
<1>7. r.writes # <<>> /\ r.writes \in Seq(Entry) /\ S \subseteq used
  <2>1. r.writes # <<>> /\ r.writes \in Seq(Entry) /\ ToSet(r.writes) \subseteq used
    BY <1>3 DEF TabOK, ShapeOK, UsedOK, TabState
  <2>2. Head(r.writes) \in ToSet(r.writes)
    BY <2>1, SetFacts
  <2>3. QED
    BY <1>2, <2>1, <2>2
<1>8. ShapeOK(x)' /\ HashOK(x)' /\ ReadsOK(x)' /\ HeardOK(x)'
  BY <1>3, <1>6, <1>7 DEF TabOK, ShapeOK, HashOK, ReadsOK, HeardOK, Held
<1>9. NeedOK(x)' /\ FastOK(x)' /\ UsedOK(x)'
  BY <1>3, <1>6 DEF TabOK, NeedOK, FastOK, UsedOK, Held, remote, history
<1>10. DiskOK(x)'
  <2>1. db \subseteq db' /\ (r.store = "open" => Head(r.writes) \in db') /\ failed' = failed
    BY <1>1, <1>2, <1>3 DEF Commits, history
  <2>2. QED
    BY <1>3, <1>6, <2>1 DEF TabOK, DiskOK, Held
<1>11. TabOK(x)'
  BY <1>6, <1>8, <1>9, <1>10 DEF TabOK
<1>12. /\ Held(x) = Held(r) /\ Owed(r) \subseteq Owed(x)
       /\ r.store = "open" => S \subseteq Owed(x)
  BY <1>2, <1>3, <1>6 DEF Held, Owed
<1>13. QED
  BY <1>1, <1>3, <1>5, <1>6, <1>7, <1>11, <1>12, CommitKeeps

(* A transaction of a pulled page.                                         *)
LEMMA PageCommitsKeeps ==
    ASSUME IndInv, NEW t \in Tab, PageCommits(t)
    PROVE  IndInv'
<1>1. PICK r : r = tab[t]
  OBVIOUS
<1>2. PICK S : S = r.run.body
  OBVIOUS
<1>3. /\ TabOK(r) /\ r \in TabState /\ r.run.pc = "tx" /\ UNCHANGED <<remote, chan, history>>
      /\ Commits(t, S) /\ r.run \in RunState /\ S \subseteq used
  BY <1>1, <1>2 DEF IndInv, TabOK, TabState, PageCommits, UsedOK
<1>4. PICK u : u = [r.run EXCEPT !.pc = "done"]
  OBVIOUS
<1>5. PICK x : x = [r EXCEPT !.run = u]
  OBVIOUS
<1>6. Sets(t, x)
  <2>1. x = [r EXCEPT !.run.pc = "done"]
    BY <1>3, <1>4, <1>5 DEF TabState
  <2>2. QED
    BY <1>1, <2>1 DEF PageCommits
<1>7. u \in RunState /\ u.pc = "done" /\ u.mine = r.run.mine /\ u.body = S /\ u.new = r.run.new
  BY <1>2, <1>3, <1>4 DEF RunState, Pcs
<1>8. /\ x \in TabState
      /\ x.store = r.store /\ x.added = r.added /\ x.hash = r.hash /\ x.client = r.client
      /\ x.writes = r.writes /\ x.wop = r.wop /\ x.recent = r.recent /\ x.run = u
      /\ x.folded = r.folded /\ x.view = r.view /\ x.reads = r.reads /\ x.issued = r.issued
      /\ x.need = r.need /\ x.qneed = r.qneed /\ x.heard = r.heard
  BY <1>3, <1>5, <1>7, ZenonT(60) DEF TabState
<1>9. ShapeOK(x)' /\ HashOK(x)' /\ ReadsOK(x)' /\ HeardOK(x)'
  <2>1. r.client # "none"
    BY <1>3, IdleMade DEF TabOK, ShapeOK
  <2>2. QED
    BY <1>3, <1>7, <1>8, <2>1 DEF TabOK, ShapeOK, HashOK, ReadsOK, HeardOK, Held
<1>10. NeedOK(x)' /\ FastOK(x)' /\ UsedOK(x)'
  BY <1>2, <1>3, <1>7, <1>8 DEF TabOK, NeedOK, FastOK, UsedOK, Held, remote, history
<1>11. DiskOK(x)'
  <2>1. db \subseteq db' /\ (r.store = "open" => S \subseteq db') /\ failed' = failed
    BY <1>1, <1>3 DEF Commits, history
  <2>2. QED
    BY <1>3, <1>7, <1>8, <2>1 DEF TabOK, DiskOK, Held
<1>12. TabOK(x)'
  BY <1>8, <1>9, <1>10, <1>11 DEF TabOK
<1>13. /\ Held(x) = Held(r) /\ Owed(r) \subseteq Owed(x)
       /\ r.store = "open" => S \subseteq Owed(x)
  BY <1>3, <1>7, <1>8 DEF Held, Owed
<1>14. QED
  BY <1>1, <1>3, <1>6, <1>8, <1>12, <1>13, CommitKeeps

(* addMany resumes.                                                        *)
LEMMA StoresKeeps ==
    ASSUME IndInv, NEW t \in Tab, NEW x, Sets(t, x), NEW S \in SUBSET Entry, Post(t, S),
           UNCHANGED <<remote, db, history>>, TabOK(x), x.store = tab[t].store,
           Held(x) = Held(tab[t]) \cup S, x.issued = tab[t].issued,
           Owed(tab[t]) \subseteq Owed(x) \cup S, tab[t].store = "open" => S \subseteq db,
           vault # "ended" => \A u \in Tab : u # t => S \cap tab[u].issued \subseteq server
    PROVE  IndInv'
<1>1. Grows /\ UNCHANGED <<vault, server, db, used, orphans>>
  BY DEF Grows, remote, history
<1>2. ASSUME NEW u \in Tab
      PROVE  /\ chan[u] \in Seq(SUBSET Entry) /\ chan'[u] \in Seq(SUBSET Entry)
             /\ \/ chan'[u] = chan[u] /\ ~(u # t /\ tab[t].store = "open" /\ Listens(u))
                \/ /\ u # t /\ tab[t].store = "open" /\ Listens(u)
                   /\ chan'[u] = Append(chan[u], S)
  BY DEF Post, IndInv, WorldOK
<1>3. WorldOK'
  <2>1. chan' \in [Tab -> Seq(SUBSET Entry)]
    <3>1. chan' = [u \in Tab |-> IF u # t /\ tab[t].store = "open" /\ Listens(u)
                                THEN Append(chan[u], S) ELSE chan[u]]
      BY DEF Post
    <3>2. \A u \in Tab : chan'[u] \in Seq(SUBSET Entry)
      BY <1>2
    <3>3. QED
      BY <3>1, <3>2
  <2>2. QED
    BY <1>1, <2>1 DEF IndInv, WorldOK, history
<1>4. TabOK(x)'
  BY <1>1, GrowKeeps
<1>5. /\ DOMAIN tab' = Tab /\ tab'[t] = x /\ \A u \in Tab : u # t => tab'[u] = tab[u]
      /\ \A u \in Tab : TabOK(tab[u])'
      /\ \A u, v \in Tab : u # v => tab'[u].issued \cap tab'[v].issued = {}
      /\ \A u \in Tab : tab'[u].issued \subseteq tab[u].issued
  BY <1>1, <1>4, OneTab
<1>6. \A u \in Tab : tab'[u].store = tab[u].store /\ tab'[u].issued = tab[u].issued
  BY <1>5
<1>7. ASSUME NEW u \in Tab PROVE ChanOK(u)'
  <2>1. ChanOK(u) /\ (Listens(u)' <=> Listens(u))
    BY <1>6 DEF IndInv, Listens
  <2>2. CASE chan'[u] = chan[u]
    BY <1>1, <1>6, <2>1, <2>2 DEF ChanOK
  <2>3. CASE u # t /\ tab[t].store = "open" /\ Listens(u) /\ chan'[u] = Append(chan[u], S)
    <3>1. PICK m : m = chan[u]
      OBVIOUS
    <3>2. PICK k : k = Append(m, S)
      OBVIOUS
    <3>3. m \in Seq(SUBSET Entry) /\ Len(m) \in Nat
      BY <1>2, <3>1
    <3>4. Len(k) = Len(m) + 1 /\ k[Len(m) + 1] = S /\ \A i \in 1..Len(m) : k[i] = m[i]
      BY <3>2, <3>3
    <3>5. \A i \in 1..Len(k) : i \in 1..Len(m) \/ i = Len(m) + 1
      BY <3>3, <3>4
    <3>6. S \subseteq db /\ (vault # "ended" => S \cap tab[u].issued \subseteq server)
      BY <2>3
    <3>7. \A i \in 1..Len(k) : k[i] \subseteq db /\ (vault # "ended" => k[i] \cap tab[u].issued \subseteq server)
      BY <2>1, <3>1, <3>4, <3>5, <3>6 DEF ChanOK
    <3>8. chan'[u] = k
      BY <2>3, <3>1, <3>2
    <3>9. QED
      BY <1>1, <1>6, <2>1, <2>3, <3>7, <3>8 DEF ChanOK
  <2>4. QED
    BY <1>2, <2>2, <2>3
<1>8. ASSUME NEW u \in Tab PROVE AgreeOK(u)'
  <2>1. AllOwed \subseteq AllOwed' \cup S
    <3>1. ASSUME NEW v \in Tab PROVE Owed(tab[v]) \subseteq Owed(tab[v])' \cup S
      <4>1. CASE v = t
        BY <1>5, <4>1 DEF Owed
      <4>2. CASE v # t
        BY <1>5, <4>2 DEF Owed
      <4>3. QED
        BY <4>1, <4>2
    <3>2. QED
      BY <3>1 DEF AllOwed
  <2>2. CASE tab[t].store # "open"
    <3>1. Owed(tab[t]) = {} /\ Owed(x) = {}
      BY <2>2 DEF Owed
    <3>2. \A v \in Tab : Owed(tab[v])' = Owed(tab[v])
      BY <1>5, <3>1 DEF Owed
    <3>3. AllOwed' = AllOwed
      BY <3>2 DEF AllOwed
    <3>4. Coming(u)' = Coming(u) /\ Mem(u) \subseteq Mem(u)'
      BY <1>2, <1>5, <2>2 DEF Mem, Held, Coming
    <3>5. AgreeOK(u)
      BY DEF IndInv
    <3>6. QED
      BY <1>1, <1>6, <3>3, <3>4, <3>5 DEF AgreeOK
  <2>3. CASE tab[t].store = "open" /\ tab[u].store \in {"loaded", "open"}
    <3>1. /\ Mem(u) \subseteq Mem(u)' /\ Coming(u) \subseteq Coming(u)'
          /\ S \subseteq Mem(u)' \cup Coming(u)'
      <4>1. CASE u = t
        <5>1. Coming(u)' = Coming(u)
          BY <1>2, <4>1 DEF Coming
        <5>2. Mem(u)' = Held(x) /\ Mem(u) = Held(tab[t])
          BY <1>5, <4>1 DEF Mem, Held
        <5>3. QED
          BY <5>1, <5>2
      <4>2. CASE u # t
        <5>1. chan'[u] = Append(chan[u], S) /\ Mem(u)' = Mem(u)
          BY <1>2, <1>5, <2>3, <4>2 DEF Mem, Listens
        <5>2. PICK m : m = chan[u]
          OBVIOUS
        <5>3. PICK k : k = Append(m, S)
          OBVIOUS
        <5>4. m \in Seq(SUBSET Entry) /\ k \in Seq(SUBSET Entry) /\ Len(m) \in Nat
              /\ Len(k) = Len(m) + 1
              /\ k[Len(m) + 1] = S /\ \A i \in 1..Len(m) : k[i] = m[i]
          BY <1>2, <5>2, <5>3
        <5>5. ToSet(m) \subseteq ToSet(k) /\ S \in ToSet(k)
          <6>1. DOMAIN m = 1..Len(m) /\ DOMAIN k = 1..(Len(m) + 1) /\ Len(m) + 1 \in 1..(Len(m) + 1)
            BY <5>4
          <6>2. \A i \in 1..Len(m) : i \in 1..(Len(m) + 1)
            BY <5>4
          <6>3. QED
            BY <5>4, <6>1, <6>2 DEF ToSet
        <5>6. UNION ToSet(m) \subseteq UNION ToSet(k) /\ S \subseteq UNION ToSet(k)
          BY <5>5
        <5>7. Coming(u) = UNION ToSet(m) /\ Coming(u)' = UNION ToSet(k)
          BY <5>1, <5>2, <5>3 DEF Coming
        <5>8. QED
          BY <5>1, <5>6, <5>7
      <4>3. QED
        BY <4>1, <4>2
    <3>2. AgreeOK(u)
      BY DEF IndInv
    <3>3. QED
      BY <1>1, <2>1, <2>3, <3>1, <3>2 DEF AgreeOK
  <2>4. CASE tab[u].store \notin {"loaded", "open"}
    BY <1>6, <2>4 DEF AgreeOK
  <2>5. QED
    BY <2>2, <2>3, <2>4
<1>9. QED
  BY <1>3, <1>5, <1>7, <1>8 DEF IndInv

(* A write of the queue reaches memory.                                    *)
LEMMA WriteStoresKeeps ==
    ASSUME IndInv, NEW t \in Tab, WriteStores(t)
    PROVE  IndInv'
<1>1. PICK r : r = tab[t]
  OBVIOUS
<1>2. PICK e : e = Head(r.writes)
  OBVIOUS
<1>3. PICK w : w = IF e \in Held(r) THEN "held" ELSE "stored"
  OBVIOUS
<1>4. PICK y : y = [r EXCEPT !.wop = w]
  OBVIOUS
<1>5. TabOK(r) /\ r \in TabState /\ r.wop = "done" /\ used \in SUBSET Entry
  BY <1>1 DEF IndInv, TabOK, WriteStores, WorldOK
<1>6. /\ Post(t, {e}) /\ Sets(t, [AddMem(y, {e}) EXCEPT !.heard = @ /\ {e} \subseteq Held(r)])
      /\ UNCHANGED <<remote, db, history>>
  BY <1>1, <1>2, <1>3, <1>4 DEF WriteStores, Stores, Landed, Mem, Held
<1>7. r.writes # <<>> /\ r.writes \in Seq(Entry) /\ e \in Entry /\ e \in r.issued /\ e \in used
      /\ e \in ToSet(r.writes) /\ 1 \in 1..Len(r.writes) /\ e = r.writes[1]
  <2>1. r.writes # <<>> /\ r.writes \in Seq(Entry) /\ ToSet(r.writes) \subseteq r.issued
        /\ r.issued \subseteq used
    BY <1>5 DEF TabOK, ShapeOK, UsedOK, TabState
  <2>2. e \in ToSet(r.writes) /\ e \in Entry /\ 1 \in 1..Len(r.writes) /\ e = r.writes[1]
    BY <1>2, <2>1, SetFacts
  <2>3. QED
    BY <2>1, <2>2
<1>8. w \in {"wait", "tx", "done", "stored", "held"}
  BY <1>3
<1>9. y \in TabState /\ y.added = r.added /\ y.hash = r.hash /\ y.heard = r.heard
  BY <1>4, <1>5, <1>8, ZenonT(60) DEF TabState
<1>10. HashOK(y) /\ Held(y) = Held(r)
  BY <1>5, <1>9 DEF TabOK, HashOK, Held
<1>11. {e} \in SUBSET Entry
  BY <1>7
<1>23. PICK a \in Seq(Entry), h \in SUBSET (0..MaxEntry) :
          /\ AddMem(y, {e}) = [y EXCEPT !.added = a, !.hash = h]
          /\ ToSet(a) = Held(y) \cup {e} /\ h \in {NoHash, Held(y) \cup {e}}
          /\ Len(y.added) <= Len(a)
          /\ \A n \in 0..Len(y.added) : SubSeq(a, 1, n) = SubSeq(y.added, 1, n)
  <2>1. PICK T : T = {e}
    OBVIOUS
  <2>4. T \in SUBSET Entry /\ y \in TabState /\ HashOK(y)
    BY <1>9, <1>10, <1>11, <2>1
  <2>2. \E a \in Seq(Entry), h \in SUBSET (0..MaxEntry) :
           /\ AddMem(y, T) = [y EXCEPT !.added = a, !.hash = h]
           /\ ToSet(a) = Held(y) \cup T /\ h \in {NoHash, Held(y) \cup T}
           /\ Len(y.added) <= Len(a)
           /\ \A n \in 0..Len(y.added) : SubSeq(a, 1, n) = SubSeq(y.added, 1, n)
    BY <2>4, AddMemFacts
  <2>3. QED
    BY <2>1, <2>2
<1>12. /\ AddMem(y, {e}) = [y EXCEPT !.added = a, !.hash = h]
       /\ ToSet(a) = Held(r) \cup {e} /\ h \in {NoHash, Held(r) \cup {e}}
       /\ Len(r.added) <= Len(a)
       /\ \A n \in 0..Len(r.added) : SubSeq(a, 1, n) = SubSeq(r.added, 1, n)
  BY <1>9, <1>10, <1>23
<1>13. PICK d : d = (r.heard /\ {e} \subseteq Held(r))
  OBVIOUS
<1>14. d \in BOOLEAN
  BY <1>13
<1>15. PICK x : x = [r EXCEPT !.wop = w, !.added = a, !.hash = h, !.heard = d]
  OBVIOUS
<1>16. Sets(t, x)
  <2>1. x = [[y EXCEPT !.added = a, !.hash = h] EXCEPT !.heard = @ /\ {e} \subseteq Held(r)]
    BY <1>4, <1>5, <1>13, <1>15 DEF TabState
  <2>2. QED
    BY <1>6, <1>12, <2>1
<1>17. /\ x \in TabState
       /\ x.store = r.store /\ x.added = a /\ x.hash = h /\ x.client = r.client
       /\ x.writes = r.writes /\ x.wop = w /\ x.recent = r.recent /\ x.run = r.run
       /\ x.folded = r.folded /\ x.view = r.view /\ x.reads = r.reads /\ x.issued = r.issued
       /\ x.need = r.need /\ x.qneed = r.qneed /\ x.heard = d
  BY <1>5, <1>8, <1>14, <1>15, ZenonT(60) DEF TabState
<1>18. r.store # "none" /\ (r.store \in {"scan", "loaded", "open"} => r.store = "open" /\ {e} \subseteq db)
  BY <1>2, <1>5, <1>7 DEF TabOK, ShapeOK, DiskOK
<1>19. TabOK(x)
  <2>1. Gains(x, r, {e})
    BY <1>3, <1>5, <1>12, <1>17 DEF Gains, Held
  <2>2. HeardOK(x)
    BY <1>3, <1>5, <1>13, <1>17 DEF TabOK, HeardOK
  <2>3. x.wop \in {"stored", "held"} => Head(r.writes) \in Held(r) \cup {e}
    BY <1>2
  <2>4. ASSUME vault # "ended"
        PROVE  /\ {e} \cap r.issued \subseteq server \cup ToSet(r.writes)
               /\ \A i \in 1..Len(r.writes) : r.writes[i] \in Held(r) \cup {e} =>
                     r.writes[i] \in server \/ (i = 1 /\ x.wop = "stored")
    <3>1. \A i, j \in 1..Len(r.writes) : r.writes[i] = r.writes[j] => i = j
      BY <1>5 DEF TabOK, ShapeOK
    <3>2. \A i \in 1..Len(r.writes) : r.writes[i] \in Held(r) => r.writes[i] \in server
      BY <1>5, <2>4 DEF TabOK, FastOK
    <3>3. ASSUME NEW i \in 1..Len(r.writes), r.writes[i] \in Held(r) \cup {e}
          PROVE  r.writes[i] \in server \/ (i = 1 /\ x.wop = "stored")
      <4>1. CASE r.writes[i] \in Held(r)
        BY <3>2, <4>1
      <4>2. CASE r.writes[i] \notin Held(r)
        <5>1. r.writes[i] = e
          BY <3>3, <4>2
        <5>2. i = 1
          BY <1>7, <3>1, <5>1
        <5>3. x.wop = "stored"
          BY <1>3, <1>17, <4>2, <5>1
        <5>4. QED
          BY <5>2, <5>3
      <4>3. QED
        BY <4>1, <4>2
    <3>4. QED
      BY <1>7, <3>3
  <2>5. {e} \subseteq used
    BY <1>7
  <2>6. QED
    BY <1>5, <1>17, <1>18, <2>1, <2>2, <2>3, <2>4, <2>5, GainOK
<1>20. Held(x) = Held(r) \cup {e} /\ Owed(r) \subseteq Owed(x) \cup {e}
  BY <1>2, <1>12, <1>17 DEF Held, Owed
<1>21. \A u \in Tab : u # t => {e} \cap tab[u].issued \subseteq server
  BY <1>1, <1>7 DEF IndInv
<1>22. QED
  BY <1>1, <1>6, <1>11, <1>16, <1>17, <1>18, <1>19, <1>20, <1>21, StoresKeeps

(* A pulled page reaches memory.                                           *)
LEMMA PageStoresKeeps ==
    ASSUME IndInv, NEW t \in Tab, PageStores(t)
    PROVE  IndInv'
<1>1. PICK r : r = tab[t]
  OBVIOUS
<1>2. PICK S : S = r.run.body
  OBVIOUS
<1>3. PICK n : n = (r.run.new \/ ~(S \subseteq Held(r)))
  OBVIOUS
<1>4. PICK z : z = [r.run EXCEPT !.pc = "pull", !.new = n]
  OBVIOUS
<1>5. PICK y : y = [r EXCEPT !.run = z]
  OBVIOUS
<1>6. TabOK(r) /\ r \in TabState /\ r.run \in RunState /\ r.run.pc = "done" /\ S \in SUBSET Entry
      /\ S \subseteq used /\ n \in BOOLEAN
  BY <1>1, <1>2, <1>3 DEF IndInv, TabOK, PageStores, UsedOK, TabState, RunState
<1>7. /\ Post(t, S) /\ Sets(t, [AddMem(y, S) EXCEPT !.heard = @ /\ S \subseteq Held(r)])
      /\ UNCHANGED <<remote, db, history>>
  <2>1. y = [r EXCEPT !.run.pc = "pull", !.run.new = @ \/ ~(S \subseteq Held(r))]
    BY <1>3, <1>4, <1>5, <1>6 DEF TabState, RunState
  <2>2. QED
    BY <1>1, <1>2, <2>1 DEF PageStores, Stores, Mem, Held
<1>8. z \in RunState /\ z.pc = "pull" /\ z.mine = r.run.mine /\ z.body = S /\ z.new = n
  BY <1>2, <1>4, <1>6 DEF RunState, Pcs
<1>9. y \in TabState /\ y.added = r.added /\ y.hash = r.hash /\ y.heard = r.heard
  BY <1>5, <1>6, <1>8, ZenonT(60) DEF TabState
<1>10. HashOK(y) /\ Held(y) = Held(r)
  BY <1>6, <1>9 DEF TabOK, HashOK, Held
<1>23. PICK a \in Seq(Entry), h \in SUBSET (0..MaxEntry) :
          /\ AddMem(y, S) = [y EXCEPT !.added = a, !.hash = h]
          /\ ToSet(a) = Held(y) \cup S /\ h \in {NoHash, Held(y) \cup S}
          /\ Len(y.added) <= Len(a)
          /\ \A i \in 0..Len(y.added) : SubSeq(a, 1, i) = SubSeq(y.added, 1, i)
  BY <1>6, <1>9, <1>10, AddMemFacts
<1>11. /\ AddMem(y, S) = [y EXCEPT !.added = a, !.hash = h]
       /\ ToSet(a) = Held(r) \cup S /\ h \in {NoHash, Held(r) \cup S}
       /\ Len(r.added) <= Len(a)
       /\ \A i \in 0..Len(r.added) : SubSeq(a, 1, i) = SubSeq(r.added, 1, i)
  BY <1>9, <1>10, <1>23
<1>12. PICK d : d = (r.heard /\ S \subseteq Held(r))
  OBVIOUS
<1>13. d \in BOOLEAN
  BY <1>12
<1>14. PICK x : x = [r EXCEPT !.run = z, !.added = a, !.hash = h, !.heard = d]
  OBVIOUS
<1>15. Sets(t, x)
  <2>1. x = [[y EXCEPT !.added = a, !.hash = h] EXCEPT !.heard = @ /\ S \subseteq Held(r)]
    BY <1>5, <1>6, <1>12, <1>14 DEF TabState
  <2>2. QED
    BY <1>7, <1>11, <2>1
<1>16. /\ x \in TabState
       /\ x.store = r.store /\ x.added = a /\ x.hash = h /\ x.client = r.client
       /\ x.writes = r.writes /\ x.wop = r.wop /\ x.recent = r.recent /\ x.run = z
       /\ x.folded = r.folded /\ x.view = r.view /\ x.reads = r.reads /\ x.issued = r.issued
       /\ x.need = r.need /\ x.qneed = r.qneed /\ x.heard = d
  BY <1>6, <1>8, <1>13, <1>14, ZenonT(60) DEF TabState
<1>17. r.store # "none" /\ (r.store \in {"scan", "loaded", "open"} => r.store = "open" /\ S \subseteq db)
  BY <1>2, <1>6, IdleMade DEF TabOK, ShapeOK, DiskOK
<1>18. vault # "ended" => S \subseteq server
  BY <1>2, <1>6 DEF TabOK, FastOK
<1>19. TabOK(x)
  <2>1. Gains(x, r, S)
    BY <1>2, <1>6, <1>8, <1>11, <1>16 DEF Gains, Held
  <2>2. HeardOK(x)
    BY <1>3, <1>6, <1>8, <1>12, <1>16 DEF TabOK, HeardOK
  <2>3. x.wop \in {"stored", "held"} => Head(r.writes) \in Held(r) \cup S
    BY <1>6, <1>16 DEF TabOK, ShapeOK
  <2>4. ASSUME vault # "ended"
        PROVE  /\ S \cap r.issued \subseteq server \cup ToSet(r.writes)
               /\ \A i \in 1..Len(r.writes) : r.writes[i] \in Held(r) \cup S =>
                     r.writes[i] \in server \/ (i = 1 /\ x.wop = "stored")
    BY <1>6, <1>16, <1>18, <2>4 DEF TabOK, FastOK
  <2>5. QED
    BY <1>6, <1>16, <1>17, <2>1, <2>2, <2>3, <2>4, GainOK
<1>20. Held(x) = Held(r) \cup S /\ Owed(r) \subseteq Owed(x) \cup S
  BY <1>2, <1>11, <1>16 DEF Held, Owed
<1>21. vault # "ended" => \A u \in Tab : u # t => S \cap tab[u].issued \subseteq server
  BY <1>18
<1>22. QED
  BY <1>1, <1>6, <1>7, <1>15, <1>16, <1>17, <1>19, <1>20, <1>21, StoresKeeps

-----------------------------------------------------------------------------
(* A tab closes, is killed, or loses its database; another device writes.  *)

(* close() ends.                                                           *)
LEMMA CloseStoreKeeps ==
    ASSUME IndInv, NEW t \in Tab, CloseStore(t)
    PROVE  IndInv'
<1>1. PICK r : r = tab[t]
  OBVIOUS
<1>2. TabOK(r) /\ r \in TabState /\ r.client = "closing" /\ r.run.pc = "idle" /\ r.writes = <<>>
      /\ UNCHANGED <<remote, db, history>> /\ chan' = [chan EXCEPT ![t] = <<>>]
  BY <1>1 DEF IndInv, TabOK, CloseStore, StoreCloses
<1>3. PICK s : s = IF r.store = "open" THEN "closed" ELSE r.store
  OBVIOUS
<1>4. PICK x : x = [r EXCEPT !.client = "closed", !.store = s]
  OBVIOUS
<1>5. Sets(t, x)
  <2>1. x = [r EXCEPT !.client = "closed", !.store = IF @ = "open" THEN "closed" ELSE @]
    BY <1>2, <1>3, <1>4 DEF TabState
  <2>2. QED
    BY <1>1, <2>1 DEF CloseStore, StoreCloses
<1>6. s \in {"none", "scan", "loaded", "open", "closed", "gone"}
  BY <1>2, <1>3 DEF TabState
<1>7. /\ x \in TabState
      /\ x.store = s /\ x.added = r.added /\ x.hash = r.hash /\ x.client = "closed"
      /\ x.writes = r.writes /\ x.wop = r.wop /\ x.recent = r.recent /\ x.run = r.run
      /\ x.folded = r.folded /\ x.view = r.view /\ x.reads = r.reads /\ x.issued = r.issued
      /\ x.need = r.need /\ x.qneed = r.qneed /\ x.heard = r.heard
  BY <1>2, <1>4, <1>6, ZenonT(60) DEF TabState
<1>8. s \in {"closed", "gone"} /\ r.wop = "wait" /\ (s = "closed" => r.store = "open")
  BY <1>2, <1>3 DEF TabOK, ShapeOK, TabState
<1>9. ShapeOK(x) /\ HashOK(x) /\ ReadsOK(x) /\ HeardOK(x)
  BY <1>2, <1>7, <1>8 DEF TabOK, ShapeOK, HashOK, ReadsOK, HeardOK, Held
<1>10. NeedOK(x) /\ FastOK(x) /\ UsedOK(x)
  BY <1>2, <1>7, <1>8 DEF TabOK, NeedOK, FastOK, UsedOK, Held
<1>11. DiskOK(x)
  <2>1. <<>> \in Seq(Entry)
    OBVIOUS
  <2>2. ToSet(r.writes) = {}
    BY <1>2, <2>1, SetFacts
  <2>3. r.issued \subseteq Held(r) \cup failed
    BY <1>2, <2>2 DEF TabOK, NeedOK
  <2>4. s = "closed" => Held(r) \subseteq db
    BY <1>2, <1>8 DEF TabOK, DiskOK
  <2>5. QED
    BY <1>7, <1>8, <2>3, <2>4 DEF DiskOK
<1>12. Grows /\ UNCHANGED <<vault, server, db, used, orphans>>
  BY <1>2 DEF Grows, remote, history
<1>13. WorldOK'
  <2>1. chan' \in [Tab -> Seq(SUBSET Entry)]
    BY <1>2 DEF IndInv, WorldOK
  <2>2. QED
    BY <1>2, <1>12, <2>1 DEF IndInv, WorldOK, history
<1>14. TabOK(x)'
  BY <1>7, <1>9, <1>10, <1>11, <1>12, GrowKeeps DEF TabOK
<1>15. /\ DOMAIN tab' = Tab /\ tab'[t] = x /\ \A u \in Tab : u # t => tab'[u] = tab[u]
       /\ \A u \in Tab : TabOK(tab[u])'
       /\ \A u, v \in Tab : u # v => tab'[u].issued \cap tab'[v].issued = {}
       /\ \A u \in Tab : tab'[u].issued \subseteq tab[u].issued
  BY <1>1, <1>5, <1>7, <1>12, <1>14, OneTab
<1>16. chan'[t] = <<>> /\ \A u \in Tab : u # t => chan'[u] = chan[u]
  BY <1>2 DEF IndInv, WorldOK
<1>17. ASSUME NEW u \in Tab PROVE ChanOK(u)'
  <2>1. ChanOK(u)
    BY DEF IndInv
  <2>2. CASE u = t
    BY <1>16, <2>2 DEF ChanOK
  <2>3. CASE u # t
    BY <1>12, <1>15, <1>16, <2>1, <2>3 DEF ChanOK, Listens
  <2>4. QED
    BY <2>2, <2>3
<1>18. ASSUME NEW u \in Tab PROVE AgreeOK(u)'
  <2>1. \A v \in Tab : Owed(tab[v])' = Owed(tab[v])
    BY <1>1, <1>2, <1>7, <1>8, <1>15 DEF Owed
  <2>2. AllOwed' = AllOwed
    BY <2>1 DEF AllOwed
  <2>3. AgreeOK(u)
    BY DEF IndInv
  <2>4. CASE u = t
    BY <1>7, <1>8, <1>15, <2>4 DEF AgreeOK
  <2>5. CASE u # t
    <3>1. Coming(u)' = Coming(u) /\ Mem(u)' = Mem(u)
      BY <1>15, <1>16, <2>5 DEF Coming, Mem
    <3>2. QED
      BY <1>12, <1>15, <2>2, <2>3, <2>5, <3>1 DEF AgreeOK
  <2>6. QED
    BY <2>4, <2>5
<1>19. QED
  BY <1>13, <1>15, <1>17, <1>18 DEF IndInv

(* A tab is killed.                                                        *)
LEMMA KillKeeps ==
    ASSUME IndInv, NEW t \in Tab, Kill(t)
    PROVE  IndInv'
<1>1. PICK r : r = tab[t]
  OBVIOUS
<1>2. TabOK(r) /\ r.calls \in SUBSET AllCalls /\ used \in SUBSET Entry
  BY <1>1 DEF IndInv, TabOK, TabState, WorldOK
<1>3. PICK x : x = Blank(r.calls)
  OBVIOUS
<1>4. Sets(t, x)
  BY <1>1, <1>3 DEF Kill
<1>5. TabOK(x) /\ Held(x) = {} /\ x.store = "none" /\ Owed(x) = {} /\ x.issued = {}
  BY <1>2, <1>3, BlankOK
<1>6. Grows /\ UNCHANGED <<vault, server, db, used, missed>> /\ chan' = [chan EXCEPT ![t] = <<>>]
  BY DEF Kill, Grows, remote
<1>7. WorldOK'
  <2>1. chan' \in [Tab -> Seq(SUBSET Entry)]
    BY <1>6 DEF IndInv, WorldOK
  <2>2. QED
    BY <1>6, <2>1 DEF IndInv, WorldOK
<1>8. TabOK(x)'
  BY <1>5, <1>6, GrowKeeps
<1>9. /\ DOMAIN tab' = Tab /\ tab'[t] = x /\ \A u \in Tab : u # t => tab'[u] = tab[u]
      /\ \A u \in Tab : TabOK(tab[u])'
      /\ \A u, v \in Tab : u # v => tab'[u].issued \cap tab'[v].issued = {}
      /\ \A u \in Tab : tab'[u].issued \subseteq tab[u].issued
  BY <1>1, <1>4, <1>5, <1>6, <1>8, OneTab
<1>10. chan'[t] = <<>> /\ \A u \in Tab : u # t => chan'[u] = chan[u]
  BY <1>6 DEF IndInv, WorldOK
<1>11. ASSUME NEW u \in Tab PROVE ChanOK(u)'
  <2>1. ChanOK(u)
    BY DEF IndInv
  <2>2. CASE u = t
    BY <1>10, <2>2 DEF ChanOK
  <2>3. CASE u # t
    BY <1>6, <1>9, <1>10, <2>1, <2>3 DEF ChanOK, Listens
  <2>4. QED
    BY <2>2, <2>3
<1>12. orphans \subseteq orphans' /\ Owed(r) \subseteq orphans'
  <2>1. Owed(r) \subseteq db
    BY <1>2 DEF TabOK, DiskOK, Owed
  <2>2. Owed(r) \subseteq Unannounced(t)
    BY <1>1 DEF Owed, Unannounced
  <2>3. QED
    BY <2>1, <2>2 DEF Kill
<1>13. AllOwed \subseteq AllOwed' \cup orphans'
  <2>1. ASSUME NEW v \in Tab PROVE Owed(tab[v]) \subseteq Owed(tab[v])' \cup orphans'
    <3>1. CASE v = t
      BY <1>1, <1>12, <3>1
    <3>2. CASE v # t
      BY <1>9, <3>2 DEF Owed
    <3>3. QED
      BY <3>1, <3>2
  <2>2. QED
    BY <2>1 DEF AllOwed
<1>14. ASSUME NEW u \in Tab PROVE AgreeOK(u)'
  <2>1. AgreeOK(u)
    BY DEF IndInv
  <2>2. CASE u = t
    BY <1>5, <1>9, <2>2 DEF AgreeOK
  <2>3. CASE u # t
    <3>1. Coming(u)' = Coming(u) /\ Mem(u)' = Mem(u)
      BY <1>9, <1>10, <2>3 DEF Coming, Mem
    <3>2. QED
      BY <1>6, <1>9, <1>12, <1>13, <2>1, <2>3, <3>1 DEF AgreeOK
  <2>4. QED
    BY <2>2, <2>3
<1>15. QED
  BY <1>7, <1>9, <1>11, <1>14 DEF IndInv

(* The database is deleted.                                                *)
LEMMA DestroyKeeps ==
    ASSUME IndInv, NEW d \in Tab, Destroy(d)
    PROVE  IndInv'
<1>1. /\ db' = {} /\ UNCHANGED <<vault, server, used, failed, missed>>
      /\ chan' = [t \in Tab |-> <<>>]
      /\ tab' = [t \in Tab |-> [tab[t] EXCEPT !.store = IF @ = "none" THEN @ ELSE "gone"]]
  BY DEF Destroy, remote
<1>2. WorldOK'
  BY <1>1 DEF IndInv, WorldOK
<1>3. ASSUME NEW t \in Tab
      PROVE  TabOK(tab[t])' /\ tab'[t].issued = tab[t].issued /\ tab'[t].store \in {"none", "gone"}
  <2>1. PICK r : r = tab[t]
    OBVIOUS
  <2>2. TabOK(r) /\ r \in TabState
    BY <2>1 DEF IndInv, TabOK
  <2>3. PICK s : s = IF r.store = "none" THEN r.store ELSE "gone"
    OBVIOUS
  <2>4. PICK x : x = [r EXCEPT !.store = s]
    OBVIOUS
  <2>5. tab'[t] = x
    BY <1>1, <2>1, <2>2, <2>3, <2>4 DEF TabState
  <2>6. s \in {"none", "scan", "loaded", "open", "closed", "gone"}
    BY <2>2, <2>3 DEF TabState
  <2>7. /\ x \in TabState
        /\ x.store = s /\ x.added = r.added /\ x.hash = r.hash /\ x.client = r.client
        /\ x.writes = r.writes /\ x.wop = r.wop /\ x.recent = r.recent /\ x.run = r.run
        /\ x.folded = r.folded /\ x.view = r.view /\ x.reads = r.reads /\ x.issued = r.issued
        /\ x.need = r.need /\ x.qneed = r.qneed /\ x.heard = r.heard
    BY <2>2, <2>4, <2>6, ZenonT(60) DEF TabState
  <2>8. ShapeOK(x)' /\ HashOK(x)' /\ ReadsOK(x)' /\ HeardOK(x)'
    BY <2>2, <2>3, <2>7 DEF TabOK, ShapeOK, HashOK, ReadsOK, HeardOK, Held
  <2>9. NeedOK(x)' /\ FastOK(x)' /\ UsedOK(x)'
    BY <1>1, <2>2, <2>7 DEF TabOK, NeedOK, FastOK, UsedOK, Held
  <2>10. DiskOK(x)'
    BY <2>3, <2>7 DEF DiskOK
  <2>11. TabOK(x)'
    BY <2>7, <2>8, <2>9, <2>10 DEF TabOK
  <2>12. QED
    BY <2>1, <2>3, <2>5, <2>7, <2>11
<1>4. DOMAIN tab' = Tab
  BY <1>1
<1>5. ASSUME NEW t \in Tab PROVE ChanOK(t)' /\ AgreeOK(t)'
  BY <1>1, <1>3 DEF ChanOK, AgreeOK
<1>6. \A t, u \in Tab : t # u => tab'[t].issued \cap tab'[u].issued = {}
  BY <1>3 DEF IndInv
<1>7. QED
  BY <1>2, <1>3, <1>4, <1>5, <1>6 DEF IndInv

(* Another device writes.                                                  *)
LEMMA RemoteWriteKeeps ==
    ASSUME IndInv, NEW e \in Entry, RemoteWrite(e)
    PROVE  IndInv'
<1>1. Grows /\ WorldOK' /\ UNCHANGED <<vault, db, chan, tab, orphans>> /\ server \subseteq server'
  BY DEF RemoteWrite, IndInv, WorldOK, Grows, disk
<1>2. ASSUME NEW t \in Tab PROVE TabOK(tab[t])'
  <2>1. PICK r : r = tab[t]
    OBVIOUS
  <2>2. TabOK(r)'
    BY <1>1, <2>1, GrowKeeps DEF IndInv
  <2>3. tab'[t] = r
    BY <1>1, <2>1
  <2>4. QED
    BY <2>2, <2>3
<1>3. ASSUME NEW t \in Tab PROVE ChanOK(t)'
  BY <1>1 DEF IndInv, ChanOK, Listens
<1>4. ASSUME NEW t \in Tab PROVE AgreeOK(t)'
  <2>1. AllOwed' = AllOwed /\ Coming(t)' = Coming(t) /\ Mem(t)' = Mem(t)
    BY <1>1 DEF AllOwed, Coming, Mem, Owed
  <2>2. QED
    BY <1>1, <2>1 DEF IndInv, AgreeOK
<1>5. QED
  BY <1>1, <1>2, <1>3, <1>4 DEF IndInv

-----------------------------------------------------------------------------
(* The theorems.                                                           *)

(* The invariant holds at the start: no tab has a page.                    *)
LEMMA InitKeeps ==
    ASSUME Init
    PROVE  IndInv
<1>1. PICK p \in Pages : tab = [t \in Tab |-> Blank(p[t])]
  BY DEF Init
<1>2. p \in [Tab -> SUBSET AllCalls] /\ used \in SUBSET Entry
  BY JsConstants DEF Init
<1>3. WorldOK /\ db = {} /\ chan = [t \in Tab |-> <<>>]
  BY DEF Init, WorldOK
<1>4. ASSUME NEW t \in Tab PROVE TabOK(tab[t]) /\ tab[t].store = "none" /\ tab[t].issued = {}
  <2>1. p[t] \in SUBSET AllCalls
    BY <1>2
  <2>2. tab[t] = Blank(p[t])
    BY <1>1
  <2>3. QED
    BY <1>2, <2>1, <2>2, BlankOK
<1>5. ASSUME NEW t \in Tab PROVE ChanOK(t) /\ AgreeOK(t)
  BY <1>3, <1>4 DEF ChanOK, AgreeOK
<1>6. DOMAIN tab = Tab
  BY <1>1
<1>7. QED
  BY <1>3, <1>4, <1>5, <1>6 DEF IndInv

(* Every step keeps it.                                                    *)
LEMMA NextKeeps ==
    ASSUME IndInv, [Next]_vars
    PROVE  IndInv'
<1>1. ASSUME NEW t \in Tab, Upset(t) PROVE IndInv'
  BY <1>1, DropKeeps, CloseCallKeeps, KillKeeps, DestroyKeeps, WriteFailsKeeps, PageFailsKeeps,
     RequestFailsKeeps DEF Upset
<1>2. ASSUME NEW t \in Tab, WriteStep(t) PROVE IndInv'
  BY <1>2, WriteBeginsKeeps, WriteCommitsKeeps, WriteStoresKeeps, WriteSettlesKeeps DEF WriteStep
<1>3. ASSUME NEW t \in Tab, SyncStep(t) PROVE IndInv'
  BY <1>3, QueuedRunsKeeps, SyncTakesKeeps, AnswerRegisterKeeps, AnswerProbeKeeps, AnswerPullKeeps,
     AnswerPushKeeps, AnswerUnknownKeeps, PageCommitsKeeps, PageStoresKeeps DEF SyncStep
<1>4. ASSUME NEW t \in Tab, TabStep(t) PROVE IndInv'
  BY <1>4, ScanKeeps, MakeClientKeeps, DeliverKeeps, DropKeeps, CloseStoreKeeps, ReadFoldsKeeps
     DEF TabStep
<1>5. ASSUME NEW t \in Tab, Call(t) PROVE IndInv'
  BY <1>5, OpenKeeps, SyncCallKeeps, WaitCallKeeps, PutKeeps, ReadBeginsKeeps DEF Call
<1>6. ASSUME UNCHANGED vars PROVE IndInv'
  <2>1. Grows /\ WorldOK' /\ UNCHANGED <<vault, server, db, chan, tab, orphans>>
    BY <1>6 DEF vars, IndInv, WorldOK, Grows
  <2>2. ASSUME NEW t \in Tab PROVE TabOK(tab[t])'
    <3>1. PICK r : r = tab[t]
      OBVIOUS
    <3>2. TabOK(r)'
      BY <2>1, <3>1, GrowKeeps DEF IndInv
    <3>3. tab'[t] = r
      BY <2>1, <3>1
    <3>4. QED
      BY <3>2, <3>3
  <2>3. ASSUME NEW t \in Tab PROVE ChanOK(t)'
    BY <2>1 DEF IndInv, ChanOK, Listens
  <2>4. ASSUME NEW t \in Tab PROVE AgreeOK(t)'
    <3>1. AllOwed' = AllOwed /\ Coming(t)' = Coming(t) /\ Mem(t)' = Mem(t)
      BY <2>1 DEF AllOwed, Coming, Mem, Owed
    <3>2. QED
      BY <2>1, <3>1 DEF IndInv, AgreeOK
  <2>5. QED
    BY <2>1, <2>2, <2>3, <2>4 DEF IndInv
<1>7. QED
  BY <1>1, <1>2, <1>3, <1>4, <1>5, <1>6, RemoteWriteKeeps DEF Next

(* The invariant of the tabs, their database and the server holds in every *)
(* behaviour of the browser client.                                        *)
THEOREM Invariance == Spec => []IndInv
<1>1. Init => IndInv
  BY InitKeeps
<1>2. IndInv /\ [Next]_vars => IndInv'
  BY NextKeeps
<1>3. QED
  BY <1>1, <1>2, PTL DEF Spec

(* No write is lost on its way to the server: a resolved sync() covers the *)
(* writes issued before it, a failed one gives back what it took, and      *)
(* close() lets every queued write reach the database, whatever tabs are   *)
(* killed, requests lost or databases deleted meanwhile.                   *)
THEOREM WritesArrive == Spec => []WritesReach
<1>1. ASSUME IndInv PROVE WritesReach
  <2>1. SyncCovers
    BY <1>1 DEF IndInv, WorldOK, SyncCovers
  <2>2. FastPathKeeps
    <3>1. SUFFICES ASSUME NEW t \in Tab, NEW e \in tab[t].issued \cap Mem(t), vault # "ended"
                   PROVE  e \in server \cup ToSet(tab[t].writes \o tab[t].recent \o tab[t].run.mine)
      BY DEF FastPathKeeps
    <3>2. PICK r : r = tab[t]
      OBVIOUS
    <3>3. TabOK(r) /\ r.writes \in Seq(Entry) /\ r.recent \in Seq(Entry) /\ r.run.mine \in Seq(Entry)
      BY <1>1, <3>2 DEF IndInv, TabOK, TabState, RunState
    <3>4. e \in server \cup ToSet(r.writes) \cup ToSet(r.recent) \cup ToSet(r.run.mine)
      BY <3>1, <3>2, <3>3 DEF TabOK, FastOK, Mem, Held
    <3>5. /\ r.writes \o r.recent \in Seq(Entry)
          /\ ToSet(r.writes \o r.recent) = ToSet(r.writes) \cup ToSet(r.recent)
      BY <3>3, SetFacts
    <3>6. ToSet(r.writes \o r.recent \o r.run.mine) = ToSet(r.writes \o r.recent) \cup ToSet(r.run.mine)
      BY <3>3, <3>5, SetFacts
    <3>7. QED
      BY <3>2, <3>4, <3>5, <3>6
  <2>3. CloseKeepsWrites
    BY <1>1 DEF IndInv, TabOK, DiskOK, CloseKeepsWrites
  <2>4. QED
    BY <2>1, <2>2, <2>3 DEF WritesReach
<1>2. QED
  BY <1>1, Invariance, PTL

(* Tabs of one database hold one set: an open store's memory is committed, *)
(* each row reaches every open tab or is still to be announced to it       *)
(* (save what a tab killed in between took with it), and the cached set    *)
(* hash is that of the set.                                                *)
THEOREM TabsOneSet == Spec => []TabsHoldOneSet
<1>1. ASSUME IndInv PROVE TabsHoldOneSet
  <2>1. MemoryCommitted
    BY <1>1 DEF IndInv, TabOK, DiskOK, MemoryCommitted, Mem, Held
  <2>2. TabsAgree
    <3>1. SUFFICES ASSUME NEW t \in Tab, tab[t].store = "open"
                   PROVE  db \subseteq Mem(t) \cup (UNION ToSet(chan[t])) \cup orphans
                                       \cup (UNION {Unannounced(u) : u \in Tab})
      BY DEF TabsAgree
    <3> DEFINE late == UNION {Unannounced(u) : u \in Tab}
               sent == UNION ToSet(chan[t])
    <3>2. AllOwed \subseteq late
      <4>1. \A u \in Tab : Owed(tab[u]) \subseteq Unannounced(u)
        BY DEF Owed, Unannounced
      <4>2. QED
        BY <4>1 DEF AllOwed
    <3>3. Coming(t) = sent
      BY DEF Coming
    <3>4. db \subseteq Mem(t) \cup Coming(t) \cup orphans \cup AllOwed
      BY <1>1, <3>1 DEF IndInv, AgreeOK
    <3> HIDE DEF late, sent
    <3>5. db \subseteq Mem(t) \cup sent \cup orphans \cup late
      BY <3>2, <3>3, <3>4
    <3>6. QED
      BY <3>5 DEF late, sent
  <2>3. HashFresh
    BY <1>1 DEF IndInv, TabOK, HashOK, HashFresh, Mem, Held
  <2>4. QED
    BY <2>1, <2>2, <2>3 DEF TabsHoldOneSet
<1>2. QED
  BY <1>1, Invariance, PTL

(* What a page shows is current: the view is that of the entries folded so *)
(* far, each once, however reads overlap, and subscribers hear of every    *)
(* change of the store, or are about to.                                   *)
THEOREM PagesStayCurrent == Spec => []PagesCurrent
<1>1. ASSUME IndInv PROVE PagesCurrent
  <2>1. ReadsFoldOnce
    BY <1>1 DEF IndInv, TabOK, ReadsOK, ReadsFoldOnce
  <2>2. NoSilentChange
    BY <1>1 DEF IndInv, TabOK, HeardOK, NoSilentChange
  <2>3. QED
    BY <2>1, <2>2 DEF PagesCurrent
<1>2. QED
  BY <1>1, Invariance, PTL
=============================================================================
