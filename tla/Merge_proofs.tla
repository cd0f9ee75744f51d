---------------------------- MODULE Merge_proofs ----------------------------
(***************************************************************************)
(* Proofs about Merge, for any keys, ids and kinds of entry and any bounds *)
(* on the clock and on restarts.                                           *)
(***************************************************************************)
EXTENDS Merge, SequenceTheorems, TLAPS

(* The fields of an entry.                                                 *)
LEMMA EntryFields ==
    ASSUME NEW a \in Entry
    PROVE  a.ts \in Nat /\ a.id \in Nat /\ a.key \in Key /\ a.kind \in Kinds
<1>1. a.ts \in Nat
  BY MergeConstants DEF Entry
<1>2. a.id \in Nat
  BY MergeConstants DEF Entry
<1>3. a.key \in Key /\ a.kind \in Kinds
  BY DEF Entry
<1>4. QED
  BY <1>1, <1>2, <1>3

(* What the history of writes holds.                                       *)
LEMMA OwnFields ==
    ASSUME TypeOK, NEW j \in 1..Len(own)
    PROVE  own[j].e \in Entry /\ own[j].e.ts \in Nat /\ own[j].in \in Nat
<1>1. own[j] \in [e : Entry, in : 0..MaxRestarts]
  BY ElementOfSeq DEF TypeOK
<1>2. own[j].e \in Entry /\ own[j].in \in 0..MaxRestarts
  BY <1>1
<1>3. own[j].in \in Nat
  BY <1>2, MergeConstants
<1>4. QED
  BY <1>2, <1>3, EntryFields

(* Canonical order is a strict total order on entries with different ids.  *)
LEMMA BeforeOrder ==
    ASSUME NEW a \in Entry, NEW b \in Entry, NEW c \in Entry
    PROVE  /\ ~Before(a, a)
           /\ Before(a, b) /\ Before(b, c) => Before(a, c)
           /\ Before(a, b) \/ Before(b, a) \/ a.id = b.id
           /\ ~Before(a, b) /\ ~Before(b, a) => a.id = b.id
<1>1. /\ a.ts \in Nat /\ b.ts \in Nat /\ c.ts \in Nat
      /\ a.id \in Nat /\ b.id \in Nat /\ c.id \in Nat
  BY EntryFields
<1>2. QED
  BY <1>1 DEF Before

(* What InsertAt makes of a sequence.                                      *)
LEMMA InsertFacts ==
    ASSUME NEW S, NEW s \in Seq(S), NEW i \in 1..(Len(s) + 1), NEW x \in S
    PROVE  LET t == InsertAt(s, i, x)
           IN  /\ t \in Seq(S)
               /\ Len(t) = Len(s) + 1
               /\ \A j \in 1..Len(t) :
                     t[j] = IF j < i THEN s[j] ELSE IF j = i THEN x ELSE s[j - 1]
<1> DEFINE front == SubSeq(s, 1, i - 1)
           back == SubSeq(s, i, Len(s))
<1>1. Len(s) \in Nat /\ i \in Nat /\ i >= 1 /\ i <= Len(s) + 1
  OBVIOUS
<1>2. /\ front \in Seq(S) /\ Len(front) = i - 1
      /\ \A j \in 1..(i - 1) : front[j] = s[j]
  BY <1>1
<1>3. /\ back \in Seq(S) /\ Len(back) = Len(s) - i + 1
      /\ \A j \in 1..(Len(s) - i + 1) : back[j] = s[i + j - 1]
  BY <1>1
<1> HIDE DEF front, back
<1>4. /\ front \o <<x>> \in Seq(S) /\ Len(front \o <<x>>) = i
      /\ \A j \in 1..i : (front \o <<x>>)[j] = IF j < i THEN s[j] ELSE x
  BY <1>1, <1>2
<1>5. /\ (front \o <<x>>) \o back \in Seq(S)
      /\ Len((front \o <<x>>) \o back) = Len(s) + 1
      /\ \A j \in 1..(Len(s) + 1) :
            ((front \o <<x>>) \o back)[j] = IF j <= i THEN (front \o <<x>>)[j] ELSE back[j - i]
  <2> DEFINE A == front \o <<x>>
  <2>1. A \in Seq(S) /\ Len(A) = i /\ back \in Seq(S) /\ Len(back) = Len(s) - i + 1
    BY <1>3, <1>4
  <2> HIDE DEF A
  <2>2. /\ A \o back \in Seq(S) /\ Len(A \o back) = Len(A) + Len(back)
        /\ \A j \in 1..(Len(A) + Len(back)) :
              (A \o back)[j] = IF j <= Len(A) THEN A[j] ELSE back[j - Len(A)]
    BY <2>1, ConcatProperties
  <2>3. Len(A) + Len(back) = Len(s) + 1
    BY <1>1, <2>1
  <2>4. /\ A \o back \in Seq(S) /\ Len(A \o back) = Len(s) + 1
        /\ \A j \in 1..(Len(s) + 1) : (A \o back)[j] = IF j <= i THEN A[j] ELSE back[j - i]
    BY <2>1, <2>2, <2>3
  <2>5. QED
    BY <2>4 DEF A
<1>6. InsertAt(s, i, x) = (front \o <<x>>) \o back
  BY DEF InsertAt, front, back
<1>7. ASSUME NEW j \in 1..(Len(s) + 1)
      PROVE  ((front \o <<x>>) \o back)[j] = IF j < i THEN s[j] ELSE IF j = i THEN x ELSE s[j - 1]
  <2>1. CASE j <= i
    BY <1>1, <1>4, <1>5, <2>1
  <2>2. CASE j > i
    <3>1. j - i \in 1..(Len(s) - i + 1)
      BY <1>1, <2>2
    <3>2. back[j - i] = s[i + (j - i) - 1]
      BY <1>3, <3>1
    <3>3. QED
      BY <1>1, <1>5, <2>2, <3>2
  <2>3. j <= i \/ j > i
    BY <1>1
  <2>4. QED
    BY <2>1, <2>2, <2>3
<1>8. QED
  BY <1>5, <1>6, <1>7

-----------------------------------------------------------------------------
(* The empty store of a new client.                                        *)
LEMMA InitInv == Init => IndInv
<1>1. SUFFICES ASSUME Init PROVE IndInv
  OBVIOUS
<1>2. TypeOK
  BY <1>1, MergeConstants DEF Init, TypeOK
<1>3. IdsInv /\ ViewInv /\ IndexCanonical /\ OwnInv /\ LastWriteStands
  BY <1>1 DEF Init, IdsInv, ViewInv, IndexCanonical, OwnInv, LastWriteStands, Opens
<1>4. QED
  BY <1>2, <1>3 DEF IndInv

(* addLocked keeps the index sorted and complete.                          *)
LEMMA AddFacts ==
    ASSUME IndInv, NEW e \in Entry, NewId(e.id), Add(e)
    PROVE  /\ added' \in Seq(Entry) /\ Len(added') = Len(added) + 1
           /\ \A i \in 1..Len(added) : added'[i] = added[i]
           /\ added'[Len(added) + 1] = e
           /\ order' \in Seq(Nat)
           /\ IdsInv'
           /\ IndexCanonical'
<1> DEFINE n == Len(added)
<1>1. added \in Seq(Entry) /\ order \in Seq(Nat) /\ n \in Nat /\ Len(order) = n
  BY DEF IndInv, TypeOK, IndexCanonical
<1>2. /\ added' \in Seq(Entry) /\ Len(added') = n + 1
      /\ \A i \in 1..n : added'[i] = added[i]
      /\ added'[n + 1] = e
  BY <1>1 DEF Add
<1>3. \A i \in 1..n : added[i] \in Entry /\ added[i].id # e.id
  BY <1>1 DEF NewId, Held, ToSet
<1>4. IdsInv'
  BY <1>1, <1>2, <1>3 DEF IndInv, IdsInv
<1>5. PICK i \in 1..(n + 1) : Place(e, i) /\ order' = InsertAt(order, i, n + 1)
  BY <1>1 DEF Add
<1>6. /\ order' \in Seq(Nat)
      /\ Len(order') = n + 1
      /\ \A j \in 1..(n + 1) :
            order'[j] = IF j < i THEN order[j] ELSE IF j = i THEN n + 1 ELSE order[j - 1]
  <2>1. i \in 1..(Len(order) + 1) /\ n + 1 \in Nat
    BY <1>1
  <2>2. QED
    BY <1>1, <1>5, <2>1, InsertFacts
<1> DEFINE at(j) == added[order[j]]
<1>7. \A j \in 1..n : order[j] \in 1..n /\ at(j) \in Entry
  BY <1>1, <1>3 DEF IndInv, IndexCanonical
<1>8. \A j, k \in 1..n : j < k => Before(at(j), at(k))
  BY <1>1 DEF IndInv, IndexCanonical
<1>9. \A j \in 1..(i - 1) : Before(at(j), e)
  <2>1. CASE order = <<>>
    BY <1>1, <1>5, <2>1 DEF Place
  <2>2. CASE order # <<>> /\ Before(added[Last(order)], e)
    <3>1. n >= 1 /\ i = n + 1 /\ Before(at(n), e)
      BY <1>1, <1>5, <2>2 DEF Place, Last
    <3>2. SUFFICES ASSUME NEW j \in 1..(i - 1) PROVE Before(at(j), e)
      OBVIOUS
    <3>3. j \in 1..n /\ n \in 1..n /\ (j = n \/ j < n)
      BY <1>1, <3>1
    <3>4. QED
      BY <1>7, <1>8, <3>1, <3>3, BeforeOrder
  <2>3. CASE order # <<>> /\ ~Before(added[Last(order)], e)
    BY <1>1, <1>5, <2>3 DEF Place
  <2>4. QED
    BY <2>1, <2>2, <2>3
<1>10. \A j \in i..n : Before(e, at(j))
  <2>1. SUFFICES ASSUME NEW j \in i..n PROVE Before(e, at(j))
    OBVIOUS
  <2>2. i \in 1..n /\ j \in 1..n /\ (i = j \/ i < j)
    BY <1>1
  <2>3. ~Before(at(i), e)
    BY <1>1, <1>5, <2>2 DEF Place
  <2>4. Before(e, at(i))
    BY <1>3, <1>7, <2>2, <2>3, BeforeOrder
  <2>5. QED
    BY <1>7, <1>8, <2>2, <2>4, BeforeOrder
<1>11. \A j \in 1..(n + 1) : order'[j] \in 1..(n + 1)
  <2>1. SUFFICES ASSUME NEW j \in 1..(n + 1) PROVE order'[j] \in 1..(n + 1)
    OBVIOUS
  <2>2. CASE j < i
    <3>1. j \in 1..n /\ order'[j] = order[j]
      BY <1>1, <1>6, <2>2
    <3>2. QED
      BY <1>1, <1>7, <3>1
  <2>3. CASE j = i
    BY <1>1, <1>6, <2>3
  <2>4. CASE j > i
    <3>1. j - 1 \in 1..n /\ order'[j] = order[j - 1]
      BY <1>1, <1>6, <2>4
    <3>2. QED
      BY <1>1, <1>7, <3>1
  <2>5. QED
    BY <1>1, <2>2, <2>3, <2>4
<1>12. \A j \in 1..(n + 1) :
          added'[order'[j]] = IF j < i THEN at(j) ELSE IF j = i THEN e ELSE at(j - 1)
  <2>1. SUFFICES ASSUME NEW j \in 1..(n + 1)
                 PROVE  added'[order'[j]] = IF j < i THEN at(j) ELSE IF j = i THEN e ELSE at(j - 1)
    OBVIOUS
  <2>2. CASE j < i
    <3>1. j \in 1..n /\ order'[j] = order[j]
      BY <1>1, <1>6, <2>2
    <3>2. QED
      BY <1>2, <1>7, <2>2, <3>1
  <2>3. CASE j = i
    <3>1. order'[j] = n + 1
      BY <1>1, <1>6, <2>3
    <3>2. QED
      BY <1>1, <1>2, <2>3, <3>1
  <2>4. CASE j > i
    <3>1. j - 1 \in 1..n /\ order'[j] = order[j - 1] /\ ~(j < i) /\ j # i
      BY <1>1, <1>6, <2>4
    <3>2. QED
      BY <1>2, <1>7, <3>1
  <2>5. QED
    BY <1>1, <2>2, <2>3, <2>4
<1>13. ASSUME NEW j \in 1..(n + 1), NEW k \in 1..(n + 1), j < k
       PROVE  Before(added'[order'[j]], added'[order'[k]])
  <2> HIDE DEF at
  <2>1. CASE k < i
    <3>1. j \in 1..n /\ k \in 1..n /\ j < i
      BY <1>1, <1>13, <2>1
    <3>2. QED
      BY <1>8, <1>12, <1>13, <2>1, <3>1
  <2>2. CASE k = i
    <3>1. j \in 1..(i - 1) /\ j < i
      BY <1>1, <1>13, <2>2
    <3>2. QED
      BY <1>9, <1>12, <2>2, <3>1
  <2>3. CASE k > i /\ j < i
    <3>1. j \in 1..n /\ k - 1 \in 1..n /\ j < k - 1
      BY <1>1, <1>13, <2>3
    <3>2. added'[order'[j]] = at(j) /\ added'[order'[k]] = at(k - 1)
      <4>1. ~(k < i) /\ k # i
        BY <1>1, <2>3
      <4>2. j < i
        BY <1>1, <2>3
      <4>3. QED
        BY <1>12, <4>1, <4>2
    <3>3. QED
      BY <1>8, <3>1, <3>2
  <2>4. CASE k > i /\ j = i
    <3>1. k - 1 \in i..n
      BY <1>1, <1>13, <2>4
    <3>2. added'[order'[j]] = e /\ added'[order'[k]] = at(k - 1)
      <4>1. ~(k < i) /\ k # i
        BY <1>1, <2>4
      <4>2. ~(j < i) /\ j = i
        BY <1>1, <2>4
      <4>3. QED
        BY <1>12, <4>1, <4>2
    <3>3. QED
      BY <1>10, <3>1, <3>2
  <2>5. CASE k > i /\ j > i
    <3>1. j - 1 \in 1..n /\ k - 1 \in 1..n /\ j - 1 < k - 1
      BY <1>1, <1>13, <2>5
    <3>2. added'[order'[j]] = at(j - 1) /\ added'[order'[k]] = at(k - 1)
      <4>1. ~(k < i) /\ k # i
        BY <1>1, <2>5
      <4>2. ~(j < i) /\ j # i
        BY <1>1, <2>5
      <4>3. QED
        BY <1>12, <4>1, <4>2
    <3>3. QED
      BY <1>8, <3>1, <3>2
  <2>6. QED
    BY <1>1, <1>13, <2>1, <2>2, <2>3, <2>4, <2>5
<1>14. IndexCanonical'
  BY <1>2, <1>6, <1>11, <1>13 DEF IndexCanonical
<1>15. QED
  BY <1>2, <1>4, <1>6, <1>14

(* Adding an entry leaves the view, of entries folded before, as it is.    *)
LEMMA AddView ==
    ASSUME IndInv, NEW e \in Entry, NewId(e.id), Add(e), UNCHANGED <<view, folded>>
    PROVE  ViewInv'
<1>1. /\ Len(added) \in Nat /\ folded \in Nat /\ folded <= Len(added)
      /\ Len(added') = Len(added) + 1
      /\ \A i \in 1..folded : added'[i] = added[i]
  BY AddFacts DEF IndInv, TypeOK, ViewInv
<1>2. QED
  BY <1>1 DEF IndInv, ViewInv, Opens

(* A write: nextTs dates it after every earlier one of this run.           *)
LEMMA PutInv ==
    ASSUME IndInv, NEW k \in Key, NEW i \in Ids, NEW kind \in Kinds, Put(k, i, kind)
    PROVE  IndInv'
<1> DEFINE e == [ts |-> NextTs, id |-> i, key |-> k, kind |-> kind]
           w == [e |-> e, in |-> restarts]
<1>1. /\ clock \in Nat /\ lastTs \in Nat /\ restarts \in 0..MaxRestarts
      /\ own \in Seq([e : Entry, in : 0..MaxRestarts])
  BY MergeConstants DEF IndInv, TypeOK
<1>2. NextTs \in Nat /\ NextTs > lastTs /\ NextTs <= MaxTs + 1
  BY <1>1 DEF Put, NextTs
<1>3. e \in Entry /\ e.id = i /\ e.ts = NextTs
  BY <1>2, MergeConstants DEF Entry
<1>4. w \in [e : Entry, in : 0..MaxRestarts] /\ w.in = restarts /\ w.e.ts = NextTs
  BY <1>1, <1>3
<1>5. /\ NewId(e.id) /\ Add(e) /\ lastTs' = NextTs
      /\ own' = Append(own, w) /\ UNCHANGED <<clock, view, folded, restarts>>
  BY <1>3 DEF Put
<1> HIDE DEF e, w
<1>6. /\ own' \in Seq([e : Entry, in : 0..MaxRestarts])
      /\ Len(own') = Len(own) + 1 /\ Len(own) \in Nat
      /\ own'[Len(own) + 1] = w
      /\ \A j \in 1..Len(own) : own'[j] = own[j] /\ own[j].e.ts \in Nat /\ own[j].in \in Nat
  <2>1. \A j \in 1..Len(own) : own[j].e.ts \in Nat /\ own[j].in \in Nat
    BY OwnFields DEF IndInv
  <2>2. QED
    BY <1>1, <1>4, <1>5, <2>1
<1>7. added' \in Seq(Entry) /\ order' \in Seq(Nat) /\ IdsInv' /\ IndexCanonical'
  BY <1>3, <1>5, AddFacts
<1>8. TypeOK'
  BY <1>2, <1>5, <1>6, <1>7 DEF IndInv, TypeOK
<1>9. ViewInv'
  BY <1>3, <1>5, AddView
<1>10. OwnInv'
  BY <1>1, <1>2, <1>4, <1>5, <1>6 DEF IndInv, OwnInv
<1>11. LastWriteStands'
  <2>1. \A j \in 1..Len(own) : own[j].in = restarts => own[j].e.ts < NextTs
    <3>1. SUFFICES ASSUME NEW j \in 1..Len(own), own[j].in = restarts PROVE own[j].e.ts < NextTs
      OBVIOUS
    <3>2. own[j].e.ts <= lastTs
      BY <3>1 DEF IndInv, OwnInv
    <3>3. own[j].e.ts \in Nat
      BY <1>6, <3>1
    <3>4. lastTs \in Nat /\ NextTs \in Nat /\ lastTs < NextTs
      BY <1>1, <1>2
    <3>5. QED
      BY <3>2, <3>3, <3>4
  <2>2. SUFFICES ASSUME NEW a \in 1..(Len(own) + 1), NEW b \in 1..(Len(own) + 1),
                        a < b, own'[a].in = own'[b].in
                 PROVE  own'[a].e.ts < own'[b].e.ts
    BY <1>6 DEF LastWriteStands
  <2>3. a \in 1..Len(own) /\ own'[a] = own[a]
    BY <1>6, <2>2
  <2>4. CASE b = Len(own) + 1
    <3>1. own'[b] = w
      BY <1>6, <2>4
    <3>2. QED
      BY <1>4, <2>1, <2>2, <2>3, <3>1
  <2>5. CASE b # Len(own) + 1
    <3>1. b \in 1..Len(own) /\ own'[b] = own[b]
      BY <1>6, <2>5
    <3>2. QED
      BY <2>2, <2>3, <3>1 DEF IndInv, LastWriteStands
  <2>6. QED
    BY <2>4, <2>5
<1>12. QED
  BY <1>7, <1>8, <1>9, <1>10, <1>11 DEF IndInv

(* A pulled entry.                                                         *)
LEMMA PullInv ==
    ASSUME IndInv, NEW e \in Entry, Pull(e)
    PROVE  IndInv'
<1>1. NewId(e.id) /\ Add(e) /\ UNCHANGED <<clock, lastTs, view, folded, restarts, own>>
  BY DEF Pull
<1>2. added' \in Seq(Entry) /\ order' \in Seq(Nat) /\ IdsInv' /\ IndexCanonical'
  BY <1>1, AddFacts
<1>3. ViewInv'
  BY <1>1, AddView
<1>4. TypeOK'
  BY <1>1, <1>2 DEF IndInv, TypeOK
<1>5. OwnInv' /\ LastWriteStands'
  BY <1>1 DEF IndInv, OwnInv, LastWriteStands
<1>6. QED
  BY <1>2, <1>3, <1>4, <1>5 DEF IndInv

(* foldLocked: the newly folded entry takes its key only from an earlier   *)
(* one, so nothing folded comes after the winner.                          *)
LEMMA FoldInv ==
    ASSUME IndInv, Fold
    PROVE  IndInv'
<1> DEFINE e == added[folded + 1]
<1>1. /\ added \in Seq(Entry) /\ folded \in Nat /\ folded < Len(added) /\ folded' = folded + 1
      /\ view \in [Key -> Entry \cup {NoEntry}]
      /\ view' = IF Wins(e) THEN [view EXCEPT ![e.key] = e] ELSE view
      /\ UNCHANGED <<clock, lastTs, added, order, restarts, own>>
  BY DEF IndInv, TypeOK, Fold
<1>2. /\ e \in Entry /\ e.key \in Key /\ e # NoEntry
      /\ \A i \in 1..(folded + 1) : added[i] \in Entry
  <2>1. \A i \in 1..(folded + 1) : i \in 1..Len(added)
    BY <1>1
  <2>2. \A i \in 1..(folded + 1) : added[i] \in Entry
    BY <1>1, <2>1
  <2>3. e \in Entry
    BY <1>1, <2>2
  <2>4. QED
    BY <2>2, <2>3, NoEntryIsNone, EntryFields
<1>3. TypeOK'
  BY <1>1, <1>2 DEF IndInv, TypeOK
<1>4. IdsInv' /\ IndexCanonical' /\ OwnInv' /\ LastWriteStands'
  BY <1>1 DEF IndInv, IdsInv, IndexCanonical, OwnInv, LastWriteStands
<1>5. ASSUME NEW k \in Key
      PROVE  /\ view'[k] = NoEntry => \A i \in 1..(folded + 1) : ~Opens(i, k)
             /\ view'[k] # NoEntry =>
                   /\ \E i \in 1..(folded + 1) : Opens(i, k) /\ view'[k] = added[i]
                   /\ \A i \in 1..(folded + 1) : Opens(i, k) => ~Before(view'[k], added[i])
  <2>1. \A i \in 1..(folded + 1) : i \in 1..folded \/ i = folded + 1
    BY <1>1
  <2>2. /\ view[k] = NoEntry => \A i \in 1..folded : ~Opens(i, k)
        /\ view[k] # NoEntry =>
              /\ \E i \in 1..folded : Opens(i, k) /\ view[k] = added[i]
              /\ \A i \in 1..folded : Opens(i, k) => ~Before(view[k], added[i])
    BY DEF IndInv, ViewInv
  <2>3. Opens(folded + 1, k) <=> e.key = k /\ e.kind # "junk"
    BY DEF Opens
  <2>4. \A i \in 1..folded : i \in 1..(folded + 1)
    BY <1>1
  <2>5. folded + 1 \in 1..(folded + 1)
    BY <1>1
  <2> HIDE DEF e
  <2>6. CASE Wins(e) /\ k = e.key
    <3>1. view'[k] = e /\ e = added[folded + 1]
      BY <1>1, <2>6 DEF e
    <3>2. Opens(folded + 1, k)
      BY <2>3, <2>6 DEF Wins
    <3>3. ASSUME NEW i \in 1..(folded + 1), Opens(i, k) PROVE ~Before(e, added[i])
      <4>1. CASE i = folded + 1
        BY <1>2, <3>1, <4>1, BeforeOrder
      <4>2. CASE i \in 1..folded
        <5>1. view[k] # NoEntry /\ ~Before(view[k], added[i]) /\ Before(view[k], e)
          BY <2>2, <2>6, <3>3, <4>2 DEF Wins
        <5>2. view[k] \in Entry
          BY <1>1, <5>1
        <5>3. QED
          BY <1>2, <5>1, <5>2, BeforeOrder
      <4>3. QED
        BY <2>1, <4>1, <4>2
    <3>4. QED
      BY <1>2, <2>5, <3>1, <3>2, <3>3
  <2>7. CASE Wins(e) /\ k # e.key
    <3>1. view'[k] = view[k] /\ ~Opens(folded + 1, k)
      BY <1>1, <2>3, <2>7
    <3>2. QED
      BY <2>1, <2>2, <2>4, <3>1
  <2>8. CASE ~Wins(e)
    <3>1. view'[k] = view[k]
      BY <1>1, <2>8
    <3>2. Opens(folded + 1, k) => view[k] # NoEntry /\ ~Before(view[k], e)
      BY <2>3, <2>8 DEF Wins
    <3>3. e = added[folded + 1]
      BY DEF e
    <3>4. QED
      BY <2>1, <2>2, <2>4, <3>1, <3>2, <3>3
  <2>9. QED
    BY <2>6, <2>7, <2>8
<1>6. ViewInv'
  <2>1. \A i, k : Opens(i, k)' = Opens(i, k)
    BY <1>1 DEF Opens
  <2>2. \A a, b : Before(a, b)' = Before(a, b)
    BY DEF Before
  <2>3. folded' <= Len(added)'
    BY <1>1
  <2>4. QED
    BY <1>1, <1>5, <2>1, <2>3 DEF ViewInv
<1>7. QED
  BY <1>3, <1>4, <1>6 DEF IndInv

(* The clock, and a restart: the view starts over, and no write is of the  *)
(* new run yet.                                                            *)
LEMMA TimeInv ==
    ASSUME IndInv, Tick \/ Restart
    PROVE  IndInv'
<1>1. CASE Tick
  <2>1. TypeOK' /\ IdsInv' /\ IndexCanonical' /\ OwnInv' /\ LastWriteStands'
    BY <1>1 DEF Tick, IndInv, TypeOK, IdsInv, IndexCanonical, OwnInv, LastWriteStands
  <2>2. ViewInv'
    BY <1>1 DEF Tick, IndInv, ViewInv, Opens
  <2>3. QED
    BY <2>1, <2>2 DEF IndInv
<1>2. CASE Restart
  <2>1. TypeOK'
    BY <1>2, MergeConstants DEF Restart, IndInv, TypeOK
  <2>2. IdsInv' /\ IndexCanonical' /\ LastWriteStands'
    BY <1>2 DEF Restart, IndInv, IdsInv, IndexCanonical, LastWriteStands
  <2>3. ViewInv'
    BY <1>2 DEF Restart, IndInv, TypeOK, ViewInv
  <2>4. OwnInv'
    <3>1. \A i \in 1..Len(own) : own[i].in \in Nat
      BY OwnFields DEF IndInv
    <3>2. restarts \in Nat /\ restarts' = restarts + 1 /\ own' = own
      BY <1>2, MergeConstants DEF Restart, IndInv, TypeOK
    <3>3. QED
      BY <3>1, <3>2 DEF IndInv, OwnInv
  <2>5. QED
    BY <2>1, <2>2, <2>3, <2>4 DEF IndInv
<1>3. QED
  BY <1>1, <1>2

(* The invariant is inductive.                                             *)
THEOREM MergeInvariant == Spec => []IndInv
<1>1. IndInv /\ [Next]_vars => IndInv'
  <2>1. SUFFICES ASSUME IndInv, [Next]_vars PROVE IndInv'
    OBVIOUS
  <2>2. ASSUME NEW e \in Entry, Pull(e) PROVE IndInv'
    BY <2>1, <2>2, PullInv
  <2>3. CASE UNCHANGED vars
    <3>1. TypeOK' /\ IdsInv' /\ IndexCanonical' /\ OwnInv' /\ LastWriteStands'
      BY <2>1, <2>3 DEF vars, IndInv, TypeOK, IdsInv, IndexCanonical, OwnInv, LastWriteStands
    <3>2. ViewInv'
      BY <2>1, <2>3 DEF vars, IndInv, ViewInv, Opens
    <3>3. QED
      BY <3>1, <3>2 DEF IndInv
  <2>4. QED
    BY <2>1, <2>2, <2>3, PutInv, FoldInv, TimeInv DEF Next
<1>2. QED
  BY <1>1, InitInv, PTL DEF Spec

(* What was folded, in whatever order it arrived, is what PROTOCOL.t's     *)
(* Merge makes of it.                                                      *)
LEMMA InvMerge == IndInv => ViewIsMerge
<1>1. SUFFICES ASSUME IndInv, NEW k \in Key
               PROVE  Latest(Folded, k) = IF view[k] = NoEntry THEN {} ELSE {view[k]}
  BY DEF ViewIsMerge
<1>2. /\ added \in Seq(Entry) /\ folded \in Nat /\ folded <= Len(added)
      /\ \A i \in 1..folded : i \in 1..Len(added) /\ added[i] \in Entry
  BY <1>1 DEF IndInv, TypeOK, ViewInv
<1>3. CASE view[k] = NoEntry
  <2>1. \A i \in 1..folded : ~Opens(i, k)
    BY <1>1, <1>3 DEF IndInv, ViewInv
  <2>2. QED
    BY <1>3, <2>1 DEF Latest, Folded, Opens
<1>4. CASE view[k] # NoEntry
  <2>1. PICK j \in 1..folded : Opens(j, k) /\ view[k] = added[j]
    BY <1>1, <1>4 DEF IndInv, ViewInv
  <2>2. \A i \in 1..folded : Opens(i, k) => ~Before(view[k], added[i])
    BY <1>1, <1>4 DEF IndInv, ViewInv
  <2>3. view[k] \in Latest(Folded, k)
    BY <2>1, <2>2 DEF Latest, Folded, Opens
  <2>4. ASSUME NEW e \in Latest(Folded, k) PROVE e = view[k]
    <3>1. PICK i \in 1..folded : e = added[i] /\ Opens(i, k)
      BY DEF Latest, Folded, Opens
    <3>2. ~Before(e, view[k])
      BY <2>1 DEF Latest, Folded, Opens
    <3>3. e.id = view[k].id
      BY <1>2, <2>1, <2>2, <3>1, <3>2, BeforeOrder
    <3>4. i = j
      BY <1>1, <1>2, <2>1, <3>1, <3>3 DEF IndInv, IdsInv
    <3>5. QED
      BY <2>1, <3>1, <3>4
  <2>5. QED
    BY <1>4, <2>3, <2>4
<1>5. QED
  BY <1>3, <1>4

(* The view a client keeps is the last-writer-wins merge of the entries it *)
(* has folded, however they arrived.                                       *)
THEOREM MergeView == Spec => []ViewIsMerge
BY InvMerge, MergeInvariant, PTL

(* The index MemStore keeps is complete and in canonical order.            *)
THEOREM MergeIndex == Spec => []IndexCanonical
<1>1. IndInv => IndexCanonical
  BY DEF IndInv
<1>2. QED
  BY <1>1, MergeInvariant, PTL

(* Within a run of the process, nextTs dates every write after all earlier *)
(* ones.                                                                   *)
THEOREM MergeLastWrite == Spec => []LastWriteStands
<1>1. IndInv => LastWriteStands
  BY DEF IndInv
<1>2. QED
  BY <1>1, MergeInvariant, PTL
=============================================================================
