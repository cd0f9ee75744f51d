--------------------------- MODULE KvCommand_proofs ---------------------------
(***************************************************************************)
(* Proofs about KvCommand, for any processes, command lines, chunk size,   *)
(* keys and values, and any number of invocations, faults and entries of   *)
(* other devices.                                                          *)
(***************************************************************************)
EXTENDS KvCommand, FiniteSetTheorems, SequenceTheorems, WellFoundedInduction, TLAPS

-----------------------------------------------------------------------------
(* The inductive invariant.                                                *)

Entry  == [ts: Nat, id: Int, key: Key, val: Value \cup {None}]
Chunks == UNION {[S -> Value] : S \in SUBSET Key}
Pcs    == {"exited", "create", "touch", "load", "print", "write", "open", "read", "put",
           "import", "sync"}
State  == [pc: Pcs, cmd: Command \cup {None}, dev: Device \cup {None}, mem: SUBSET Entry,
           last: Nat, rows: Seq(CsvRow), chunk: Chunks, run: Nat, ok: BOOLEAN]

WorldOK ==
    /\ device \in Device \cup {None} /\ lock \in Proc \cup {None}
    /\ clock \in Nat /\ runs \in Nat /\ session \subseteq Command
    /\ log \subseteq Entry /\ server \subseteq Entry
    /\ IsFiniteSet(log) /\ IsFiniteSet(server)

(* What was written is in the log, with the number of a run; a tombstone   *)
(* was due; and what was printed is the key.                               *)
HistoryOK ==
    /\ \A o \in own : o.e \in log /\ o.run \in 1..runs /\ (o.e.val = None => o.due)
    /\ \A b \in printed : device # None /\ device.rk = b

(* Where a process can be, by its command.                                 *)
WhereOK(r) ==
    /\ r.pc # "exited" => r.run # 0 /\ r.cmd \in Command
    /\ r.pc \in {"create", "touch"} => r.cmd.cmd \in {"init", "pair"}
    /\ r.pc = "load" => r.cmd.cmd \notin {"init", "pair"}
    /\ r.pc = "write" => r.cmd.cmd \in {"set-register-key", "backup", "export"}
    /\ r.pc = "open" =>
          r.cmd.cmd \in {"sync", "get", "put", "del", "import", "ls", "search", "export"}
    /\ r.pc \in {"print", "read"} => r.cmd.cmd # "import"
    /\ r.pc = "put" => r.cmd.cmd \in {"put", "del"}
    /\ r.pc = "import" => r.cmd.cmd = "import"

(* Who may write has the flock, and in memory what is in the log.          *)
LockOK(p, r) ==
    /\ r.pc \in {"put", "import", "sync"} => lock = p
    /\ r.pc \in {"put", "import"} => r.mem = log

(* Keys that were loaded are those of the device.                          *)
KeyOK(r) ==
    r.pc \notin {"exited", "create", "load"} =>
        device # None /\ r.dev \in Device /\ r.dev.rk = device.rk

(* A command has written nothing before its write, and once it exited with *)
(* 0 all it wrote is on the server.                                        *)
WrittenOK(r) ==
    /\ r.pc \notin {"exited", "import", "sync"} => WrittenBy(r.run) = {}
    /\ r.pc = "exited" /\ r.ok => WrittenBy(r.run) \subseteq server
    /\ r.pc = "import" => \A e \in WrittenBy(r.run) : e.ts <= r.last

(* The chunk c of an import is what rows m + 1 to n come to.               *)
ChunkOf(c, rows, m, n) ==
    /\ IsFiniteSet(DOMAIN c) /\ Cardinality(DOMAIN c) <= ImportChunk
    /\ \A i \in (m + 1)..n : Usable(rows[i]) => rows[i][1] \in DOMAIN c
    /\ \A k \in DOMAIN c : \E i \in (m + 1)..n :
          /\ Usable(rows[i]) /\ rows[i] = <<k, c[k]>>
          /\ \A j \in (i + 1)..n : ~(Usable(rows[j]) /\ rows[j][1] = k)

(* What a set of entries shows of each key.                                *)
Shown(W) == {<<e.key, e.val>> : e \in View(W)}

(* An import has written what its first m rows come to, has rows m + 1 to  *)
(* n in its chunk and the others before it; one that failed has written    *)
(* part of that chunk too.                                                 *)
ImportOK(r) ==
    r.cmd # None /\ r.cmd.cmd = "import" =>
        \E m \in 0..Len(r.cmd.rows) :
            /\ \E n \in m..Len(r.cmd.rows) :
                  PartOf(Shown(WrittenBy(r.run)), r.cmd.rows, m, n)
            /\ r.pc # "exited" \/ r.ok => Shown(WrittenBy(r.run)) = LastRows(r.cmd.rows, m)
            /\ r.pc = "exited" /\ r.ok => m = Len(r.cmd.rows)
            /\ r.pc = "sync" => m = Len(r.cmd.rows)
            /\ r.pc \notin {"exited", "sync"} => \E n \in m..Len(r.cmd.rows) :
                  /\ r.rows = SubSeq(r.cmd.rows, n + 1, Len(r.cmd.rows))
                  /\ ChunkOf(r.chunk, r.cmd.rows, m, n)

ProcOK(p, r) ==
    /\ r.run <= runs
    /\ WhereOK(r) /\ LockOK(p, r) /\ KeyOK(r) /\ WrittenOK(r) /\ ImportOK(r)

IndInv ==
    /\ WorldOK /\ HistoryOK
    /\ proc \in [Proc -> State]
    /\ \A p \in Proc : ProcOK(p, proc[p])
    /\ \A p, q \in Proc : p # q /\ proc[p].run # 0 => proc[p].run # proc[q].run

-----------------------------------------------------------------------------
(* Entries and rows.                                                       *)

(* A finite set of integers has a greatest and a least element.            *)
LEMMA Bounds ==
    ASSUME NEW S \in SUBSET Int, IsFiniteSet(S), S # {}
    PROVE  /\ \E x \in S : \A y \in S : x >= y
           /\ \E x \in S : \A y \in S : x <= y
<1> DEFINE Bounded(T) == /\ \E x \in T : \A y \in T : x >= y
                         /\ \E x \in T : \A y \in T : x <= y
           B == {T \in FiniteSubsetsOf(Int) : T # {} /\ ~Bounded(T)}
<1>1. SUFFICES ASSUME B # {} PROVE FALSE
  <2>1. S \in FiniteSubsetsOf(Int)
    BY DEF FiniteSubsetsOf
  <2>2. S \notin B
    BY <1>1
  <2>3. QED
    BY <2>1, <2>2
<1>2. B \subseteq FiniteSubsetsOf(Int)
  OBVIOUS
<1>3. IsWellFoundedOn(StrictSubsetOrdering(Int), FiniteSubsetsOf(Int))
  BY FS_StrictSubsetOrderingWellFounded
<1>4. PICK s \in B : \A r \in B : <<r, s>> \notin StrictSubsetOrdering(Int)
  <2> HIDE DEF B
  <2>1. QED
    BY <1>1, <1>2, <1>3, WFMin
<1>5. s \in SUBSET Int /\ IsFiniteSet(s) /\ s # {} /\ ~Bounded(s)
  BY DEF FiniteSubsetsOf
<1>6. PICK x \in s : TRUE
  BY <1>5
<1> DEFINE t == s \ {x}
<1>7. t \in FiniteSubsetsOf(Int) /\ <<t, s>> \in StrictSubsetOrdering(Int)
  BY <1>5, <1>6, FS_RemoveElement DEF FiniteSubsetsOf, StrictSubsetOrdering
<1>8. t = {} \/ Bounded(t)
  BY <1>4, <1>7
<1>9. CASE t = {}
  <2>1. \A y \in s : y = x
    BY <1>9
  <2>2. x \in Int
    BY <1>5, <1>6
  <2>3. QED
    BY <1>5, <1>6, <2>1, <2>2
<1>10. CASE Bounded(t)
  <2>1. PICK a \in t : \A y \in t : a >= y
    BY <1>10
  <2>2. PICK b \in t : \A y \in t : b <= y
    BY <1>10
  <2>3. x \in Int /\ a \in s /\ b \in s /\ \A y \in s : y \in Int /\ (y = x \/ y \in t)
    BY <1>5, <1>6
  <2> HIDE DEF t
  <2>4. \E z \in s : \A y \in s : z >= y
    <3>1. CASE x >= a
      BY <1>6, <2>1, <2>3, <3>1
    <3>2. CASE ~(x >= a)
      BY <1>6, <2>1, <2>3, <3>2
    <3>3. QED
      BY <3>1, <3>2
  <2>5. \E z \in s : \A y \in s : z <= y
    <3>1. CASE x <= b
      BY <1>6, <2>2, <2>3, <3>1
    <3>2. CASE ~(x <= b)
      BY <1>6, <2>2, <2>3, <3>2
    <3>3. QED
      BY <3>1, <3>2
  <2>6. QED
    BY <1>5, <2>4, <2>5
<1>11. QED
  BY <1>8, <1>9, <1>10

(* Max and Min of such a set are integers.                                 *)
LEMMA MaxMinInt ==
    ASSUME NEW S \in SUBSET Int, IsFiniteSet(S), S # {}
    PROVE  Max(S) \in Int /\ Min(S) \in Int
<1>1. \E x \in S : \A y \in S : x >= y
  BY Bounds
<1>2. \E x \in S : \A y \in S : x <= y
  BY Bounds
<1>3. Max(S) \in S
  BY <1>1 DEF Max
<1>4. Min(S) \in S
  BY <1>2 DEF Min
<1>5. QED
  BY <1>3, <1>4

(* An id before or after those of its date is an integer.                  *)
LEMMA IdsInt ==
    ASSUME WorldOK, NEW ts \in Nat
    PROVE  /\ Ids(ts) \subseteq Int
           /\ Max(Ids(ts)) \in Int /\ Min(Ids(ts)) \in Int
<1> DEFINE D == {f \in log \cup server : f.ts = ts}
           S == {e.id : e \in D}
           g == [e \in D |-> e.id]
<1>1. IsFiniteSet(D)
  <2>1. IsFiniteSet(log \cup server)
    BY FS_Union DEF WorldOK
  <2>2. D \in SUBSET (log \cup server)
    OBVIOUS
  <2>3. QED
    BY <2>1, <2>2, FS_Subset
<1>2. IsFiniteSet(S)
  <2>1. g \in Surjection(D, S)
    <3> HIDE DEF D
    <3>1. QED
      BY DEF Surjection
  <2> HIDE DEF D, S, g
  <2>2. QED
    BY <1>1, <2>1, FS_Surjection
<1>3. S \in SUBSET Int
  BY DEF WorldOK, Entry
<1>4. Ids(ts) = IF S = {} THEN {0} ELSE {Min(S) - 1, Max(S) + 1}
  BY DEF Ids
<1> HIDE DEF S
<1>5. Ids(ts) \in SUBSET Int /\ Ids(ts) # {} /\ IsFiniteSet(Ids(ts))
  <2>1. CASE S = {}
    BY <1>4, <2>1, FS_Singleton
  <2>2. CASE S # {}
    <3>1. Max(S) \in Int /\ Min(S) \in Int
      BY <1>2, <1>3, <2>2, MaxMinInt
    <3>2. IsFiniteSet({Min(S) - 1} \cup {Max(S) + 1})
      BY FS_Singleton, FS_Union
    <3>3. {Min(S) - 1} \cup {Max(S) + 1} = Ids(ts)
      BY <1>4, <2>2
    <3>4. QED
      BY <1>4, <2>2, <3>1, <3>2, <3>3
  <2>3. QED
    BY <2>1, <2>2
<1>6. QED
  BY <1>5, MaxMinInt

(* What a client seals for kvs: an entry of each key, dated after last and *)
(* not after the date it goes on with.                                     *)
LEMMA SealedFacts ==
    ASSUME WorldOK, NEW last \in Nat, NEW kvs, NEW new \in Sealed(last, kvs),
           DOMAIN kvs \subseteq Key, IsFiniteSet(DOMAIN kvs),
           \A k \in DOMAIN kvs : kvs[k] \in Value \cup {None}
    PROVE  /\ new \subseteq Entry /\ IsFiniteSet(new)
           /\ \A e \in new : e.key \in DOMAIN kvs /\ e.val = kvs[e.key] /\ last < e.ts
           /\ \A e, f \in new : e.key = f.key => e = f
           /\ \A k \in DOMAIN kvs : \E e \in new : e.key = k
           /\ NextTs(last, Cardinality(new)) \in Nat
           /\ \A e \in new : e.ts <= NextTs(last, Cardinality(new))
           /\ last <= NextTs(last, Cardinality(new))
<1> DEFINE ks == DOMAIN kvs
           n == Cardinality(ks)
<1>1. n \in Nat
  BY FS_CardinalityType
<1>2. PICK f \in [ks -> 1..n], up \in BOOLEAN :
         new = {[ts |-> NextTs(last, f[k]),
                 id |-> IF up THEN Max(Ids(NextTs(last, f[k]))) ELSE Min(Ids(NextTs(last, f[k]))),
                 key |-> k, val |-> kvs[k]] : k \in ks}
  BY DEF Sealed
<1> DEFINE Seal(k) == [ts |-> NextTs(last, f[k]),
                       id |-> IF up THEN Max(Ids(NextTs(last, f[k])))
                                    ELSE Min(Ids(NextTs(last, f[k]))),
                       key |-> k, val |-> kvs[k]]
<1>3. new = {Seal(k) : k \in ks}
  BY <1>2
<1>4. \A i \in 0..n : /\ NextTs(last, i) \in Nat /\ NextTs(last, i) <= NextTs(last, n)
                      /\ last <= NextTs(last, i) /\ (i # 0 => last < NextTs(last, i))
  BY <1>1 DEF NextTs, WorldOK
<1>5. \A k \in ks : /\ f[k] \in 0..n /\ f[k] # 0
                    /\ Seal(k) \in Entry /\ Seal(k).key = k /\ Seal(k).val = kvs[k]
                    /\ Seal(k).ts = NextTs(last, f[k])
  <2>1. TAKE k \in ks
  <2>2. f[k] \in 0..n /\ f[k] # 0
    BY <1>1, <1>2
  <2>3. NextTs(last, f[k]) \in Nat
    BY <1>4, <2>2
  <2>4. PICK t : t = NextTs(last, f[k])
    OBVIOUS
  <2>5. Max(Ids(t)) \in Int /\ Min(Ids(t)) \in Int
    BY <2>3, <2>4, IdsInt
  <2>6. k \in Key /\ kvs[k] \in Value \cup {None}
    OBVIOUS
  <2>7. QED
    BY <2>2, <2>3, <2>4, <2>5, <2>6 DEF Entry
<1>6. IsFiniteSet(new) /\ Cardinality(new) = n
  <2> HIDE DEF Seal
  <2> DEFINE g == [k \in ks |-> Seal(k)]
  <2>1. g \in Bijection(ks, new)
    <3>1. g \in [ks -> new] /\ \A e \in new : \E k \in ks : g[k] = e
      BY <1>3
    <3>2. \A k, l \in ks : g[k] = g[l] => k = l
      BY <1>5
    <3>3. QED
      BY <3>1, <3>2 DEF Bijection, Injection, Surjection, IsInjective
  <2>2. ExistsBijection(ks, new)
    BY <2>1 DEF ExistsBijection
  <2>3. QED
    BY <2>2, FS_Bijection
<1> HIDE DEF Seal, ks, n
<1>7. new \subseteq Entry
  BY <1>3, <1>5
<1>8. \A e \in new : e.key \in ks /\ e.val = kvs[e.key] /\ last < e.ts /\ e.ts <= NextTs(last, n)
  BY <1>3, <1>4, <1>5
<1>9. \A e, d \in new : e.key = d.key => e = d
  BY <1>3, <1>5
<1>10. \A k \in ks : \E e \in new : e.key = k
  BY <1>3, <1>5
<1>11. NextTs(last, n) \in Nat /\ last <= NextTs(last, n)
  BY <1>1, <1>4
<1>12. QED
  BY <1>6, <1>7, <1>8, <1>9, <1>10, <1>11 DEF ks

(* Entries of distinct keys, dated after those of W, hide those of their   *)
(* keys and no others.                                                     *)
LEMMA ShownAfter ==
    ASSUME NEW W \in SUBSET Entry, NEW N \in SUBSET Entry,
           \A e \in W, f \in N : e.ts < f.ts,
           \A e, f \in N : e.key = f.key => e = f,
           \A e \in N : e.val # None
    PROVE  Shown(W \cup N) =
              {<<e.key, e.val>> : e \in N} \cup {w \in Shown(W) : \A f \in N : f.key # w[1]}
<1>1. \A e \in W \cup N : e.ts \in Nat /\ e.id \in Int
  BY DEF Entry
<1>2. \A e \in N : \A f \in W \cup N : f.key = e.key => ~Before(e, f)
  BY <1>1 DEF Before
<1>3. \A e \in W : \A f \in N : Before(e, f)
  BY DEF Before
<1>4. View(W \cup N) = N \cup {e \in View(W) : \A f \in N : f.key # e.key}
  <2>1. N \subseteq View(W \cup N)
    BY <1>2 DEF View, Winner
  <2>2. ASSUME NEW e \in View(W), \A f \in N : f.key # e.key
        PROVE  e \in View(W \cup N)
    BY <2>2 DEF View, Winner
  <2>3. ASSUME NEW e \in View(W \cup N), e \notin N
        PROVE  e \in View(W) /\ \A f \in N : f.key # e.key
    BY <1>3, <2>3 DEF View, Winner
  <2>4. QED
    BY <2>1, <2>2, <2>3
<1>5. ASSUME NEW V PROVE {<<e.key, e.val>> : e \in {d \in V : \A f \in N : f.key # d.key}}
                         = {w \in {<<e.key, e.val>> : e \in V} : \A f \in N : f.key # w[1]}
  <2> DEFINE Pair(e) == <<e.key, e.val>>
  <2>1. \A e : Pair(e)[1] = e.key
    OBVIOUS
  <2> HIDE DEF Pair
  <2>2. {Pair(e) : e \in {d \in V : \A f \in N : f.key # d.key}}
           = {w \in {Pair(e) : e \in V} : \A f \in N : f.key # w[1]}
    BY <2>1
  <2>3. QED
    BY <2>2 DEF Pair
<1>6. QED
  <2> DEFINE Kept == {e \in View(W) : \A f \in N : f.key # e.key}
  <2>1. Shown(W \cup N) = {<<e.key, e.val>> : e \in N} \cup {<<e.key, e.val>> : e \in Kept}
    <3> HIDE DEF Kept
    <3>1. View(W \cup N) = N \cup Kept
      BY <1>4 DEF Kept
    <3>2. QED
      BY <3>1 DEF Shown
  <2>2. QED
    BY <1>5, <2>1 DEF Shown

(* Rows m + 1 to n take the place of the earlier rows of their keys.       *)
LEMMA RowsAfter ==
    ASSUME NEW rows \in Seq(CsvRow), NEW n \in 0..Len(rows), NEW m \in 0..n,
           NEW c, ChunkOf(c, rows, m, n)
    PROVE  LastRows(rows, n) =
              {<<k, c[k]>> : k \in DOMAIN c} \cup {w \in LastRows(rows, m) : w[1] \notin DOMAIN c}
<1> DEFINE Stands(i, x) == \A j \in (i + 1)..x : ~(Usable(rows[j]) /\ rows[j][1] = rows[i][1])
<1>0. m \in Nat /\ n \in Nat /\ m <= n /\ Len(rows) \in Nat
  OBVIOUS
<1>1. \A x : \A w : w \in LastRows(rows, x) <=>
                    \E i \in 1..x : w = rows[i] /\ Usable(rows[i]) /\ Stands(i, x)
  BY DEF LastRows
<1> HIDE DEF Stands
<1>2. ASSUME NEW k \in DOMAIN c
      PROVE  <<k, c[k]>> \in LastRows(rows, n)
  <2>1. PICK i \in (m + 1)..n :
           /\ Usable(rows[i]) /\ rows[i] = <<k, c[k]>>
           /\ \A j \in (i + 1)..n : ~(Usable(rows[j]) /\ rows[j][1] = k)
    BY DEF ChunkOf
  <2>2. i \in 1..n /\ rows[i][1] = k
    BY <1>0, <2>1
  <2>3. Stands(i, n)
    BY <2>1, <2>2 DEF Stands
  <2>4. QED
    BY <1>1, <2>1, <2>2, <2>3
<1>3. ASSUME NEW w \in LastRows(rows, m), w[1] \notin DOMAIN c
      PROVE  w \in LastRows(rows, n)
  <2>1. PICK i \in 1..m : w = rows[i] /\ Usable(rows[i]) /\ Stands(i, m)
    BY <1>1
  <2>2. Stands(i, n)
    <3>1. SUFFICES ASSUME NEW j \in (i + 1)..n, Usable(rows[j]), rows[j][1] = rows[i][1]
                   PROVE  FALSE
      BY DEF Stands
    <3>2. CASE j <= m
      <4>1. j \in (i + 1)..m
        BY <1>0, <3>2
      <4>2. QED
        BY <2>1, <3>1, <4>1 DEF Stands
    <3>3. CASE ~(j <= m)
      <4>1. j \in (m + 1)..n
        BY <1>0, <3>3
      <4>2. QED
        BY <1>3, <2>1, <3>1, <4>1 DEF ChunkOf
    <3>4. QED
      BY <3>2, <3>3
  <2>3. i \in 1..n
    BY <1>0
  <2>4. QED
    BY <1>1, <2>1, <2>2, <2>3
<1>4. ASSUME NEW w \in LastRows(rows, n)
      PROVE  \/ w \in {<<k, c[k]>> : k \in DOMAIN c}
             \/ w \in LastRows(rows, m) /\ w[1] \notin DOMAIN c
  <2>1. PICK i \in 1..n : w = rows[i] /\ Usable(rows[i]) /\ Stands(i, n)
    BY <1>1
  <2>2. ASSUME w[1] \in DOMAIN c PROVE w \in {<<k, c[k]>> : k \in DOMAIN c}
    <3>1. PICK l \in (m + 1)..n :
             /\ Usable(rows[l]) /\ rows[l] = <<w[1], c[w[1]]>>
             /\ \A j \in (l + 1)..n : ~(Usable(rows[j]) /\ rows[j][1] = w[1])
      BY <2>2 DEF ChunkOf
    <3>2. rows[l][1] = w[1]
      BY <3>1
    <3>3. ~(l \in (i + 1)..n) /\ ~(i \in (l + 1)..n)
      BY <2>1, <3>1, <3>2 DEF Stands
    <3>4. l = i
      BY <1>0, <3>3
    <3>5. QED
      BY <2>1, <2>2, <3>1, <3>4
  <2>3. ASSUME w[1] \notin DOMAIN c PROVE w \in LastRows(rows, m)
    <3>1. ~(i \in (m + 1)..n)
      BY <2>1, <2>3 DEF ChunkOf
    <3>2. i \in 1..m /\ \A j \in (i + 1)..m : j \in (i + 1)..n
      BY <1>0, <3>1
    <3>3. Stands(i, m)
      BY <2>1, <3>2 DEF Stands
    <3>4. QED
      BY <1>1, <2>1, <3>2, <3>3
  <2>4. QED
    BY <2>2, <2>3
<1>5. QED
  BY <1>2, <1>3, <1>4

(* The empty chunk.                                                        *)
LEMMA NoChunk ==
    /\ <<>> \in Chunks
    /\ \A rows : \A n \in Nat : ChunkOf(<<>>, rows, n, n)
<1>1. <<>> \in [{} -> Value] /\ DOMAIN <<>> = {}
  OBVIOUS
<1>2. <<>> \in Chunks
  BY <1>1 DEF Chunks
<1>3. \A n \in Nat : (n + 1)..n = {}
  OBVIOUS
<1>4. Cardinality({}) <= ImportChunk
  BY FS_EmptySet, KvConstants
<1>5. QED
  BY <1>1, <1>2, <1>3, <1>4, FS_EmptySet DEF ChunkOf

(* The whole of a prefix is a part.                                        *)
LEMMA WholePart ==
    ASSUME NEW rows, NEW m \in Nat
    PROVE  PartOf(LastRows(rows, m), rows, m, m)
<1>1. (m + 1)..m = {}
  OBVIOUS
<1>2. {rows[i][1] : i \in {j \in (m + 1)..m : Usable(rows[j])}} = {}
  BY <1>1
<1>3. Cardinality({}) <= ImportChunk
  BY FS_EmptySet, KvConstants
<1>4. QED
  BY <1>2, <1>3 DEF PartOf

(* The parts of a pair.                                                    *)
LEMMA PairParts ==
    ASSUME NEW A, NEW B, NEW x \in A \X B
    PROVE  x = <<x[1], x[2]>> /\ x[1] \in A /\ x[2] \in B
  OBVIOUS

(* chunk[key] = value, or the row is skipped.                              *)
LEMMA RowAdds ==
    ASSUME NEW rows \in Seq(CsvRow), NEW n \in 0..(Len(rows) - 1), NEW m \in 0..n,
           NEW c \in Chunks, ChunkOf(c, rows, m, n), Cardinality(DOMAIN c) < ImportChunk
    PROVE  /\ ~Usable(rows[n + 1]) => ChunkOf(c, rows, m, n + 1)
           /\ Usable(rows[n + 1]) => /\ Row(c, rows[n + 1]) \in Chunks
                                     /\ ChunkOf(Row(c, rows[n + 1]), rows, m, n + 1)
<1>0. m \in Nat /\ n \in Nat /\ m <= n /\ n + 1 \in 1..Len(rows)
  OBVIOUS
<1>1. PICK row : row = rows[n + 1]
  OBVIOUS
<1>2. \A i \in (m + 1)..(n + 1) : i \in (m + 1)..n \/ i = n + 1
  BY <1>0
<1>3. \A i \in (m + 1)..n : i \in (m + 1)..(n + 1)
  BY <1>0
<1>3a. \A i \in (m + 1)..n : \A j \in (i + 1)..(n + 1) : j \in (i + 1)..n \/ j = n + 1
  BY <1>0
<1>4. ASSUME ~Usable(row) PROVE ChunkOf(c, rows, m, n + 1)
  BY <1>1, <1>2, <1>3, <1>3a, <1>4 DEF ChunkOf
<1>5. ASSUME Usable(row)
      PROVE  Row(c, row) \in Chunks /\ ChunkOf(Row(c, row), rows, m, n + 1)
  <2>1. PICK d : d = Row(c, row)
    OBVIOUS
  <2>2. row \in CsvRow /\ row # Malformed
    <3>1. rows[n + 1] \in CsvRow
      BY <1>0, ElementOfSeq
    <3>2. QED
      BY <1>1, <1>5, <3>1 DEF Usable
  <2>3. row[1] \in Key /\ row[2] \in Value /\ row = <<row[1], row[2]>>
    <3>0. row \in (Key \cup {""}) \X (Value \cup {""})
      BY <2>2 DEF CsvRow
    <3>1. row = <<row[1], row[2]>> /\ row[1] \in Key \cup {""} /\ row[2] \in Value \cup {""}
      <4> DEFINE A == Key \cup {""}
                 B == Value \cup {""}
      <4>1. row \in A \X B
        BY <3>0
      <4> HIDE DEF A, B
      <4>2. row = <<row[1], row[2]>> /\ row[1] \in A /\ row[2] \in B
        BY <4>1, PairParts
      <4>3. QED
        BY <4>2 DEF A, B
    <3>2. row[1] # "" /\ row[2] # ""
      BY <1>5 DEF Usable
    <3>3. QED
      BY <3>1, <3>2
  <2>4. PICK S \in SUBSET Key : c \in [S -> Value]
    BY DEF Chunks
  <2>5. /\ DOMAIN d = DOMAIN c \cup {row[1]} /\ d[row[1]] = row[2]
        /\ \A k \in DOMAIN c : k # row[1] => d[k] = c[k]
    BY <2>1 DEF Row
  <2>6. d \in [S \cup {row[1]} -> Value]
    BY <2>1, <2>3, <2>4 DEF Row
  <2>7. d \in Chunks
    BY <2>3, <2>6 DEF Chunks
  <2>8. IsFiniteSet(DOMAIN d) /\ Cardinality(DOMAIN d) <= ImportChunk
    <3>1. IsFiniteSet(DOMAIN c)
      BY DEF ChunkOf
    <3>2. PICK D : D = DOMAIN c
      OBVIOUS
    <3>3. PICK E : E = D \cup {row[1]}
      OBVIOUS
    <3>4. IsFiniteSet(E) /\ (Cardinality(E) = Cardinality(D) \/ Cardinality(E) = Cardinality(D) + 1)
      BY <3>1, <3>2, <3>3, FS_AddElement
    <3>5. Cardinality(D) \in Nat /\ Cardinality(D) < ImportChunk /\ ImportChunk \in Nat
      BY <3>1, <3>2, FS_CardinalityType, KvConstants
    <3>6. IsFiniteSet(E) /\ Cardinality(E) <= ImportChunk
      BY <3>4, <3>5
    <3>7. QED
      BY <2>5, <3>2, <3>3, <3>6
  <2>9. ASSUME NEW i \in (m + 1)..(n + 1), Usable(rows[i])
        PROVE  rows[i][1] \in DOMAIN d
    BY <1>1, <1>2, <2>5, <2>9 DEF ChunkOf
  <2>10. ASSUME NEW k \in DOMAIN d
         PROVE  \E i \in (m + 1)..(n + 1) :
                   /\ Usable(rows[i]) /\ rows[i] = <<k, d[k]>>
                   /\ \A j \in (i + 1)..(n + 1) : ~(Usable(rows[j]) /\ rows[j][1] = k)
    <3>1. CASE k = row[1]
      <4>1. n + 1 \in (m + 1)..(n + 1) /\ ((n + 1) + 1)..(n + 1) = {}
        BY <1>0
      <4>2. rows[n + 1] = <<k, d[k]>> /\ Usable(rows[n + 1])
        BY <1>1, <1>5, <2>3, <2>5, <3>1
      <4>3. QED
        BY <4>1, <4>2
    <3>2. CASE k # row[1]
      <4>1. k \in DOMAIN c /\ d[k] = c[k]
        BY <2>5, <3>2
      <4>2. PICK i \in (m + 1)..n :
               /\ Usable(rows[i]) /\ rows[i] = <<k, c[k]>>
               /\ \A j \in (i + 1)..n : ~(Usable(rows[j]) /\ rows[j][1] = k)
        BY <4>1 DEF ChunkOf
      <4>3. \A j \in (i + 1)..(n + 1) : ~(Usable(rows[j]) /\ rows[j][1] = k)
        BY <1>1, <1>3a, <3>2, <4>2
      <4>4. QED
        BY <1>3, <4>1, <4>2, <4>3
    <3>3. QED
      BY <3>1, <3>2
  <2>11. QED
    BY <2>1, <2>7, <2>8, <2>9, <2>10 DEF ChunkOf
<1>6. QED
  BY <1>1, <1>4, <1>5

-----------------------------------------------------------------------------
(* Steps.                                                                  *)

(* What a step leaves as it is for the processes that do not take it: the  *)
(* key, the lock, what they wrote.                                         *)
Aside(q) ==
    /\ device # None => device' # None /\ device'.rk = device.rk
    /\ lock = q => lock' = q /\ log' = log
    /\ server \subseteq server' /\ runs <= runs'
    /\ \A o \in own' : o \in own \/ o.run # proc[q].run
    /\ own \subseteq own'

(* A process that stands aside is as before.                               *)
LEMMA AsideKeeps ==
    ASSUME IndInv, NEW q \in Proc, Aside(q), runs' \in Nat, NEW r, r = proc[q]
    PROVE  ProcOK(q, r)'
<1>1. ProcOK(q, r) /\ r \in State
  BY DEF IndInv
<1>2. WrittenBy(r.run)' = WrittenBy(r.run)
  BY DEF WrittenBy, Aside
<1>3. r.run \in Nat /\ runs \in Nat
  BY <1>1 DEF State, IndInv, WorldOK
<1>4. (r.run <= runs)' /\ WhereOK(r)
  BY <1>1, <1>3 DEF ProcOK, Aside
<1>5. LockOK(q, r)'
  BY <1>1 DEF ProcOK, LockOK, Aside
<1>6. KeyOK(r)'
  BY <1>1 DEF ProcOK, KeyOK, Aside
<1>7. WrittenOK(r)'
  BY <1>1, <1>2 DEF ProcOK, WrittenOK, Aside
<1>8. ImportOK(r)'
  BY <1>1, <1>2 DEF ProcOK, ImportOK
<1>9. QED
  BY <1>4, <1>5, <1>6, <1>7, <1>8 DEF ProcOK

(* A step of p to x.                                                       *)
LEMMA MoveKeeps ==
    ASSUME IndInv, NEW p \in Proc, NEW x \in State, proc' = [proc EXCEPT ![p] = x],
           WorldOK', HistoryOK', ProcOK(p, x)',
           \A q \in Proc \ {p} : Aside(q),
           x.run = proc[p].run \/ x.run = runs + 1
    PROVE  IndInv'
<1>1. proc \in [Proc -> State] /\ runs' \in Nat /\ runs \in Nat
  BY DEF IndInv, WorldOK
<1>2. proc' \in [Proc -> State] /\ proc'[p] = x /\ \A q \in Proc \ {p} : proc'[q] = proc[q]
  BY <1>1
<1>3. ASSUME NEW q \in Proc PROVE ProcOK(q, proc[q])'
  <2>1. CASE q = p
    BY <1>2, <2>1
  <2>2. CASE q # p
    <3>1. PICK r : r = proc[q]
      OBVIOUS
    <3>2. ProcOK(q, r)'
      BY <1>1, <2>2, <3>1, AsideKeeps
    <3>3. QED
      BY <1>2, <2>2, <3>1, <3>2
  <2>3. QED
    BY <2>1, <2>2
<1>4. \A q \in Proc : proc[q].run \in Nat /\ proc[q].run <= runs
  BY <1>1 DEF IndInv, ProcOK, State
<1>5. ASSUME NEW a \in Proc, NEW b \in Proc, a # b, proc'[a].run # 0
      PROVE  proc'[a].run # proc'[b].run
  <2>1. \A q \in Proc \ {p} : proc[q].run # runs + 1
    BY <1>1, <1>4
  <2>2. \A c, d \in Proc : c # d /\ proc[c].run # 0 => proc[c].run # proc[d].run
    BY DEF IndInv
  <2>3. runs + 1 # 0
    BY <1>1
  <2>4. QED
    BY <1>2, <1>5, <2>1, <2>2, <2>3
<1>6. QED
  BY <1>2, <1>3, <1>5 DEF IndInv

(* A step of no process.                                                   *)
LEMMA StillKeeps ==
    ASSUME IndInv, UNCHANGED proc, WorldOK', HistoryOK', \A q \in Proc : Aside(q)
    PROVE  IndInv'
<1>1. runs' \in Nat
  BY DEF WorldOK
<1>2. ASSUME NEW q \in Proc PROVE ProcOK(q, proc[q])'
  <2>1. PICK r : r = proc[q]
    OBVIOUS
  <2>2. ProcOK(q, r)'
    BY <1>1, <2>1, AsideKeeps
  <2>3. QED
    BY <2>1, <2>2
<1>3. QED
  BY <1>2 DEF IndInv

(* Nothing is written.                                                     *)
NoWrite == UNCHANGED <<log, server, clock, runs, session, own>>

(* What the files may become meanwhile.                                    *)
FilesMay ==
    /\ device' \in Device \cup {None}
    /\ device # None => device' # None /\ device'.rk = device.rk
    /\ \A b \in printed' : b \in printed \/ (device # None /\ b = device.rk)

(* The world after a step that writes nothing.                             *)
LEMMA NoWriteWorld ==
    ASSUME IndInv, NoWrite, FilesMay, lock' \in Proc \cup {None}
    PROVE  WorldOK' /\ HistoryOK'
<1>1. WorldOK'
  BY DEF IndInv, WorldOK, NoWrite, FilesMay
<1>2. HistoryOK'
  BY DEF IndInv, HistoryOK, NoWrite, FilesMay
<1>3. QED
  BY <1>1, <1>2

(* And the other processes.                                                *)
LEMMA NoWriteAside ==
    ASSUME IndInv, NoWrite, FilesMay, NEW q \in Proc, lock = q => lock' = q
    PROVE  Aside(q)
  BY DEF Aside, NoWrite, FilesMay, IndInv, WorldOK

(* A process that goes on, having written nothing.                         *)
LEMMA GoesKeeps ==
    ASSUME IndInv, NoWrite, FilesMay, NEW p \in Proc, NEW x \in State,
           proc' = [proc EXCEPT ![p] = x], x.run = proc[p].run,
           lock' = lock \/ (lock = None /\ lock' = p),
           ProcOK(p, x)'
    PROVE  IndInv'
<1>1. lock' \in Proc \cup {None}
  BY DEF IndInv, WorldOK
<1>2. WorldOK' /\ HistoryOK'
  BY <1>1, NoWriteWorld
<1>3. \A q \in Proc \ {p} : Aside(q)
  BY NoWriteAside, KvConstants
<1>4. QED
  BY <1>2, <1>3, MoveKeeps

(* A process that has exited.                                              *)
LEMMA GoneState ==
    ASSUME IndInv, NEW p \in Proc, NEW ok \in BOOLEAN, Gone(p, ok)
    PROVE  /\ lock' \in Proc \cup {None}
           /\ \A q \in Proc \ {p} : lock = q => lock' = q
           /\ \E x \in State : /\ proc' = [proc EXCEPT ![p] = x]
                               /\ x.pc = "exited" /\ x.cmd = proc[p].cmd
                               /\ x.run = proc[p].run /\ x.ok = ok
<1>1. proc[p] \in State
  BY DEF IndInv
<1>2. PICK x : x = [Out EXCEPT !.cmd = proc[p].cmd, !.run = proc[p].run, !.ok = ok]
  OBVIOUS
<1>3. x = [pc |-> "exited", cmd |-> proc[p].cmd, dev |-> None, mem |-> {}, last |-> 0,
           rows |-> <<>>, chunk |-> <<>>, run |-> proc[p].run, ok |-> ok]
  BY <1>2 DEF Out
<1>4. proc[p].cmd \in Command \cup {None} /\ proc[p].run \in Nat
  BY <1>1 DEF State
<1>5. x \in State
  <2>1. <<>> \in Seq(CsvRow) /\ <<>> \in Chunks
    BY NoChunk
  <2>2. QED
    BY <1>3, <1>4, <2>1 DEF State, Pcs
<1>6. proc' = [proc EXCEPT ![p] = x]
  BY <1>2 DEF Gone
<1>7. x.pc = "exited" /\ x.cmd = proc[p].cmd /\ x.run = proc[p].run /\ x.ok = ok
  BY <1>3
<1>8. lock' \in Proc \cup {None} /\ \A q \in Proc \ {p} : lock = q => lock' = q
  BY DEF Gone, IndInv, WorldOK
<1>9. QED
  BY <1>5, <1>6, <1>7, <1>8

(* An exit is right if what the run wrote is on the server wherever the    *)
(* code is 0, and an import that exits with 0 is at its end.               *)
LEMMA ExitOK ==
    ASSUME IndInv, NEW p \in Proc, proc[p].pc # "exited", NEW x \in State,
           x.pc = "exited", x.cmd = proc[p].cmd, x.run = proc[p].run,
           runs' = runs, own' = own,
           x.ok => /\ WrittenBy(proc[p].run) \subseteq server'
                   /\ proc[p].cmd.cmd = "import" => proc[p].pc = "sync"
    PROVE  ProcOK(p, x)'
<1>1. PICK r : r = proc[p]
  OBVIOUS
<1>2. ProcOK(p, r)
  BY <1>1 DEF IndInv
<1>3. WrittenBy(x.run)' = WrittenBy(r.run)
  BY <1>1 DEF WrittenBy
<1>4. WhereOK(x) /\ LockOK(p, x)' /\ KeyOK(x)' /\ (x.run <= runs)'
  BY <1>1, <1>2 DEF WhereOK, LockOK, KeyOK, ProcOK
<1>5. WrittenOK(x)'
  BY <1>1, <1>3 DEF WrittenOK
<1>6. ImportOK(x)'
  <2>1. SUFFICES ASSUME r.cmd # None, r.cmd.cmd = "import"
                 PROVE  \E m \in 0..Len(r.cmd.rows) :
                           /\ \E n \in m..Len(r.cmd.rows) :
                                 PartOf(Shown(WrittenBy(r.run)), r.cmd.rows, m, n)
                           /\ Shown(WrittenBy(r.run)) = LastRows(r.cmd.rows, m)
                           /\ x.ok => m = Len(r.cmd.rows)
    BY <1>1, <1>3 DEF ImportOK, Shown
  <2>2. QED
    BY <1>1, <1>2, <2>1 DEF ProcOK, ImportOK
<1>7. QED
  BY <1>4, <1>5, <1>6 DEF ProcOK

(* Exits that write nothing: with 0, of a command that has not written.    *)
LEMMA ExitKeeps ==
    ASSUME IndInv, NoWrite, FilesMay, NEW p \in Proc, NEW ok \in BOOLEAN, Gone(p, ok),
           proc[p].pc # "exited",
           ok => proc[p].pc \notin {"import", "sync"} /\ proc[p].cmd.cmd # "import"
    PROVE  IndInv'
<1>1. PICK x \in State : /\ proc' = [proc EXCEPT ![p] = x]
                         /\ x.pc = "exited" /\ x.cmd = proc[p].cmd
                         /\ x.run = proc[p].run /\ x.ok = ok
  BY GoneState
<1>2. WorldOK' /\ HistoryOK'
  BY GoneState, NoWriteWorld
<1>3. \A q \in Proc \ {p} : Aside(q)
  BY GoneState, NoWriteAside
<1>4. ok => WrittenBy(proc[p].run) = {}
  BY DEF IndInv, ProcOK, WrittenOK
<1>5. ProcOK(p, x)'
  BY <1>1, <1>4, ExitOK DEF NoWrite
<1>6. QED
  BY <1>1, <1>2, <1>3, <1>5, MoveKeeps

(* The arguments of the commands.                                          *)
LEMMA Arguments ==
    ASSUME NEW c \in Command
    PROVE  /\ c.cmd \in {"init", "pair-blob", "backup", "sync", "ls", "search", "export", "pair",
                         "set-register-key", "get", "put", "del", "import"}
           /\ c.cmd = "import" => c.rows \in Seq(CsvRow)
           /\ c.cmd = "pair" => c.dev \in Device
           /\ c.cmd = "set-register-key" => c.reg \in RegisterKey
           /\ c.cmd = "put" => c.key \in Key /\ c.val \in Value
           /\ c.cmd = "del" => c.key \in Key /\ c.force \in BOOLEAN
  BY DEF Command

(* A process that is not out has a command.                                *)
LEMMA Running ==
    ASSUME IndInv, NEW p \in Proc, proc[p].pc # "exited"
    PROVE  proc[p] \in State /\ proc[p].cmd \in Command /\ ProcOK(p, proc[p])
  BY DEF IndInv, ProcOK, WhereOK

(* A new invocation.                                                       *)
LEMMA StartKeeps ==
    ASSUME IndInv, NEW p \in Proc, Start(p)
    PROVE  IndInv'
<1>1. PICK c \in session : proc' = [proc EXCEPT ![p] =
          [Out EXCEPT !.cmd = c, !.run = runs + 1,
                      !.rows = IF c.cmd = "import" THEN c.rows ELSE <<>>,
                      !.pc = IF c.cmd \in {"init", "pair"} THEN "create" ELSE "load"]]
  BY DEF Start, Goes
<1>2. PICK x : x = [Out EXCEPT !.cmd = c, !.run = runs + 1,
                      !.rows = IF c.cmd = "import" THEN c.rows ELSE <<>>,
                      !.pc = IF c.cmd \in {"init", "pair"} THEN "create" ELSE "load"]
  OBVIOUS
<1>3. x = [pc |-> IF c.cmd \in {"init", "pair"} THEN "create" ELSE "load", cmd |-> c,
           dev |-> None, mem |-> {}, last |-> 0,
           rows |-> IF c.cmd = "import" THEN c.rows ELSE <<>>,
           chunk |-> <<>>, run |-> runs + 1, ok |-> TRUE]
  BY <1>2 DEF Out
<1>4. c \in Command /\ runs \in Nat /\ runs' = runs + 1
  BY DEF IndInv, WorldOK, Start
<1>5. x \in State
  <2>1. <<>> \in Seq(CsvRow) /\ <<>> \in Chunks
    BY NoChunk
  <2>2. (IF c.cmd = "import" THEN c.rows ELSE <<>>) \in Seq(CsvRow)
    BY <1>4, <2>1, Arguments
  <2>3. (IF c.cmd \in {"init", "pair"} THEN "create" ELSE "load") \in Pcs
    BY DEF Pcs
  <2>4. runs + 1 \in Nat
    BY <1>4
  <2>5. QED
    BY <1>3, <1>4, <2>1, <2>2, <2>3, <2>4 DEF State
<1>6. WorldOK' /\ HistoryOK'
  <2>1. WorldOK'
    BY <1>4 DEF Start, files, IndInv, WorldOK
  <2>2. HistoryOK'
    BY <1>4 DEF Start, files, IndInv, HistoryOK
  <2>3. QED
    BY <2>1, <2>2
<1>7. \A q \in Proc \ {p} : Aside(q)
  BY <1>4 DEF Start, files, Aside
<1>8. /\ x.pc = IF c.cmd \in {"init", "pair"} THEN "create" ELSE "load"
      /\ x.cmd = c /\ x.run = runs + 1 /\ x.chunk = <<>>
      /\ x.rows = IF c.cmd = "import" THEN c.rows ELSE <<>>
  BY <1>3
<1>9. WrittenBy(x.run)' = {}
  <2>1. own' = own /\ \A o \in own : o.run # x.run
    BY <1>4, <1>8 DEF Start, IndInv, HistoryOK
  <2>2. QED
    BY <2>1 DEF WrittenBy
<1>10. WhereOK(x) /\ LockOK(p, x)' /\ KeyOK(x)' /\ WrittenOK(x)' /\ (x.run <= runs)'
  BY <1>4, <1>8, <1>9 DEF WhereOK, LockOK, KeyOK, WrittenOK
<1>11. ImportOK(x)'
  <2>1. SUFFICES ASSUME c.cmd = "import"
                 PROVE  \E m \in 0..Len(c.rows) :
                           /\ Shown({}) = LastRows(c.rows, m)
                           /\ PartOf(Shown({}), c.rows, m, m)
                           /\ \E n \in m..Len(c.rows) :
                                 /\ c.rows = SubSeq(c.rows, n + 1, Len(c.rows))
                                 /\ ChunkOf(<<>>, c.rows, m, n)
    <3>1. Shown(WrittenBy(x.run))' = Shown({})
      BY <1>9 DEF Shown
    <3>2. \A m \in 0..Len(c.rows) : m \in m..Len(c.rows)
      BY <1>4, Arguments
    <3>3. x.pc \notin {"exited", "sync"}
      BY <1>8
    <3>4. QED
      BY <1>8, <3>1, <3>2, <3>3 DEF ImportOK
  <2>2. c.rows \in Seq(CsvRow)
    BY <1>4, <2>1, Arguments
  <2>3. 0 \in 0..Len(c.rows) /\ c.rows = SubSeq(c.rows, 0 + 1, Len(c.rows))
    BY <2>2
  <2>4. Shown({}) = {} /\ LastRows(c.rows, 0) = {}
    BY DEF Shown, View, LastRows
  <2>5. ChunkOf(<<>>, c.rows, 0, 0)
    BY NoChunk
  <2>6. PartOf(Shown({}), c.rows, 0, 0)
    BY <2>4, WholePart
  <2>7. QED
    BY <2>3, <2>4, <2>5, <2>6
<1>12. QED
  BY <1>1, <1>2, <1>5, <1>6, <1>7, <1>8, <1>10, <1>11, MoveKeeps DEF ProcOK

(* The keys init and pair make.                                            *)
LEMMA NewDeviceType ==
    ASSUME IndInv, NEW p \in Proc, proc[p].pc = "create"
    PROVE  NewDevice(p) \in Device /\ NewDevice(p) # None
<1>1. proc[p] \in State /\ proc[p].cmd \in Command /\ proc[p].cmd.cmd \in {"init", "pair"}
  BY Running DEF ProcOK, WhereOK
<1>2. NewDevice(p) \in Device
  BY <1>1, Arguments DEF NewDevice, Is, Device, State
<1>3. QED
  BY <1>2, KvConstants

(* createVault.                                                            *)
LEMMA CreateVaultKeeps ==
    ASSUME IndInv, NEW p \in Proc, CreateVault(p)
    PROVE  IndInv'
<1>1. proc[p].pc = "create" /\ NoWrite /\ UNCHANGED printed
  BY DEF CreateVault, At, NoWrite, world
<1>2. PICK d : d = NewDevice(p)
  OBVIOUS
<1>3. d \in Device /\ d # None
  BY <1>1, <1>2, NewDeviceType
<1>4. CASE device # None /\ Exits(p, FALSE) /\ UNCHANGED device
  <2>1. FilesMay
    BY <1>1, <1>4 DEF FilesMay, IndInv, WorldOK
  <2>2. QED
    BY <1>1, <1>4, <2>1, ExitKeeps DEF Exits
<1>5. CASE device = None /\ Fails(p) /\ device' \in {None, d}
  <2>1. FilesMay
    BY <1>1, <1>3, <1>5 DEF FilesMay, IndInv, WorldOK
  <2>2. QED
    BY <1>1, <1>5, <2>1, ExitKeeps DEF Fails
<1>6. CASE /\ device = None /\ device' = d /\ UNCHANGED lock
           /\ Goes(p, [proc[p] EXCEPT !.pc = "touch", !.dev = d])
  <2>1. PICK r : r = proc[p]
    OBVIOUS
  <2>2. r \in State /\ r.cmd \in Command /\ ProcOK(p, r) /\ r.pc = "create"
    BY <1>1, <2>1, Running
  <2>3. PICK x : x = [r EXCEPT !.pc = "touch", !.dev = d]
    OBVIOUS
  <2>4. /\ x \in State /\ x.pc = "touch" /\ x.dev = d /\ x.cmd = r.cmd /\ x.run = r.run
    BY <1>3, <2>2, <2>3 DEF State, Pcs
  <2>5. FilesMay
    BY <1>1, <1>3, <1>6 DEF FilesMay
  <2>6. WrittenBy(x.run)' = {}
    BY <1>1, <2>2, <2>4 DEF WrittenBy, NoWrite, ProcOK, WrittenOK
  <2>7. x.cmd.cmd \in {"init", "pair"} /\ x.run # 0 /\ x.run <= runs
    BY <2>2, <2>4 DEF ProcOK, WhereOK
  <2>8. ProcOK(p, x)'
    BY <1>1, <1>3, <1>6, <2>2, <2>4, <2>6, <2>7
    DEF ProcOK, WhereOK, LockOK, KeyOK, WrittenOK, ImportOK, NoWrite
  <2>9. QED
    BY <1>1, <1>6, <2>1, <2>3, <2>4, <2>5, <2>8, GoesKeeps DEF Goes
<1>7. QED
  BY <1>2, <1>4, <1>5, <1>6 DEF CreateVault

(* createVault's log and init's blob.                                      *)
LEMMA TouchLogKeeps ==
    ASSUME IndInv, NEW p \in Proc, TouchLog(p)
    PROVE  IndInv'
<1>1. proc[p].pc = "touch" /\ NoWrite /\ UNCHANGED device /\ Gone(p, TRUE)
  BY DEF TouchLog, At, NoWrite, world, files, Exits
<1>2. ProcOK(p, proc[p]) /\ proc[p].cmd.cmd # "import"
  BY <1>1, Running DEF ProcOK, WhereOK
<1>3. FilesMay
  BY <1>1, <1>2 DEF TouchLog, FilesMay, IndInv, WorldOK, ProcOK, KeyOK
<1>4. QED
  BY <1>1, <1>2, <1>3, ExitKeeps

(* runPairBlob.                                                            *)
LEMMA PairBlobKeeps ==
    ASSUME IndInv, NEW p \in Proc, PairBlob(p)
    PROVE  IndInv'
<1>1. proc[p].pc = "print" /\ NoWrite /\ UNCHANGED device /\ Gone(p, TRUE)
  BY DEF PairBlob, At, NoWrite, world, files, Exits
<1>2. ProcOK(p, proc[p]) /\ proc[p].cmd.cmd # "import"
  BY <1>1, Running DEF ProcOK, WhereOK
<1>3. FilesMay
  BY <1>1, <1>2 DEF PairBlob, FilesMay, IndInv, WorldOK, ProcOK, KeyOK
<1>4. QED
  BY <1>1, <1>2, <1>3, ExitKeeps

(* runSetRegisterKey.                                                      *)
LEMMA SetRegisterKeyKeeps ==
    ASSUME IndInv, NEW p \in Proc, SetRegisterKey(p)
    PROVE  /\ IndInv'
           /\ device # None /\ device'.rk = device.rk
           /\ device.reg # None => device'.reg # None
<1>1. /\ proc[p].pc = "write" /\ proc[p].cmd.cmd = "set-register-key"
      /\ NoWrite /\ UNCHANGED printed
  BY DEF SetRegisterKey, At, Is, NoWrite, world
<1>2. PICK d : d = [proc[p].dev EXCEPT !.reg = proc[p].cmd.reg]
  OBVIOUS
<1>3. ProcOK(p, proc[p]) /\ proc[p].cmd \in Command
  BY <1>1, Running
<1>4. device # None /\ proc[p].dev \in Device /\ proc[p].dev.rk = device.rk
  BY <1>1, <1>3 DEF ProcOK, KeyOK
<1>5. proc[p].cmd.reg \in RegisterKey /\ proc[p].cmd.reg # None
  BY <1>1, <1>3, Arguments, KvConstants
<1>6. d \in Device /\ d.rk = device.rk /\ d.reg # None /\ d # None
  BY <1>2, <1>4, <1>5, KvConstants DEF Device
<1>7. device' = device \/ device' = d
  BY <1>2 DEF SetRegisterKey, WriteFile
<1>8. Gone(p, TRUE) \/ Gone(p, FALSE)
  BY DEF SetRegisterKey, WriteFile, Exits, Fails
<1>9. FilesMay
  BY <1>1, <1>4, <1>6, <1>7 DEF FilesMay, IndInv, WorldOK
<1>10. IndInv'
  BY <1>1, <1>8, <1>9, ExitKeeps
<1>11. QED
  BY <1>4, <1>6, <1>7, <1>10

(* A step that writes nothing and ends a command other than import or is   *)
(* a failure.                                                              *)
LEMMA EndsKeeps ==
    ASSUME IndInv, NEW p \in Proc, NEW ok \in BOOLEAN, Gone(p, ok), NoWrite,
           UNCHANGED <<device, printed>>, proc[p].pc # "exited",
           ok => proc[p].pc \notin {"import", "sync"} /\ proc[p].cmd.cmd # "import"
    PROVE  IndInv'
<1>1. FilesMay
  BY DEF FilesMay, IndInv, WorldOK
<1>2. QED
  BY <1>1, ExitKeeps

(* runBackup and runExport.                                                *)
LEMMA WriteOutputKeeps ==
    ASSUME IndInv, NEW p \in Proc, WriteOutput(p)
    PROVE  IndInv'
<1>1. /\ proc[p].pc = "write" /\ proc[p].cmd.cmd \in {"backup", "export"}
      /\ NoWrite /\ UNCHANGED <<device, printed>>
  BY DEF WriteOutput, At, Is, NoWrite, world
<1>2. Gone(p, TRUE) \/ Gone(p, FALSE)
  BY DEF WriteOutput, WriteFile, Exits, Fails
<1>3. QED
  BY <1>1, <1>2, EndsKeeps

(* Reads.                                                                  *)
LEMMA ReadKeeps ==
    ASSUME IndInv, NEW p \in Proc, Get(p) \/ LsOrSearch(p)
    PROVE  IndInv'
<1>1. /\ proc[p].pc = "read" /\ proc[p].cmd.cmd \in {"get", "ls", "search"}
      /\ NoWrite /\ UNCHANGED <<device, printed>>
  BY DEF Get, LsOrSearch, At, Is, NoWrite, world, files
<1>2. \E ok \in BOOLEAN : Gone(p, ok)
  BY DEF Get, LsOrSearch, Exits, Live
<1>3. QED
  BY <1>1, <1>2, EndsKeeps

(* The process is killed.                                                  *)
LEMMA KillKeeps ==
    ASSUME IndInv, NEW p \in Proc, Kill(p)
    PROVE  IndInv'
<1>1. proc[p].pc # "exited" /\ NoWrite /\ UNCHANGED <<device, printed>> /\ Gone(p, FALSE)
  BY DEF Kill, At, NoWrite, world, files, Fails
<1>2. QED
  BY <1>1, EndsKeeps

(* Before its first row, an import is where it was.                        *)
LEMMA ImportStands ==
    ASSUME NEW r, NEW x, ImportOK(r), own' = own, x.cmd = r.cmd, x.run = r.run,
           x.rows = r.rows, x.chunk = r.chunk,
           r.pc \notin {"exited", "sync"}, x.pc \notin {"exited", "sync"}
    PROVE  ImportOK(x)'
<1>1. WrittenBy(x.run)' = WrittenBy(r.run)
  BY DEF WrittenBy
<1>2. QED
  BY <1>1 DEF ImportOK

(* loadDevice.                                                             *)
LEMMA LoadDeviceKeeps ==
    ASSUME IndInv, NEW p \in Proc, LoadDevice(p)
    PROVE  IndInv'
<1>1. proc[p].pc = "load" /\ NoWrite /\ UNCHANGED <<device, printed>>
  BY DEF LoadDevice, At, NoWrite, world, files
<1>2. CASE device = None
  BY <1>1, <1>2, EndsKeeps DEF LoadDevice, Exits
<1>3. CASE device # None
  <2>1. PICK r : r = proc[p]
    OBVIOUS
  <2>2. r \in State /\ r.cmd \in Command /\ ProcOK(p, r) /\ r.pc = "load"
    BY <1>1, <2>1, Running
  <2>3. PICK c : c = CASE r.cmd.cmd \in {"pair-blob"} -> "print"
                       [] r.cmd.cmd \in {"set-register-key", "backup"} -> "write"
                       [] OTHER -> "open"
    OBVIOUS
  <2>4. PICK x : x = [r EXCEPT !.dev = device, !.pc = c]
    OBVIOUS
  <2>5. proc' = [proc EXCEPT ![p] = x] /\ UNCHANGED lock
    BY <1>3, <2>1, <2>3, <2>4 DEF LoadDevice, Goes, Is
  <2>6. /\ c \in {"print", "write", "open"}
        /\ c = "print" => r.cmd.cmd = "pair-blob"
        /\ c = "write" => r.cmd.cmd \in {"set-register-key", "backup"}
        /\ c = "open" => r.cmd.cmd \notin {"pair-blob", "set-register-key", "backup"}
    BY <2>3
  <2>7. device \in Device
    BY <1>3 DEF IndInv, WorldOK
  <2>8. /\ x \in State /\ x.pc = c /\ x.dev = device /\ x.cmd = r.cmd /\ x.run = r.run
        /\ x.rows = r.rows /\ x.chunk = r.chunk
    BY <2>2, <2>4, <2>6, <2>7 DEF State, Pcs
  <2>9. WrittenBy(x.run)' = {}
    BY <1>1, <2>2, <2>8 DEF WrittenBy, NoWrite, ProcOK, WrittenOK
  <2>10. ImportOK(x)'
    BY <1>1, <2>2, <2>6, <2>8, ImportStands DEF ProcOK, NoWrite
  <2>11. WhereOK(x)
    BY <2>2, <2>6, <2>8, Arguments DEF ProcOK, WhereOK
  <2>12. LockOK(p, x)' /\ KeyOK(x)' /\ WrittenOK(x)' /\ (x.run <= runs)'
    BY <1>1, <1>3, <2>2, <2>6, <2>7, <2>8, <2>9 DEF ProcOK, LockOK, KeyOK, WrittenOK, NoWrite
  <2>13. FilesMay
    BY <1>1 DEF FilesMay, IndInv, WorldOK
  <2>14. QED
    BY <1>1, <2>1, <2>5, <2>8, <2>10, <2>11, <2>12, <2>13, GoesKeeps DEF ProcOK
<1>4. QED
  BY <1>2, <1>3

(* openClient.                                                             *)
LEMMA OpenClientKeeps ==
    ASSUME IndInv, NEW p \in Proc, OpenClient(p)
    PROVE  IndInv'
<1>1. proc[p].pc = "open" /\ NoWrite /\ UNCHANGED <<device, printed>>
  BY DEF OpenClient, At, NoWrite, world, files
<1>2. CASE lock # None /\ Fails(p)
  BY <1>1, <1>2, EndsKeeps DEF Fails
<1>3. CASE lock = None /\ lock' = p /\ Goes(p, Opened(p, log))
  <2>1. PICK r : r = proc[p]
    OBVIOUS
  <2>2. r \in State /\ r.cmd \in Command /\ ProcOK(p, r) /\ r.pc = "open"
    BY <1>1, <2>1, Running
  <2>3. PICK c : c = CASE r.cmd.cmd \in {"put", "del"} -> "put"
                       [] r.cmd.cmd \in {"import"} -> "import"
                       [] r.cmd.cmd \in {"sync"} -> "sync"
                       [] r.cmd.cmd \in {"export"} -> "write"
                       [] r.cmd.cmd \in {"get", "ls", "search"} -> "read"
    OBVIOUS
  <2>4. PICK x : x = [r EXCEPT !.mem = log, !.pc = c]
    OBVIOUS
  <2>5. proc' = [proc EXCEPT ![p] = x]
    BY <1>3, <2>1, <2>3, <2>4 DEF Goes, Opened, Is
  <2>6. r.cmd.cmd \in {"sync", "get", "put", "del", "import", "ls", "search", "export"}
    BY <2>2 DEF ProcOK, WhereOK
  <2>7. /\ c \in {"put", "import", "sync", "write", "read"}
        /\ c = "put" => r.cmd.cmd \in {"put", "del"}
        /\ c = "import" <=> r.cmd.cmd = "import"
        /\ c = "sync" => r.cmd.cmd = "sync"
        /\ c = "write" => r.cmd.cmd = "export"
    BY <2>3, <2>6
  <2>8. log \in SUBSET Entry
    BY DEF IndInv, WorldOK
  <2>9. /\ x \in State /\ x.pc = c /\ x.mem = log /\ x.cmd = r.cmd /\ x.run = r.run
        /\ x.rows = r.rows /\ x.chunk = r.chunk /\ x.dev = r.dev
    BY <2>2, <2>4, <2>7, <2>8 DEF State, Pcs
  <2>10. WrittenBy(x.run)' = {}
    BY <1>1, <2>2, <2>9 DEF WrittenBy, NoWrite, ProcOK, WrittenOK
  <2>11. ImportOK(x)'
    <3>1. CASE c = "sync"
      BY <2>7, <2>9, <3>1 DEF ImportOK
    <3>2. CASE c # "sync"
      BY <1>1, <2>2, <2>7, <2>9, <3>2, ImportStands DEF ProcOK, NoWrite
    <3>3. QED
      BY <3>1, <3>2
  <2>12. WhereOK(x)
    BY <2>2, <2>7, <2>9 DEF ProcOK, WhereOK
  <2>13. LockOK(p, x)' /\ KeyOK(x)' /\ WrittenOK(x)' /\ (x.run <= runs)'
    BY <1>1, <1>3, <2>2, <2>7, <2>9, <2>10 DEF ProcOK, LockOK, KeyOK, WrittenOK, NoWrite
  <2>14. FilesMay
    BY <1>1 DEF FilesMay, IndInv, WorldOK
  <2>15. QED
    BY <1>1, <1>3, <2>1, <2>5, <2>9, <2>11, <2>12, <2>13, <2>14, GoesKeeps DEF ProcOK
<1>4. QED
  BY <1>2, <1>3 DEF OpenClient

(* importCSV reads a row.                                                  *)
LEMMA ImportRowKeeps ==
    ASSUME IndInv, NEW p \in Proc, ImportRow(p)
    PROVE  IndInv'
<1>1. /\ proc[p].pc = "import" /\ proc[p].rows # <<>>
      /\ NoWrite /\ UNCHANGED <<device, printed>>
  BY DEF ImportRow, At, NoWrite, world, files
<1>2. PICK r : r = proc[p]
  OBVIOUS
<1>3. PICK row : row = Head(r.rows)
  OBVIOUS
<1>4. CASE row = Malformed
  BY <1>1, <1>2, <1>3, <1>4, EndsKeeps DEF ImportRow, Exits
<1>5. CASE row # Malformed
  <2>1. r \in State /\ r.cmd \in Command /\ ProcOK(p, r) /\ r.pc = "import" /\ r.cmd.cmd = "import"
    BY <1>1, <1>2, Running DEF ProcOK, WhereOK
  <2>2. PICK rows : rows = r.cmd.rows
    OBVIOUS
  <2>3. rows \in Seq(CsvRow)
    BY <2>1, <2>2, Arguments
  <2>4. PICK m \in 0..Len(rows) :
           /\ Shown(WrittenBy(r.run)) = LastRows(rows, m)
           /\ \E n \in m..Len(rows) : /\ r.rows = SubSeq(rows, n + 1, Len(rows))
                                     /\ ChunkOf(r.chunk, rows, m, n)
    <3>1. r.cmd # None
      BY <2>1, KvConstants
    <3>2. QED
      BY <2>1, <2>2, <3>1 DEF ProcOK, ImportOK
  <2>4a. PICK n \in m..Len(rows) : /\ r.rows = SubSeq(rows, n + 1, Len(rows))
                                   /\ ChunkOf(r.chunk, rows, m, n)
    BY <2>4
  <2>5. /\ n \in 0..(Len(rows) - 1) /\ m \in 0..n /\ row = rows[n + 1]
        /\ Tail(r.rows) = SubSeq(rows, (n + 1) + 1, Len(rows)) /\ n + 1 \in m..Len(rows)
        /\ Tail(r.rows) \in Seq(CsvRow)
    <3>1. r.rows # <<>>
      BY <1>1, <1>2
    <3>2. n \in 0..(Len(rows) - 1) /\ m \in 0..n /\ n + 1 \in m..Len(rows)
      <4>1. n = Len(rows) => SubSeq(rows, n + 1, Len(rows)) = <<>>
        BY <2>3
      <4>2. n # Len(rows)
        BY <2>4a, <3>1, <4>1
      <4>3. QED
        BY <2>3, <4>2
    <3>3. PICK s : s = SubSeq(rows, n + 1, Len(rows))
      OBVIOUS
    <3>4. /\ s \in Seq(CsvRow) /\ Len(s) = Len(rows) - n
          /\ \A i \in 1..Len(s) : s[i] = rows[n + i]
      BY <2>3, <3>2, <3>3, SubSeqProperties
    <3>5. Head(s) = rows[n + 1]
      BY <2>3, <3>2, <3>4
    <3>6. Tail(s) \in Seq(CsvRow) /\ Tail(s) = SubSeq(rows, (n + 1) + 1, Len(rows))
      <4>1. PICK u : u = SubSeq(rows, (n + 1) + 1, Len(rows))
        OBVIOUS
      <4>2. /\ u \in Seq(CsvRow) /\ Len(u) = Len(rows) - n - 1
            /\ \A i \in 1..Len(u) : u[i] = rows[n + 1 + i]
        <5>1. /\ (n + 1) + 1 \in Int /\ Len(rows) \in Int
              /\ \A i \in ((n + 1) + 1)..Len(rows) : rows[i] \in CsvRow
          BY <2>3, <3>2
        <5>2. QED
          BY <2>3, <3>2, <4>1, <5>1, SubSeqProperties
      <4>3. s # <<>>
        BY <2>3, <3>2, <3>4
      <4>4. /\ Tail(s) \in Seq(CsvRow) /\ Len(Tail(s)) = Len(s) - 1
            /\ \A i \in 1..Len(Tail(s)) : Tail(s)[i] = s[i + 1]
        BY <3>4, <4>3, HeadTailProperties
      <4>5. Len(Tail(s)) = Len(u) /\ \A i \in 1..Len(u) : Tail(s)[i] = u[i]
        BY <2>3, <3>2, <3>4, <4>2, <4>4
      <4>6. QED
        BY <4>1, <4>2, <4>4, <4>5, SeqEqual
    <3>7. QED
      BY <1>3, <2>4a, <3>2, <3>3, <3>5, <3>6
  <2>6. r.chunk \in Chunks
    BY <2>1 DEF State
  <2>7. PICK c : c = IF Usable(row) THEN Row(r.chunk, row) ELSE r.chunk
    OBVIOUS
  <2>8. c \in Chunks /\ ChunkOf(c, rows, m, n + 1)
    <3>1. Cardinality(DOMAIN r.chunk) < ImportChunk
      BY <1>2 DEF ImportRow
    <3>2. QED
      BY <2>3, <2>4a, <2>5, <2>6, <2>7, <3>1, RowAdds
  <2>9. PICK x : x = [r EXCEPT !.rows = Tail(r.rows), !.chunk = c]
    OBVIOUS
  <2>10. proc' = [proc EXCEPT ![p] = x] /\ UNCHANGED lock
    <3>1. [[r EXCEPT !.rows = Tail(r.rows)] EXCEPT !.chunk = Row(r.chunk, row)]
            = [r EXCEPT !.rows = Tail(r.rows), !.chunk = Row(r.chunk, row)]
      BY <2>1 DEF State
    <3>2. [r EXCEPT !.rows = Tail(r.rows)] = [r EXCEPT !.rows = Tail(r.rows), !.chunk = r.chunk]
      BY <2>1 DEF State
    <3>3. [r EXCEPT !.rows = Tail(r.rows)].chunk = r.chunk
      BY <2>1 DEF State
    <3>4. QED
      BY <1>2, <1>3, <1>5, <2>7, <2>9, <3>1, <3>2, <3>3 DEF ImportRow, Goes
  <2>11. /\ x \in State /\ x.pc = "import" /\ x.mem = r.mem /\ x.cmd = r.cmd /\ x.run = r.run
         /\ x.rows = Tail(r.rows) /\ x.chunk = c /\ x.dev = r.dev /\ x.last = r.last
    BY <2>1, <2>5, <2>8, <2>9 DEF State
  <2>12. WrittenBy(x.run)' = WrittenBy(r.run)
    BY <1>1, <2>11 DEF WrittenBy, NoWrite
  <2>13. ImportOK(x)'
    <3>1. Shown(WrittenBy(x.run))' = LastRows(rows, m)
      BY <2>4, <2>12 DEF Shown
    <3>2. PartOf(LastRows(rows, m), rows, m, m) /\ m \in m..Len(rows)
      BY <2>3, WholePart
    <3>3. QED
      BY <2>2, <2>5, <2>8, <2>11, <3>1, <3>2 DEF ImportOK
  <2>14. WhereOK(x)
    BY <2>1, <2>11 DEF ProcOK, WhereOK
  <2>15. LockOK(p, x)' /\ KeyOK(x)' /\ WrittenOK(x)' /\ (x.run <= runs)'
    BY <1>1, <2>1, <2>10, <2>11, <2>12 DEF ProcOK, LockOK, KeyOK, WrittenOK, NoWrite
  <2>16. FilesMay
    BY <1>1 DEF FilesMay, IndInv, WorldOK
  <2>17. QED
    BY <1>1, <1>2, <2>10, <2>11, <2>13, <2>14, <2>15, <2>16, GoesKeeps DEF ProcOK
<1>6. QED
  BY <1>4, <1>5

-----------------------------------------------------------------------------
(* Writes.                                                                 *)

(* What own says of a batch of run n: a tombstone in it was due.           *)
NotesOK(notes, new, n) ==
    \A o \in notes : o.e \in new /\ o.run = n /\ (o.e.val = None => o.due)

(* Client.record: the world after a batch of process p.                    *)
LEMMA RecordWorld ==
    ASSUME IndInv, NEW p \in Proc, proc[p].pc \in {"put", "import"},
           NEW new \in SUBSET Entry, IsFiniteSet(new),
           NEW notes, NotesOK(notes, new, proc[p].run),
           log' = log \cup new, own' = own \cup notes, lock' \in Proc \cup {None},
           UNCHANGED <<device, server, clock, runs, session, printed>>
    PROVE  /\ WorldOK' /\ HistoryOK'
           /\ \A q \in Proc \ {p} : Aside(q)
<1>0. PICK n : n = proc[p].run
  OBVIOUS
<1>1. ProcOK(p, proc[p]) /\ n \in 1..runs /\ lock = p /\ runs \in Nat
  BY <1>0, Running DEF ProcOK, WhereOK, LockOK, State, IndInv, WorldOK
<1>2. WorldOK'
  <2>1. IsFiniteSet(log \cup new)
    BY FS_Union DEF IndInv, WorldOK
  <2>2. QED
    BY <2>1 DEF IndInv, WorldOK
<1>3. HistoryOK'
  BY <1>0, <1>1 DEF IndInv, HistoryOK, NotesOK
<1>4. \A q \in Proc \ {p} : Aside(q)
  <2>1. TAKE q \in Proc \ {p}
  <2>2. proc[q].run # n
    BY <1>0, <1>1 DEF IndInv
  <2>3. lock # q
    BY <1>1
  <2>4. QED
    BY <1>0, <1>1, <2>2, <2>3 DEF Aside, NotesOK
<1>5. QED
  BY <1>2, <1>3, <1>4

(* The notes of a batch in own, and when a tombstone is due.               *)
Due(p, k)     == Live(log, k) \/ (Is(p, {"del"}) /\ proc[p].cmd.force)
Notes(p, new) == {[e |-> e, run |-> proc[p].run, due |-> Due(p, e.key)] : e \in new}

(* What the notes of a batch say.                                          *)
LEMMA NotesFacts ==
    ASSUME NEW p, NEW new
    PROVE  /\ \A o \in Notes(p, new) :
                 /\ o.e \in new /\ o.run = proc[p].run
                 /\ Due(p, o.e.key) => o.due
           /\ \A e \in new : \E o \in Notes(p, new) : o.e = e
<1>1. ASSUME NEW e \in new, NEW o, o = [e |-> e, run |-> proc[p].run, due |-> Due(p, e.key)]
      PROVE  o.e = e /\ o.run = proc[p].run /\ (Due(p, e.key) => o.due)
  <2>1. o.e = e /\ o.run = proc[p].run
    BY <1>1
  <2>2. o.due = Due(p, e.key)
    BY <1>1
  <2>3. QED
    BY <2>1, <2>2, Zenon
<1>2. QED
  BY <1>1, ZenonT(60) DEF Notes

(* What is left of a batch is of the batch.                                *)
LEMMA TornPart ==
    ASSUME NEW new, NEW S \in Torn(new), IsFiniteSet(new)
    PROVE  S \subseteq new /\ IsFiniteSet(S)
<1>1. S \subseteq new
  BY DEF Torn
<1>2. QED
  BY <1>1, FS_Subset

(* A record that fails ends the command, with part S of its batch written. *)
LEMMA RecordFails ==
    ASSUME IndInv, NEW p \in Proc, proc[p].pc \in {"put", "import"}, Fails(p),
           NEW S \in SUBSET Entry, IsFiniteSet(S),
           NotesOK(Notes(p, S), S, proc[p].run),
           log' = log \cup S, own' = own \cup Notes(p, S),
           UNCHANGED <<device, server, clock, runs, session, printed>>,
           proc[p].cmd.cmd = "import" =>
              \E m \in 0..Len(proc[p].cmd.rows) : \E n \in m..Len(proc[p].cmd.rows) :
                 PartOf(Shown(WrittenBy(proc[p].run) \cup S), proc[p].cmd.rows, m, n)
    PROVE  IndInv'
<1>1. PICK r : r = proc[p]
  OBVIOUS
<1>2. r \in State /\ r.cmd \in Command /\ ProcOK(p, r)
  BY <1>1, Running
<1>3. Gone(p, FALSE)
  BY DEF Fails
<1>4. PICK x \in State : /\ proc' = [proc EXCEPT ![p] = x]
                         /\ x.pc = "exited" /\ x.cmd = proc[p].cmd
                         /\ x.run = proc[p].run /\ x.ok = FALSE
  BY <1>3, GoneState
<1>5. lock' \in Proc \cup {None}
  BY <1>3, GoneState
<1>6. WorldOK' /\ HistoryOK' /\ \A q \in Proc \ {p} : Aside(q)
  BY <1>5, RecordWorld
<1>7. WrittenBy(r.run)' = WrittenBy(r.run) \cup S
  BY <1>1, NotesFacts DEF WrittenBy
<1>8. WhereOK(x) /\ LockOK(p, x)' /\ KeyOK(x)' /\ WrittenOK(x)' /\ (x.run <= runs)'
  BY <1>1, <1>2, <1>4 DEF WhereOK, LockOK, KeyOK, WrittenOK, ProcOK
<1>9. ImportOK(x)'
  BY <1>1, <1>4, <1>7 DEF ImportOK, Shown
<1>10. QED
  BY <1>4, <1>6, <1>8, <1>9, MoveKeeps DEF ProcOK

(* put and del write one entry.                                            *)
LEMMA OneKeeps ==
    ASSUME IndInv, NEW p \in Proc, proc[p].pc = "put",
           NEW k \in Key, NEW v \in Value \cup {None},
           v = None => Due(p, k),
           Record(p, [j \in {k} |-> v], [proc[p] EXCEPT !.pc = "sync"]),
           UNCHANGED <<device, server, clock, runs, session, printed>>
    PROVE  IndInv'
<1> DEFINE kvs == [j \in {k} |-> v]
<1>1. PICK r : r = proc[p]
  OBVIOUS
<1>2. r \in State /\ r.cmd \in Command /\ ProcOK(p, r) /\ r.pc = "put"
  BY <1>1, Running
<1>3. PICK new \in Sealed(r.last, kvs) :
         \/ /\ Logs(p, new)
            /\ Goes(p, [[r EXCEPT !.pc = "sync"] EXCEPT !.mem = @ \cup new,
                                                       !.last = NextTs(@, Cardinality(new))])
            /\ UNCHANGED lock
         \/ Fails(p) /\ \E S \in Torn(new) : Logs(p, S)
  BY <1>1 DEF Record
<1>4. \A S : Logs(p, S) => log' = log \cup S /\ own' = own \cup Notes(p, S)
  BY DEF Logs, Notes, Due
<1>5. DOMAIN kvs = {k} /\ kvs[k] = v
  OBVIOUS
<1> HIDE DEF kvs
<1>6. /\ new \subseteq Entry /\ IsFiniteSet(new)
      /\ \A e \in new : e.key = k /\ e.val = v
      /\ NextTs(r.last, Cardinality(new)) \in Nat
  <2>1. r.last \in Nat /\ WorldOK
    BY <1>2 DEF State, IndInv
  <2>2. DOMAIN kvs \subseteq Key /\ IsFiniteSet(DOMAIN kvs)
        /\ \A j \in DOMAIN kvs : kvs[j] \in Value \cup {None}
    BY <1>5, FS_Singleton
  <2>3. /\ new \subseteq Entry /\ IsFiniteSet(new)
        /\ \A e \in new : e.key \in DOMAIN kvs /\ e.val = kvs[e.key]
        /\ NextTs(r.last, Cardinality(new)) \in Nat
    BY <2>1, <2>2, SealedFacts
  <2>4. QED
    BY <1>5, <2>3
<1>7. \A S \in SUBSET new : NotesOK(Notes(p, S), S, proc[p].run)
  BY <1>6, NotesFacts DEF NotesOK
<1>8. r.cmd.cmd \in {"put", "del"} /\ r.run # 0 /\ r.run <= runs /\ lock = p
  BY <1>2 DEF ProcOK, WhereOK, LockOK
<1>9. ASSUME Fails(p), NEW S \in Torn(new), Logs(p, S) PROVE IndInv'
  <2>1. S \subseteq new /\ IsFiniteSet(S)
    BY <1>6, TornPart
  <2>2. S \in SUBSET Entry /\ NotesOK(Notes(p, S), S, proc[p].run)
    BY <1>6, <1>7, <2>1
  <2>3. QED
    BY <1>1, <1>4, <1>8, <1>9, <2>1, <2>2, RecordFails
<1>10. ASSUME Logs(p, new),
              Goes(p, [[r EXCEPT !.pc = "sync"] EXCEPT !.mem = @ \cup new,
                                                       !.last = NextTs(@, Cardinality(new))]),
              UNCHANGED lock
       PROVE  IndInv'
  <2>1. log' = log \cup new /\ own' = own \cup Notes(p, new)
    BY <1>4, <1>10
  <2>2. WorldOK' /\ HistoryOK' /\ \A q \in Proc \ {p} : Aside(q)
    <3>1. lock' \in Proc \cup {None} /\ NotesOK(Notes(p, new), new, proc[p].run)
      BY <1>7, <1>10 DEF IndInv, WorldOK
    <3>2. QED
      BY <1>6, <2>1, <3>1, RecordWorld
  <2>3. PICK s : s = NextTs(r.last, Cardinality(new))
    OBVIOUS
  <2>4. PICK x : x = [r EXCEPT !.pc = "sync", !.mem = r.mem \cup new, !.last = s]
    OBVIOUS
  <2>5. proc' = [proc EXCEPT ![p] = x]
    <3>1. [[r EXCEPT !.pc = "sync"] EXCEPT !.mem = @ \cup new, !.last = NextTs(@, Cardinality(new))]
            = x
      BY <1>2, <2>3, <2>4 DEF State
    <3>2. QED
      BY <1>10, <3>1 DEF Goes
  <2>6. x \in State /\ x.pc = "sync" /\ x.cmd = r.cmd /\ x.run = r.run /\ x.dev = r.dev
    BY <1>2, <1>6, <2>3, <2>4 DEF State, Pcs
  <2>7. ProcOK(p, x)'
    BY <1>2, <1>8, <1>10, <2>6 DEF ProcOK, WhereOK, LockOK, KeyOK, WrittenOK, ImportOK
  <2>8. QED
    BY <1>1, <2>2, <2>5, <2>6, <2>7, MoveKeeps
<1>11. QED
  BY <1>3, <1>9, <1>10

(* runPut.                                                                 *)
LEMMA PutKeeps ==
    ASSUME IndInv, NEW p \in Proc, Put(p)
    PROVE  IndInv'
<1>1. /\ proc[p].pc = "put" /\ proc[p].cmd.cmd = "put"
      /\ UNCHANGED <<device, server, clock, runs, session, printed>>
  BY DEF Put, At, Is, files, world
<1>2. proc[p].cmd.key \in Key /\ proc[p].cmd.val \in Value /\ proc[p].cmd.val # None
  BY <1>1, Running, Arguments, KvConstants
<1>3. Record(p, [k \in {proc[p].cmd.key} |-> proc[p].cmd.val], [proc[p] EXCEPT !.pc = "sync"])
  BY DEF Put
<1>4. QED
  BY <1>1, <1>2, <1>3, OneKeeps

(* runDel: what it looked up is what the log holds.                        *)
LEMMA DelKeeps ==
    ASSUME IndInv, NEW p \in Proc, Del(p)
    PROVE  IndInv'
<1>1. /\ proc[p].pc = "put" /\ proc[p].cmd.cmd = "del"
      /\ UNCHANGED <<device, server, clock, runs, session, printed>>
  BY DEF Del, At, Is, files, world
<1>2. PICK c : c = proc[p].cmd
  OBVIOUS
<1>3. c.key \in Key /\ proc[p].mem = log
  BY <1>1, <1>2, Running, Arguments DEF ProcOK, LockOK
<1>4. CASE ~c.force /\ ~Live(proc[p].mem, c.key)
  <2>1. Gone(p, FALSE) /\ NoWrite
    BY <1>1, <1>2, <1>4 DEF Del, Exits, NoWrite
  <2>2. QED
    BY <1>1, <2>1, EndsKeeps
<1>5. CASE ~(~c.force /\ ~Live(proc[p].mem, c.key))
  <2>1. Record(p, [k \in {c.key} |-> None], [proc[p] EXCEPT !.pc = "sync"])
    BY <1>2, <1>5 DEF Del
  <2>2. Due(p, c.key)
    BY <1>1, <1>2, <1>3, <1>5 DEF Is, Due
  <2>3. QED
    BY <1>1, <1>3, <2>1, <2>2, OneKeeps
<1>6. QED
  BY <1>4, <1>5

(* What an import shows once its chunk is written is what its rows so far  *)
(* come to.                                                                *)
LEMMA FlushShows ==
    ASSUME NEW rows \in Seq(CsvRow), NEW n \in 0..Len(rows), NEW m \in 0..n,
           NEW c \in Chunks, ChunkOf(c, rows, m, n),
           NEW W \in SUBSET Entry, Shown(W) = LastRows(rows, m),
           NEW new \in SUBSET Entry,
           \A e \in new : e.key \in DOMAIN c /\ e.val = c[e.key],
           \A e, f \in new : e.key = f.key => e = f,
           \A k \in DOMAIN c : \E e \in new : e.key = k,
           \A e \in W, f \in new : e.ts < f.ts
    PROVE  Shown(W \cup new) = LastRows(rows, n)
<1>1. \A k \in DOMAIN c : c[k] \in Value /\ c[k] # None
  <2>1. PICK S \in SUBSET Key : c \in [S -> Value]
    BY DEF Chunks
  <2>2. QED
    BY <2>1, KvConstants
<1>2. \A e \in new : e.val # None
  BY <1>1
<1>3. Shown(W \cup new) =
         {<<e.key, e.val>> : e \in new} \cup {w \in Shown(W) : \A f \in new : f.key # w[1]}
  BY <1>2, ShownAfter
<1>4. {<<e.key, e.val>> : e \in new} = {<<k, c[k]>> : k \in DOMAIN c}
  <2>1. ASSUME NEW e \in new PROVE <<e.key, e.val>> \in {<<k, c[k]>> : k \in DOMAIN c}
    OBVIOUS
  <2>2. ASSUME NEW k \in DOMAIN c PROVE <<k, c[k]>> \in {<<e.key, e.val>> : e \in new}
    <3>1. PICK e \in new : e.key = k
      OBVIOUS
    <3>2. <<k, c[k]>> = <<e.key, e.val>>
      BY <3>1
    <3>3. QED
      BY <3>2
  <2>3. QED
    BY <2>1, <2>2
<1>5. {w \in Shown(W) : \A f \in new : f.key # w[1]}
         = {w \in LastRows(rows, m) : w[1] \notin DOMAIN c}
  OBVIOUS
<1>6. LastRows(rows, n) =
         {<<k, c[k]>> : k \in DOMAIN c} \cup {w \in LastRows(rows, m) : w[1] \notin DOMAIN c}
  BY RowsAfter
<1>7. QED
  BY <1>3, <1>4, <1>5, <1>6

(* And what it shows with only part S of the chunk written.                *)
LEMMA TornShows ==
    ASSUME NEW rows \in Seq(CsvRow), NEW n \in 0..Len(rows), NEW m \in 0..n,
           NEW c \in Chunks, ChunkOf(c, rows, m, n),
           NEW W \in SUBSET Entry, Shown(W) = LastRows(rows, m),
           NEW S \in SUBSET Entry,
           \A e \in S : e.key \in DOMAIN c /\ e.val = c[e.key],
           \A e, f \in S : e.key = f.key => e = f,
           \A e \in W, f \in S : e.ts < f.ts
    PROVE  PartOf(Shown(W \cup S), rows, m, n)
<1>1. \A e \in S : e.val # None
  <2>1. PICK K \in SUBSET Key : c \in [K -> Value]
    BY DEF Chunks
  <2>2. QED
    BY <2>1, KvConstants
<1>2. Shown(W \cup S) =
         {<<e.key, e.val>> : e \in S} \cup {w \in Shown(W) : \A f \in S : f.key # w[1]}
  BY <1>1, ShownAfter
<1>3. {<<k, c[k]>> : k \in DOMAIN c} \subseteq LastRows(rows, n)
  BY RowsAfter
<1>4. Shown(W \cup S) \subseteq LastRows(rows, m) \cup LastRows(rows, n)
  <2>1. ASSUME NEW e \in S PROVE <<e.key, e.val>> \in LastRows(rows, n)
    BY <1>3
  <2>2. QED
    BY <1>2, <2>1
<1>5. ASSUME NEW w \in LastRows(rows, m) PROVE \E v \in Shown(W \cup S) : v[1] = w[1]
  <2>1. CASE \A f \in S : f.key # w[1]
    BY <1>2, <2>1
  <2>2. ASSUME NEW f \in S, f.key = w[1] PROVE \E v \in Shown(W \cup S) : v[1] = w[1]
    <3>1. PICK v : v = <<f.key, f.val>>
      OBVIOUS
    <3>2. v \in Shown(W \cup S) /\ v[1] = f.key
      BY <1>2, <3>1
    <3>3. QED
      BY <2>2, <3>2
  <2>3. QED
    BY <2>1, <2>2
<1>6. Cardinality({rows[i][1] : i \in {j \in (m + 1)..n : Usable(rows[j])}}) <= ImportChunk
  <2> DEFINE T == {rows[i][1] : i \in {j \in (m + 1)..n : Usable(rows[j])}}
  <2>1. PICK D : D = DOMAIN c
    OBVIOUS
  <2>2. T \subseteq D /\ IsFiniteSet(D) /\ Cardinality(D) <= ImportChunk
    BY <2>1 DEF ChunkOf
  <2> HIDE DEF T
  <2>3. Cardinality(T) <= Cardinality(D) /\ Cardinality(T) \in Nat /\ Cardinality(D) \in Nat
    BY <2>2, FS_Subset, FS_CardinalityType
  <2>4. Cardinality(T) <= ImportChunk
    BY <2>2, <2>3, KvConstants
  <2>5. QED
    BY <2>4 DEF T
<1>7. QED
  BY <1>4, <1>5, <1>6 DEF PartOf

(* importCSV's flush.                                                      *)
LEMMA ImportFlushKeeps ==
    ASSUME IndInv, NEW p \in Proc, ImportFlush(p)
    PROVE  IndInv'
<1>1. /\ proc[p].pc = "import"
      /\ UNCHANGED <<device, server, clock, runs, session, printed>>
  BY DEF ImportFlush, At, files, world
<1>2. PICK r : r = proc[p]
  OBVIOUS
<1>3. r \in State /\ r.cmd \in Command /\ ProcOK(p, r) /\ r.pc = "import" /\ r.cmd.cmd = "import"
  BY <1>1, <1>2, Running DEF ProcOK, WhereOK
<1>4. PICK pc : pc = IF r.rows = <<>> THEN "sync" ELSE "import"
  OBVIOUS
<1>5. PICK new \in Sealed(r.last, r.chunk) :
         \/ /\ Logs(p, new)
            /\ Goes(p, [[r EXCEPT !.chunk = <<>>, !.pc = pc] EXCEPT !.mem = @ \cup new,
                                                      !.last = NextTs(@, Cardinality(new))])
            /\ UNCHANGED lock
         \/ Fails(p) /\ \E S \in Torn(new) : Logs(p, S)
  <2>1. Record(p, r.chunk, [r EXCEPT !.chunk = <<>>, !.pc = pc])
    BY <1>2, <1>4 DEF ImportFlush
  <2>2. QED
    BY <1>2, <2>1 DEF Record
<1>6. \A S : Logs(p, S) => log' = log \cup S /\ own' = own \cup Notes(p, S)
  BY DEF Logs, Notes, Due
<1>7. PICK rows : rows = r.cmd.rows
  OBVIOUS
<1>8. rows \in Seq(CsvRow)
  BY <1>3, <1>7, Arguments
<1>9. PICK m \in 0..Len(rows) :
         /\ Shown(WrittenBy(r.run)) = LastRows(rows, m)
         /\ \E n \in m..Len(rows) : /\ r.rows = SubSeq(rows, n + 1, Len(rows))
                                    /\ ChunkOf(r.chunk, rows, m, n)
  <2>1. r.cmd # None
    BY <1>3, KvConstants
  <2>2. QED
    BY <1>3, <1>7, <2>1 DEF ProcOK, ImportOK
<1>10. PICK n \in m..Len(rows) : /\ r.rows = SubSeq(rows, n + 1, Len(rows))
                                 /\ ChunkOf(r.chunk, rows, m, n)
  BY <1>9
<1>11. n \in 0..Len(rows) /\ m \in 0..n
  BY <1>8
<1>12. PICK c : c = r.chunk
  OBVIOUS
<1>13. /\ c \in Chunks /\ DOMAIN c \subseteq Key /\ IsFiniteSet(DOMAIN c)
       /\ \A k \in DOMAIN c : c[k] \in Value
  <2>1. c \in Chunks
    BY <1>3, <1>12 DEF State
  <2>2. PICK K \in SUBSET Key : c \in [K -> Value]
    BY <2>1 DEF Chunks
  <2>3. QED
    BY <1>10, <1>12, <2>1, <2>2 DEF ChunkOf
<1>14. PICK s : s = NextTs(r.last, Cardinality(new))
  OBVIOUS
<1>15. r.last \in Nat /\ WorldOK
  BY <1>3 DEF State, IndInv
<1>16. /\ new \subseteq Entry /\ IsFiniteSet(new)
       /\ \A e \in new : e.key \in DOMAIN c /\ e.val = c[e.key] /\ r.last < e.ts
       /\ \A e, f \in new : e.key = f.key => e = f
       /\ \A k \in DOMAIN c : \E e \in new : e.key = k
       /\ s \in Nat /\ r.last <= s /\ \A e \in new : e.ts <= s
  BY <1>12, <1>13, <1>14, <1>15, SealedFacts
<1>17. PICK W : W = WrittenBy(r.run)
  OBVIOUS
<1>18. W \subseteq Entry /\ \A e \in W : e.ts <= r.last
  <2>1. \A e \in W : e.ts <= r.last
    BY <1>3, <1>17 DEF ProcOK, WrittenOK
  <2>2. W \subseteq log
    BY <1>17 DEF IndInv, HistoryOK, WrittenBy
  <2>3. QED
    BY <2>1, <2>2 DEF IndInv, WorldOK
<1>19. \A e \in W, f \in new : e.ts < f.ts
  <2>1. \A e \in W \cup new : e.ts \in Nat
    BY <1>16, <1>18 DEF Entry
  <2>2. QED
    BY <1>15, <1>16, <1>18, <2>1
<1>20. ChunkOf(c, rows, m, n) /\ Shown(W) = LastRows(rows, m) /\ new \in SUBSET Entry
  BY <1>9, <1>10, <1>12, <1>16, <1>17
<1>21. \A S \in SUBSET new : NotesOK(Notes(p, S), S, proc[p].run)
  <2>1. \A e \in new : e.val # None
    BY <1>13, <1>16, KvConstants
  <2>2. QED
    BY <2>1, NotesFacts DEF NotesOK
<1>22. ASSUME Fails(p), NEW S \in Torn(new), Logs(p, S) PROVE IndInv'
  <2>1. S \subseteq new /\ IsFiniteSet(S)
    BY <1>16, TornPart
  <2>2. S \in SUBSET Entry /\ NotesOK(Notes(p, S), S, proc[p].run)
    BY <1>16, <1>21, <2>1
  <2>3. PartOf(Shown(W \cup S), rows, m, n)
    <3>1. /\ \A e \in S : e.key \in DOMAIN c /\ e.val = c[e.key]
          /\ \A e, f \in S : e.key = f.key => e = f
          /\ \A e \in W, f \in S : e.ts < f.ts
      BY <1>16, <1>19, <2>1
    <3>2. QED
      BY <1>8, <1>11, <1>13, <1>18, <1>20, <2>2, <3>1, TornShows
  <2>4. QED
    BY <1>1, <1>2, <1>6, <1>7, <1>17, <1>22, <2>1, <2>2, <2>3, RecordFails
<1>23. ASSUME Logs(p, new),
              Goes(p, [[r EXCEPT !.chunk = <<>>, !.pc = pc] EXCEPT !.mem = @ \cup new,
                                                      !.last = NextTs(@, Cardinality(new))]),
              UNCHANGED lock
       PROVE  IndInv'
  <2>1. log' = log \cup new /\ own' = own \cup Notes(p, new)
    BY <1>6, <1>23
  <2>2. r.rows = <<>> => n = Len(rows)
    <3>1. PICK t : t = SubSeq(rows, n + 1, Len(rows))
      OBVIOUS
    <3>2. n # Len(rows) => Len(t) # 0
      BY <1>8, <1>11, <3>1
    <3>3. QED
      BY <1>10, <3>1, <3>2
  <2>3. Shown(W \cup new) = LastRows(rows, n)
    <3>1. /\ \A e \in new : e.key \in DOMAIN c /\ e.val = c[e.key]
          /\ \A e, f \in new : e.key = f.key => e = f
          /\ \A k \in DOMAIN c : \E e \in new : e.key = k
      BY <1>16
    <3>2. QED
      BY <1>8, <1>11, <1>13, <1>18, <1>19, <1>20, <3>1, FlushShows
  <2>4. WorldOK' /\ HistoryOK' /\ \A q \in Proc \ {p} : Aside(q)
    <3>1. lock' \in Proc \cup {None} /\ NotesOK(Notes(p, new), new, proc[p].run)
      BY <1>21, <1>23 DEF IndInv, WorldOK
    <3>2. QED
      BY <1>1, <1>16, <2>1, <3>1, RecordWorld
  <2>5. WrittenBy(r.run)' = W \cup new
    BY <1>2, <1>17, <2>1, NotesFacts DEF WrittenBy
  <2>6. PICK x : x = [r EXCEPT !.chunk = <<>>, !.pc = pc, !.mem = r.mem \cup new, !.last = s]
    OBVIOUS
  <2>7. proc' = [proc EXCEPT ![p] = x]
    <3>1. [[r EXCEPT !.chunk = <<>>, !.pc = pc] EXCEPT !.mem = @ \cup new,
                                                       !.last = NextTs(@, Cardinality(new))] = x
      BY <1>3, <1>14, <2>6 DEF State
    <3>2. QED
      BY <1>23, <3>1 DEF Goes
  <2>8. /\ x \in State /\ x.pc = pc /\ x.cmd = r.cmd /\ x.run = r.run /\ x.dev = r.dev
        /\ x.mem = r.mem \cup new /\ x.last = s /\ x.rows = r.rows /\ x.chunk = <<>>
    <3>1. <<>> \in Chunks /\ pc \in Pcs /\ r.mem \cup new \in SUBSET Entry
      BY <1>3, <1>4, <1>16, NoChunk DEF State, Pcs
    <3>2. QED
      BY <1>3, <1>16, <2>6, <3>1 DEF State
  <2>9. r.mem = log /\ lock = p /\ r.run # 0 /\ r.run <= runs
    BY <1>3 DEF ProcOK, WhereOK, LockOK
  <2>10. WhereOK(x) /\ LockOK(p, x)' /\ KeyOK(x)' /\ (x.run <= runs)'
    BY <1>1, <1>3, <1>4, <1>23, <2>1, <2>8, <2>9 DEF ProcOK, WhereOK, LockOK, KeyOK
  <2>11. WrittenOK(x)'
    <3>1. \A e \in W \cup new : e.ts <= s
      <4>1. \A e \in W : e.ts \in Nat
        BY <1>18 DEF Entry
      <4>2. QED
        BY <1>15, <1>16, <1>18, <4>1
    <3>2. x.pc \in {"import", "sync"}
      BY <1>4, <2>8
    <3>3. QED
      BY <2>5, <2>8, <3>1, <3>2 DEF WrittenOK
  <2>12. ImportOK(x)'
    <3>1. ChunkOf(<<>>, rows, n, n) /\ n \in n..Len(rows)
      BY <1>11, NoChunk
    <3>2. x.pc = "sync" => n = Len(rows)
      BY <1>4, <2>2, <2>8
    <3>3. x.pc # "exited"
      BY <1>4, <2>8
    <3>4. Shown(WrittenBy(x.run))' = LastRows(rows, n)
      BY <2>3, <2>5, <2>8 DEF Shown
    <3>5. PartOf(LastRows(rows, n), rows, n, n)
      BY <1>11, WholePart
    <3>6. QED
      BY <1>7, <1>10, <1>11, <2>8, <3>1, <3>2, <3>3, <3>4, <3>5 DEF ImportOK
  <2>13. QED
    BY <1>2, <2>4, <2>7, <2>8, <2>10, <2>11, <2>12, MoveKeeps DEF ProcOK
<1>24. QED
  BY <1>5, <1>22, <1>23

(* syncOnce.                                                               *)
LEMMA SyncOnceKeeps ==
    ASSUME IndInv, NEW p \in Proc, SyncOnce(p)
    PROVE  IndInv'
<1>1. /\ proc[p].pc = "sync" /\ UNCHANGED <<device, clock, session, runs, own, printed>>
  BY DEF SyncOnce, At, files
<1>2. PICK S \in PagesOf(log \ server), T \in PagesOf(server \ log) :
         /\ server' = server \cup S /\ log' = log \cup T
         /\ (server' = log' /\ Gone(p, TRUE)) \/ Gone(p, FALSE)
  BY DEF SyncOnce, Exits, Fails
<1>3. S \subseteq log /\ T \subseteq server
  BY DEF PagesOf
<1>4. PICK ok \in BOOLEAN : Gone(p, ok) /\ (ok => server' = log')
  BY <1>2
<1>5. PICK x \in State : /\ proc' = [proc EXCEPT ![p] = x]
                         /\ x.pc = "exited" /\ x.cmd = proc[p].cmd
                         /\ x.run = proc[p].run /\ x.ok = ok
  BY <1>4, GoneState
<1>6. lock' \in Proc \cup {None} /\ \A q \in Proc \ {p} : lock = q => lock' = q
  BY <1>4, GoneState
<1>7. WorldOK'
  <2>1. IsFiniteSet(server \cup S) /\ IsFiniteSet(log \cup T)
    <3>1. IsFiniteSet(S) /\ IsFiniteSet(T)
      BY <1>3, FS_Subset DEF IndInv, WorldOK
    <3>2. QED
      BY <3>1, FS_Union DEF IndInv, WorldOK
  <2>2. server \cup S \subseteq Entry /\ log \cup T \subseteq Entry
    BY <1>3 DEF IndInv, WorldOK
  <2>3. QED
    BY <1>1, <1>2, <1>6, <2>1, <2>2 DEF IndInv, WorldOK
<1>8. HistoryOK'
  BY <1>1, <1>2 DEF IndInv, HistoryOK
<1>9. \A q \in Proc \ {p} : Aside(q)
  <2>1. lock = p
    BY <1>1 DEF IndInv, ProcOK, LockOK
  <2>2. runs \in Nat
    BY DEF IndInv, WorldOK
  <2>3. QED
    BY <1>1, <1>2, <2>1, <2>2 DEF Aside
<1>10. x.ok => WrittenBy(proc[p].run) \subseteq server'
  BY <1>2, <1>4, <1>5 DEF IndInv, HistoryOK, WrittenBy
<1>11. ProcOK(p, x)'
  BY <1>1, <1>5, <1>10, ExitOK
<1>12. QED
  BY <1>5, <1>7, <1>8, <1>9, <1>11, MoveKeeps

(* The clock, and another device.                                          *)
LEMMA OutsideKeeps ==
    ASSUME IndInv, Tick \/ \E r \in Remote : RemoteWrite(r[1], r[2])
    PROVE  IndInv'
<1>1. CASE Tick
  <2>1. UNCHANGED <<device, log, server, lock, proc, session, runs, own, printed>>
    BY <1>1 DEF Tick, files
  <2>2. WorldOK' /\ HistoryOK' /\ \A q \in Proc : Aside(q)
    BY <1>1, <2>1 DEF Tick, IndInv, WorldOK, HistoryOK, Aside
  <2>3. QED
    BY <2>1, <2>2, StillKeeps
<1>2. ASSUME NEW r \in Remote, RemoteWrite(r[1], r[2]) PROVE IndInv'
  <2>1. UNCHANGED <<device, log, lock, clock, proc, session, runs, own, printed>>
    BY <1>2 DEF RemoteWrite, files
  <2>2. PICK id \in Ids(clock) :
           server' = server \cup {[ts |-> clock, id |-> id, key |-> r[1], val |-> r[2]]}
    BY <1>2 DEF RemoteWrite
  <2>3. PICK e : e = [ts |-> clock, id |-> id, key |-> r[1], val |-> r[2]]
    OBVIOUS
  <2>4. e \in Entry
    <3>1. r[1] \in Key /\ r[2] \in Value \cup {None}
      <4> DEFINE V == Value \cup {None}
      <4>1. r \in Key \X V
        BY KvConstants
      <4> HIDE DEF V
      <4>2. r[1] \in Key /\ r[2] \in V
        BY <4>1, PairParts
      <4>3. QED
        BY <4>2 DEF V
    <3>2. clock \in Nat /\ id \in Int
      BY IdsInt DEF IndInv, WorldOK
    <3>3. QED
      BY <2>3, <3>1, <3>2 DEF Entry
  <2>5. IsFiniteSet(server \cup {e})
    BY FS_AddElement DEF IndInv, WorldOK
  <2>6. WorldOK'
    BY <2>1, <2>2, <2>3, <2>4, <2>5 DEF IndInv, WorldOK
  <2>7. HistoryOK' /\ \A q \in Proc : Aside(q)
    BY <2>1, <2>2 DEF IndInv, WorldOK, HistoryOK, Aside
  <2>8. QED
    BY <2>1, <2>6, <2>7, StillKeeps
<1>3. QED
  BY <1>1, <1>2

-----------------------------------------------------------------------------
(* The theorems.                                                           *)

(* KV_HOME is empty or holds a vault, and nothing runs.                    *)
LEMMA InitInv == ASSUME Init PROVE IndInv
<1>1. WorldOK
  BY FS_EmptySet, KvConstants DEF Init, WorldOK, Device
<1>2. HistoryOK
  BY DEF Init, HistoryOK
<1>3. Out \in State
  <2>1. <<>> \in Chunks /\ <<>> \in Seq(CsvRow)
    BY NoChunk
  <2>2. QED
    BY <2>1 DEF Out, State, Pcs
<1>4. proc = [p \in Proc |-> Out]
  BY DEF Init
<1>5. Out.pc = "exited" /\ Out.cmd = None /\ Out.run = 0
  BY DEF Out
<1>6. WrittenBy(0) = {}
  BY DEF WrittenBy, Init
<1>7. \A p \in Proc : ProcOK(p, Out)
  BY <1>5, <1>6 DEF Init, ProcOK, WhereOK, LockOK, KeyOK, WrittenOK, ImportOK
<1>8. QED
  BY <1>1, <1>2, <1>3, <1>4, <1>5, <1>7 DEF IndInv

(* Every step keeps the invariant.                                         *)
LEMMA InvStep == ASSUME IndInv, [Next]_vars PROVE IndInv'
<1>1. CASE UNCHANGED vars
  <2>1. UNCHANGED proc /\ \A q \in Proc : Aside(q)
    BY <1>1 DEF vars, Aside, IndInv, WorldOK
  <2>2. WorldOK' /\ HistoryOK'
    BY <1>1 DEF vars, IndInv, WorldOK, HistoryOK
  <2>3. QED
    BY <2>1, <2>2, StillKeeps
<1>2. ASSUME NEW p \in Proc, Step(p) PROVE IndInv'
  <2>1. CASE Start(p)
    BY <2>1, StartKeeps
  <2>2. CASE CreateVault(p) \/ TouchLog(p) \/ LoadDevice(p) \/ PairBlob(p) \/ SetRegisterKey(p)
    BY <2>2, CreateVaultKeeps, TouchLogKeeps, LoadDeviceKeeps, PairBlobKeeps, SetRegisterKeyKeeps
  <2>3. CASE WriteOutput(p) \/ OpenClient(p) \/ Get(p) \/ LsOrSearch(p) \/ Kill(p)
    BY <2>3, WriteOutputKeeps, OpenClientKeeps, ReadKeeps, KillKeeps
  <2>4. CASE Put(p) \/ Del(p) \/ ImportRow(p) \/ ImportFlush(p) \/ SyncOnce(p)
    BY <2>4, PutKeeps, DelKeeps, ImportRowKeeps, ImportFlushKeeps, SyncOnceKeeps
  <2>5. QED
    BY <1>2, <2>1, <2>2, <2>3, <2>4 DEF Step
<1>3. QED
  BY <1>1, <1>2, OutsideKeeps DEF Next

(* The invariant holds of every state of the invocations.                  *)
THEOREM Invariance == Spec => []IndInv
<1>1. Init => IndInv
  BY InitInv
<1>2. IndInv /\ [Next]_vars => IndInv'
  BY InvStep
<1>3. QED
  BY <1>1, <1>2, PTL DEF Spec

(* What the invariant says of commands.                                    *)
LEMMA InvCommands == ASSUME IndInv PROVE CommandsExact
<1>1. PrintedIsKey /\ DelOnlyLive
  BY DEF IndInv, HistoryOK, PrintedIsKey, DelOnlyLive
<1>2. ExitZeroSynced
  <2>1. \A n : WrittenBy(n) \subseteq log
    BY DEF IndInv, HistoryOK, WrittenBy
  <2>2. QED
    BY <2>1 DEF IndInv, ProcOK, WrittenOK, ExitZeroSynced, At
<1>3. ImportPrefix
  <2>1. SUFFICES ASSUME NEW p \in Proc, proc[p].cmd # None, proc[p].cmd.cmd = "import"
                 PROVE  \E m \in 0..Len(proc[p].cmd.rows) :
                           \/ /\ Shown(WrittenBy(proc[p].run)) = LastRows(proc[p].cmd.rows, m)
                              /\ proc[p].pc = "exited" /\ proc[p].ok => m = Len(proc[p].cmd.rows)
                           \/ /\ proc[p].pc = "exited" /\ ~proc[p].ok
                              /\ \E n \in m..Len(proc[p].cmd.rows) :
                                    PartOf(Shown(WrittenBy(proc[p].run)), proc[p].cmd.rows, m, n)
    BY DEF ImportPrefix, Is, At, Shown
  <2>2. PICK m \in 0..Len(proc[p].cmd.rows) :
           /\ \E n \in m..Len(proc[p].cmd.rows) :
                 PartOf(Shown(WrittenBy(proc[p].run)), proc[p].cmd.rows, m, n)
           /\ proc[p].pc # "exited" \/ proc[p].ok =>
                 Shown(WrittenBy(proc[p].run)) = LastRows(proc[p].cmd.rows, m)
           /\ proc[p].pc = "exited" /\ proc[p].ok => m = Len(proc[p].cmd.rows)
    BY <2>1 DEF IndInv, ProcOK, ImportOK
  <2>3. QED
    BY <2>2
<1>4. QED
  BY <1>1, <1>2, <1>3 DEF CommandsExact

(* A printed blob is this device's; exit code 0 means that all the run     *)
(* wrote is on the server; an import leaves the state of a prefix of its   *)
(* rows, of all with code 0, and if it fails part of one more chunk; and   *)
(* without -f only a live key is deleted.  For any invocations that        *)
(* overlap, fail and are killed.                                           *)
THEOREM CommandsDoAsTheySay == Spec => []CommandsExact
<1>1. IndInv => CommandsExact
  BY InvCommands
<1>2. QED
  BY <1>1, Invariance, PTL

(* One step neither changes the key nor drops the register key.            *)
LEMMA KeysStep ==
    ASSUME IndInv, [Next]_vars, device # None
    PROVE  device'.rk = device.rk /\ (device.reg # None => device'.reg # None)
<1>1. CASE UNCHANGED device
  BY <1>1
<1>2. ASSUME NEW p \in Proc, SetRegisterKey(p)
      PROVE  device'.rk = device.rk /\ (device.reg # None => device'.reg # None)
  BY <1>2, SetRegisterKeyKeeps
<1>3. ASSUME NEW p \in Proc, CreateVault(p) PROVE UNCHANGED device
  BY <1>3 DEF CreateVault
<1>4. ASSUME NEW p \in Proc, Step(p), ~SetRegisterKey(p), ~CreateVault(p) PROVE UNCHANGED device
  BY <1>4 DEF Step, Start, TouchLog, LoadDevice, PairBlob, WriteOutput, OpenClient, Get,
              LsOrSearch, Put, Del, ImportRow, ImportFlush, SyncOnce, Kill, files
<1>5. QED
  BY <1>1, <1>2, <1>3, <1>4 DEF Next, Tick, RemoteWrite, files, vars

(* A device that has its key keeps it, and its register key, whatever      *)
(* inits, pairs and set-register-keys overlap, fail or die.                *)
THEOREM DeviceKeepsKeys == Spec => KeysStay
<1>1. IndInv /\ [Next]_vars =>
        [device # None => /\ device'.rk = device.rk
                          /\ device.reg # None => device'.reg # None]_vars
  BY KeysStep
<1>2. QED
  BY <1>1, Invariance, PTL DEF Spec, KeysStay
=============================================================================
