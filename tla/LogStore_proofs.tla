-------------------------- MODULE LogStore_proofs --------------------------
(***************************************************************************)
(* Proofs about LogStore, for any sets of entries and processes, any set   *)
(* of failing system calls, with and without power loss.                   *)
(***************************************************************************)
EXTENDS LogStore, FiniteSetTheorems, TLAPS

(* Whatever a filesystem keeps of a file read back as c with d on the disk *)
(* keeps their common prefix, and holds only slots of one of them or Torn. *)
LEMMA MixFacts ==
    ASSUME NEW c \in Seq(Slot), NEW d \in Seq(Slot), NEW f \in Mix(c, d)
    PROVE  /\ f \in Seq(Slot)
           /\ \A k \in Nat : (k <= Len(c) /\ k <= Len(d) /\ \A i \in 1..k : d[i] = c[i])
                                => k <= Len(f) /\ \A i \in 1..k : f[i] = c[i]
           /\ Records(f, Len(f)) \subseteq
                Records(c, Len(c)) \cup Records(d, Len(d)) \cup {Torn}
<1> DEFINE Here(g, i) == IF i <= Len(g) THEN {g[i]} ELSE {}
           Choice(i) ==
               IF i <= Len(c) /\ i <= Len(d) /\ c[i] = d[i]
               THEN {c[i]}
               ELSE Here(c, i) \cup Here(d, i) \cup {Torn}
<1>1. PICK n \in 0..(Len(c) + Len(d)) :
         /\ n >= Len(c) \/ n >= Len(d)
         /\ f \in [1..n -> Slot]
         /\ \A i \in 1..n : f[i] \in Choice(i)
  BY DEF Mix
<1>2. n \in Nat /\ f \in Seq(Slot) /\ Len(f) = n
  BY <1>1
<1>3. ASSUME NEW k \in Nat, k <= Len(c), k <= Len(d), \A i \in 1..k : d[i] = c[i]
      PROVE  k <= Len(f) /\ \A i \in 1..k : f[i] = c[i]
  BY <1>1, <1>2, <1>3, SMTT(30)
<1>4. Records(f, Len(f)) \subseteq Records(c, Len(c)) \cup Records(d, Len(d)) \cup {Torn}
  <2>1. SUFFICES ASSUME NEW i \in 1..n
                 PROVE  f[i] \in Records(c, Len(c)) \cup Records(d, Len(d)) \cup {Torn}
    BY <1>2 DEF Records
  <2>2. f[i] \in Choice(i)
    BY <1>1
  <2>3. (i <= Len(c) => c[i] \in Records(c, Len(c))) /\ (i <= Len(d) => d[i] \in Records(d, Len(d)))
    BY DEF Records
  <2>4. QED
    BY <2>2, <2>3
<1>5. QED
  BY <1>2, <1>3, <1>4

(* A write at offset p leaves the slots before it alone and puts its       *)
(* records there.                                                          *)
LEMMA WrittenFacts ==
    ASSUME NEW f \in Seq(Slot), NEW p \in Nat, p <= Len(f),
           NEW news \in Seq(Slot), NEW g \in Written(f, p, news)
    PROVE  /\ g \in Seq(Slot)
           /\ p + Len(news) <= Len(g)
           /\ \A i \in 1..p : g[i] = f[i]
           /\ \A i \in 1..Len(news) : g[p + i] = news[i]
           /\ Records(g, Len(g)) \subseteq
                Records(f, Len(f)) \cup Records(news, Len(news)) \cup {Torn}
<1> DEFINE upto == p + Len(news)
           length == IF Len(f) > upto THEN Len(f) ELSE upto
<1>1. PICK aligned \in BOOLEAN :
         g = [i \in 1..length |->
                IF i <= p THEN f[i]
                ELSE IF i <= upto THEN news[i - p]
                ELSE IF i = upto + 1 /\ ~aligned THEN Torn ELSE f[i]]
  BY DEF Written
<1>2. upto \in Nat /\ length \in Nat /\ upto <= length /\ length >= Len(f)
  OBVIOUS
<1>3. \A i \in 1..length : g[i] \in Slot
  BY <1>1, <1>2 DEF Slot
<1>4. g \in [1..length -> Slot]
  BY <1>1, <1>3
<1>5. g \in Seq(Slot) /\ Len(g) = length
  BY <1>2, <1>4
<1>6. \A i \in 1..length :
         g[i] \in Records(f, Len(f)) \cup Records(news, Len(news)) \cup {Torn}
  <2>1. TAKE i \in 1..length
  <2>2. CASE i <= p
    BY <1>1, <2>2 DEF Records
  <2>3. CASE i > p /\ i <= upto
    <3>1. g[i] = news[i - p] /\ i - p \in 1..Len(news)
      BY <1>1, <2>3
    <3>2. QED
      BY <3>1 DEF Records
  <2>4. CASE i > upto
    <3>1. i \in 1..Len(f) /\ (g[i] = f[i] \/ g[i] = Torn)
      BY <1>1, <2>4
    <3>2. QED
      BY <3>1 DEF Records
  <2>5. QED
    BY <2>2, <2>3, <2>4
<1>7. \A i \in 1..p : g[i] = f[i]
  BY <1>1, <1>2
<1>8. \A i \in 1..Len(news) : g[p + i] = news[i]
  <2>1. TAKE i \in 1..Len(news)
  <2>2. p + i \in 1..length /\ p + i > p /\ p + i <= upto /\ (p + i) - p = i
    OBVIOUS
  <2>3. QED
    BY <1>1, <2>2
<1>9. QED
  BY <1>2, <1>5, <1>6, <1>7, <1>8 DEF Records

(* The same of a write that failed part way.                               *)
LEMMA PartlyWrittenFacts ==
    ASSUME NEW f \in Seq(Slot), NEW p \in Nat, p <= Len(f),
           NEW news \in Seq(Entry), NEW g \in PartlyWritten(f, p, news)
    PROVE  /\ g \in Seq(Slot)
           /\ p <= Len(g)
           /\ \A i \in 1..p : g[i] = f[i]
           /\ Records(g, Len(g)) \subseteq
                Records(f, Len(f)) \cup Records(news, Len(news)) \cup {Torn}
<1>1. PICK n \in 0..(Len(news) - 1) :
         \/ g \in Written(f, p, SubSeq(news, 1, n))
         \/ g \in Written(f, p, SubSeq(news, 1, n) \o <<Torn>>)
  BY DEF PartlyWritten
<1> DEFINE whole == SubSeq(news, 1, n)
           torn == SubSeq(news, 1, n) \o <<Torn>>
<1>2. /\ whole \in Seq(Slot) /\ Len(whole) = n
      /\ \A i \in 1..n : whole[i] = news[i]
  BY <1>1 DEF Slot
<1>3. /\ torn \in Seq(Slot) /\ Len(torn) = n + 1
      /\ \A i \in 1..(n + 1) : torn[i] = IF i <= n THEN news[i] ELSE Torn
  BY <1>1, <1>2 DEF Slot
<1>4. /\ Records(whole, Len(whole)) \subseteq Records(news, Len(news))
      /\ Records(torn, Len(torn)) \subseteq Records(news, Len(news)) \cup {Torn}
  BY <1>1, <1>2, <1>3 DEF Records
<1>5. CASE g \in Written(f, p, whole)
  <2> HIDE DEF whole
  <2>1. QED
    BY <1>2, <1>4, <1>5, WrittenFacts
<1>6. CASE g \in Written(f, p, torn)
  <2> HIDE DEF torn
  <2>1. QED
    BY <1>3, <1>4, <1>6, WrittenFacts
<1>7. QED
  BY <1>1, <1>5, <1>6

-----------------------------------------------------------------------------
(* Records of a file depend only on its first n slots.                     *)
LEMMA RecordsSame ==
    ASSUME NEW f, NEW g, NEW n \in Nat, \A i \in 1..n : f[i] = g[i]
    PROVE  Records(f, n) = Records(g, n)
  BY DEF Records

(* A fresh directory: no file, nobody past the lock.                       *)
LEMMA InitInv == Init => IndInv
<1> SUFFICES ASSUME Init PROVE IndInv
  OBVIOUS
<1> USE DEF Init
<1>1. TypeOK
  <2>1. cache \in Seq(Slot) /\ disk \in Seq(Slot) /\ batch \in Seq(Entry)
    OBVIOUS
  <2>2. pc \in [Proc -> Stage] /\ pos \in Nat
    BY DEF Stage
  <2>3. QED
    BY <2>1, <2>2, Zenon DEF TypeOK, HeaderState
<1>2. ~IsOpen /\ LockInv
  BY LogConstants DEF IsOpen, Opened, LockInv, Locked
<1>3. HolderInv
  BY <1>2 DEF HolderInv, At, Parses, Records
<1>4. Stable(0)
  BY <1>2 DEF Stable, Parses, Records
<1>5. StableInv
  BY <1>4 DEF StableInv
<1>6. OfferedInv
  BY DEF OfferedInv, Records
<1>7. QED
  BY <1>1, <1>2, <1>3, <1>5, <1>6 DEF IndInv

(* A step that takes process p from one stage to another.                  *)
LEMMA GotoFacts ==
    ASSUME TypeOK, NEW p \in Proc, NEW s \in Stage, Goto(p, s)
    PROVE  /\ pc' \in [Proc -> Stage]
           /\ pc'[p] = s
           /\ \A q \in Proc : q # p => pc'[q] = pc[q]
  BY DEF TypeOK, Goto

(* While p is past the lock, nobody else is: the store is open exactly     *)
(* when p has it open.                                                     *)
LEMMA OnlyHolder ==
    ASSUME LockInv, NEW p \in Proc, Locked(p)
    PROVE  /\ lock = p
           /\ \A q \in Proc : q # p => ~Locked(q)
           /\ IsOpen <=> Opened(p)
  BY DEF LockInv, IsOpen, Opened, Locked

(* A step that changes neither the file nor the history, and after which   *)
(* the store is open only if it was and its memory is unchanged.           *)
LEMMA FileUntouched ==
    ASSUME IndInv, TypeOK', LockInv', UNCHANGED <<file, history>>,
           IsOpen' => IsOpen /\ UNCHANGED holder,
           ~IsOpen' => mem' = {} /\ pos' = 0,
           batch' = batch \/ batch' = <<>>,
           \A q \in Proc : pc'[q] # pc[q] =>
                pc'[q] \notin {"written", "syncmagic", "syncdir"}
    PROVE  IndInv'
<1> USE DEF file, history, holder
<1>1. HolderInv'
  <2>1. IsOpen' => header' = "whole" /\ Parses(cache, pos)' /\ mem' = Records(cache, pos)'
    BY DEF IndInv, HolderInv, Parses, Records
  <2>2. ASSUME NEW q \in Proc, At(q, "written")'
        PROVE  /\ pos' + Len(batch') <= Len(cache')
               /\ \A i \in 1..Len(batch') : cache'[pos' + i] = batch'[i]
    <3>1. IsOpen' /\ At(q, "written")
      BY <2>2 DEF At, IsOpen, Opened
    <3>2. QED
      BY <3>1 DEF IndInv, HolderInv
  <2>3. ASSUME NEW q \in Proc, pc'[q] \in {"syncmagic", "syncdir"}
        PROVE  header' = "whole" /\ cache' = <<>>
    BY <2>3 DEF IndInv, HolderInv
  <2>4. QED
    BY <2>1, <2>2, <2>3 DEF IndInv, HolderInv
<1>2. StableInv'
  <2>1. PICK k \in 0..Len(cache) : Stable(k)
    BY DEF IndInv, StableInv
  <2>2. Stable(k)'
    BY <2>1 DEF Stable, Parses, Records
  <2>3. QED
    BY <2>1, <2>2 DEF IndInv, StableInv
<1>3. OfferedInv'
  <2>1. Records(batch, Len(batch))' \subseteq offered
    BY DEF IndInv, OfferedInv, Records
  <2>2. QED
    BY <2>1 DEF IndInv, OfferedInv, Records
<1>4. QED
  BY <1>1, <1>2, <1>3 DEF IndInv

(* os.OpenFile: the process now waits for the flock.                       *)
LEMMA OpenFileInv ==
    ASSUME IndInv, NEW p \in Proc, OpenFile(p) PROVE IndInv'
<1>1. pc' = [pc EXCEPT ![p] = "locking"] /\ pc[p] = "closed"
  BY DEF OpenFile, At, Goto
<1>2. TypeOK'
  BY <1>1 DEF OpenFile, IndInv, TypeOK, file, holder, history, Stage
<1>3. LockInv'
  BY <1>1 DEF OpenFile, IndInv, TypeOK, LockInv, Locked
<1>4. IsOpen' <=> IsOpen
  BY <1>1 DEF IndInv, TypeOK, IsOpen, Opened
<1>5. \A q \in Proc : pc'[q] # pc[q] => pc'[q] = "locking"
  BY <1>1 DEF IndInv, TypeOK
<1>6. QED
  BY <1>2, <1>3, <1>4, <1>5, FileUntouched DEF OpenFile, holder, IndInv, HolderInv

(* lockFileWait gives up: the waiter had nothing.                          *)
LEMMA LockTimesOutInv ==
    ASSUME IndInv, NEW p \in Proc, LockTimesOut(p) PROVE IndInv'
<1>1. pc' = [pc EXCEPT ![p] = "closed"] /\ pc[p] = "locking"
  BY DEF LockTimesOut, At, Goto
<1>2. TypeOK'
  BY <1>1 DEF LockTimesOut, IndInv, TypeOK, file, holder, history, Stage
<1>3. LockInv'
  BY <1>1 DEF LockTimesOut, IndInv, TypeOK, LockInv, Locked
<1>4. IsOpen' <=> IsOpen
  BY <1>1 DEF IndInv, TypeOK, IsOpen, Opened
<1>5. \A q \in Proc : pc'[q] # pc[q] => pc'[q] = "closed"
  BY <1>1 DEF IndInv, TypeOK
<1>6. QED
  BY <1>2, <1>3, <1>4, <1>5, FileUntouched DEF LockTimesOut, holder, IndInv, HolderInv

(* syscall.Flock succeeds: nobody else is past the lock.                   *)
LEMMA LockFileInv ==
    ASSUME IndInv, NEW p \in Proc, LockFile(p) PROVE IndInv'
<1>1. pc' = [pc EXCEPT ![p] = "init"] /\ pc[p] = "locking" /\ lock = NoProc /\ lock' = p
  BY DEF LockFile, At, Goto
<1>2. TypeOK'
  BY <1>1 DEF LockFile, IndInv, TypeOK, file, holder, history, Stage
<1>3. LockInv'
  BY <1>1, LogConstants DEF LockFile, IndInv, TypeOK, LockInv, Locked
<1>4. IsOpen' <=> IsOpen
  BY <1>1 DEF IndInv, TypeOK, IsOpen, Opened
<1>5. \A q \in Proc : pc'[q] # pc[q] => pc'[q] = "init"
  BY <1>1 DEF IndInv, TypeOK
<1>6. QED
  BY <1>2, <1>3, <1>4, <1>5, FileUntouched DEF LockFile, holder, IndInv, HolderInv

(* Every way to give up the flock without touching the file: Close, a kill *)
(* of the holder, a refused header, a replay that cannot truncate, a magic *)
(* that cannot be synced.                                                  *)
LEMMA ReleaseInv ==
    ASSUME IndInv, NEW p \in Proc, Locked(p), Release(p), UNCHANGED <<file, history>>
    PROVE  IndInv' /\ ~IsOpen'
<1>1. pc' = [pc EXCEPT ![p] = "closed"] /\ lock' = NoProc /\ mem' = {} /\ pos' = 0 /\ batch' = <<>>
  BY DEF Release, Goto, Forget
<1>2. lock = p /\ \A q \in Proc : q # p => ~Locked(q)
  BY OnlyHolder DEF IndInv
<1>3. TypeOK'
  <2>1. mem' \in SUBSET Entry /\ pos' \in Nat /\ batch' \in Seq(Entry)
    BY <1>1
  <2>2. QED
    BY <1>1, <2>1 DEF IndInv, TypeOK, file, history, Stage
<1>4. LockInv'
  BY <1>1, <1>2, LogConstants DEF IndInv, TypeOK, LockInv, Locked
<1>5. ~IsOpen'
  BY <1>1, <1>2 DEF IndInv, TypeOK, IsOpen, Opened, Locked
<1>6. \A q \in Proc : pc'[q] # pc[q] => pc'[q] = "closed"
  BY <1>1 DEF IndInv, TypeOK
<1>7. QED
  BY <1>1, <1>3, <1>4, <1>5, <1>6, FileUntouched

(* LogStore.Close: a release with nothing pending.                         *)
LEMMA CloseInv ==
    ASSUME IndInv, NEW p \in Proc, Close(p) PROVE IndInv'
  BY ReleaseInv DEF Close, At, Locked

(* A file that is not a log is left as it is.                              *)
LEMMA RejectMagicInv ==
    ASSUME IndInv, NEW p \in Proc, RejectMagic(p) PROVE IndInv'
  BY ReleaseInv DEF RejectMagic, At, Locked

(* A kill: the kernel drops the flock, the file stays.                     *)
LEMMA KillInv ==
    ASSUME IndInv, NEW p \in Proc, Kill(p) PROVE IndInv'
<1>1. CASE lock = p
  <2>1. Locked(p) /\ Release(p)
    BY <1>1 DEF Kill, IndInv, LockInv, Release
  <2>2. QED
    BY <2>1, ReleaseInv DEF Kill
<1>2. CASE lock # p
  <2>1. pc' = [pc EXCEPT ![p] = "closed"] /\ pc[p] = "locking" /\ UNCHANGED <<lock, holder>>
    BY <1>2 DEF Kill, IndInv, LockInv, Locked, At, Goto
  <2>2. TypeOK'
    BY <2>1 DEF Kill, IndInv, TypeOK, file, holder, history, Stage
  <2>3. LockInv'
    BY <2>1 DEF IndInv, TypeOK, LockInv, Locked
  <2>4. IsOpen' <=> IsOpen
    BY <2>1 DEF IndInv, TypeOK, IsOpen, Opened
  <2>5. \A q \in Proc : pc'[q] # pc[q] => pc'[q] = "closed"
    BY <2>1 DEF IndInv, TypeOK
  <2>6. QED
    BY <2>1, <2>2, <2>3, <2>4, <2>5, FileUntouched DEF Kill, holder, IndInv, HolderInv
<1>3. QED
  BY <1>1, <1>2

-----------------------------------------------------------------------------
(* The magic of a new file: no entry was acknowledged in it.               *)
LEMMA WriteMagicInv ==
    ASSUME IndInv, NEW p \in Proc, WriteMagic(p) PROVE IndInv'
<1>1. /\ pc[p] = "init" /\ header = "none" /\ Locked(p) /\ ~Opened(p)
      /\ UNCHANGED <<stableHeader, cache, disk, named, acked, offered>>
  BY DEF WriteMagic, At, Locked, Opened, history
<1>2. /\ lock = p /\ ~IsOpen /\ cache = <<>> /\ acked = {} /\ mem = {} /\ pos = 0
      /\ \A q \in Proc : q # p => ~Locked(q)
  BY <1>1, OnlyHolder DEF IndInv, HolderInv, StableInv
<1>3. PICK s \in {"syncmagic", "closed"} :
         /\ pc' = [pc EXCEPT ![p] = s]
         /\ s = "syncmagic" => header' = "whole" /\ UNCHANGED <<lock, batch>>
         /\ s = "closed" => header' \in {"none", "bad"} /\ lock' = NoProc /\ batch' = <<>>
         /\ mem' = {} /\ pos' = 0
  BY <1>2 DEF WriteMagic, Goto, Release, Forget, holder
<1>4. TypeOK'
  <2>1. mem' \in SUBSET Entry /\ pos' \in Nat
    BY <1>3
  <2>2. batch' = batch \/ batch' = <<>>
    BY <1>3
  <2>3. batch' \in Seq(Entry)
    <3>1. <<>> \in Seq(Entry) /\ batch \in Seq(Entry)
      BY DEF IndInv, TypeOK
    <3>2. QED
      BY <2>2, <3>1, Zenon
  <2>4. QED
    BY <1>1, <1>3, <2>1, <2>3 DEF IndInv, TypeOK, HeaderState, Stage
<1>5. LockInv'
  BY <1>2, <1>3, LogConstants DEF IndInv, TypeOK, LockInv, Locked
<1>6. ~IsOpen'
  BY <1>2, <1>3 DEF IndInv, TypeOK, IsOpen, Opened, Locked
<1>7. HolderInv'
  BY <1>1, <1>2, <1>3, <1>6 DEF IndInv, TypeOK, HolderInv, At, Locked
<1>8. Stable(0)'
  BY <1>1, <1>2, <1>6 DEF IndInv, TypeOK, Stable, Parses, Records
<1>9. StableInv'
  BY <1>1, <1>2, <1>8 DEF StableInv
<1>10. OfferedInv'
  BY <1>1, <1>3 DEF IndInv, OfferedInv, Records
<1>11. QED
  BY <1>4, <1>5, <1>7, <1>9, <1>10 DEF IndInv

(* The sync of a new file, or its failure, which releases the lock.        *)
LEMMA SyncMagicInv ==
    ASSUME IndInv, NEW p \in Proc, SyncMagic(p) PROVE IndInv'
<1>1. CASE Release(p) /\ UNCHANGED <<stableHeader, named>>
  <2>1. Locked(p) /\ UNCHANGED <<file, history>>
    BY <1>1 DEF SyncMagic, At, Locked, file
  <2>2. QED
    BY <1>1, <2>1, ReleaseInv
<1>2. CASE /\ stableHeader' = header
           /\ named' = (named \/ FsyncNamesFile)
           /\ Goto(p, "syncdir")
           /\ UNCHANGED <<lock, holder>>
  <2>1. /\ pc[p] = "syncmagic" /\ Locked(p) /\ ~Opened(p)
        /\ pc' = [pc EXCEPT ![p] = "syncdir"]
        /\ UNCHANGED <<header, cache, disk, acked, offered, lock, mem, pos, batch>>
    BY <1>2 DEF SyncMagic, At, Locked, Opened, history, Goto, holder
  <2>2. /\ ~IsOpen /\ cache = <<>> /\ header = "whole"
        /\ \A q \in Proc : q # p => ~Locked(q)
    BY <2>1, OnlyHolder DEF IndInv, HolderInv
  <2>3. TypeOK'
    <3>1. named' \in BOOLEAN
      BY <1>2
    <3>2. QED
      BY <1>2, <2>1, <3>1 DEF IndInv, TypeOK, Stage
  <2>4. LockInv'
    BY <2>1 DEF IndInv, TypeOK, LockInv, Locked
  <2>5. ~IsOpen'
    BY <2>1, <2>2 DEF IndInv, TypeOK, IsOpen, Opened, Locked
  <2>6. HolderInv'
    BY <2>1, <2>2, <2>5 DEF IndInv, TypeOK, HolderInv, At, Locked
  <2>7. StableInv'
    <3>1. PICK k \in 0..Len(cache) : Stable(k)
      BY DEF IndInv, StableInv
    <3>2. Stable(k)'
      BY <2>1, <2>5, <3>1 DEF Stable, Parses, Records
    <3>3. acked' # {} => header' = "whole" /\ stableHeader' = "whole" /\ named'
      BY <1>2, <2>1 DEF IndInv, StableInv
    <3>4. QED
      BY <2>1, <3>1, <3>2, <3>3 DEF StableInv
  <2>8. OfferedInv'
    BY <2>1 DEF IndInv, OfferedInv, Records
  <2>9. QED
    BY <2>3, <2>4, <2>6, <2>7, <2>8 DEF IndInv
<1>3. QED
  BY <1>1, <1>2 DEF SyncMagic

(* The directory sync: its error is discarded, so it adds at most a name.  *)
LEMMA SyncLogDirInv ==
    ASSUME IndInv, NEW p \in Proc, SyncLogDir(p) PROVE IndInv'
<1>1. /\ pc[p] = "syncdir" /\ Locked(p) /\ ~Opened(p)
      /\ pc' = [pc EXCEPT ![p] = "open"]
      /\ named' \in BOOLEAN /\ (named => named')
      /\ UNCHANGED <<header, stableHeader, cache, disk, acked, offered, lock, mem, pos, batch>>
  BY DEF SyncLogDir, At, Locked, Opened, history, Goto, holder, IndInv, TypeOK
<1>2. /\ ~IsOpen /\ cache = <<>> /\ header = "whole" /\ mem = {} /\ pos = 0
      /\ \A q \in Proc : q # p => ~Locked(q)
  BY <1>1, OnlyHolder DEF IndInv, HolderInv
<1>3. TypeOK'
  BY <1>1 DEF IndInv, TypeOK, Stage
<1>4. LockInv'
  BY <1>1 DEF IndInv, TypeOK, LockInv, Locked
<1>5. HolderInv'
  <2>1. Parses(cache, pos)' /\ mem' = Records(cache, pos)'
    BY <1>1, <1>2 DEF Parses, Records
  <2>2. IsOpen'
    BY <1>1 DEF IndInv, TypeOK, IsOpen, Opened
  <2>3. QED
    BY <1>1, <1>2, <2>1, <2>2 DEF IndInv, TypeOK, HolderInv, At, Locked
<1>6. StableInv'
  <2>1. PICK k \in 0..Len(cache) : Stable(k)
    BY DEF IndInv, StableInv
  <2>2. k = 0
    BY <1>2, <2>1
  <2>3. Stable(k)'
    BY <1>1, <1>2, <2>1, <2>2 DEF Stable, Parses, Records
  <2>4. QED
    BY <1>1, <2>1, <2>3 DEF IndInv, StableInv
<1>7. OfferedInv'
  BY <1>1 DEF IndInv, OfferedInv, Records
<1>8. QED
  BY <1>3, <1>4, <1>5, <1>6, <1>7 DEF IndInv

(* Replay: what it cuts off was never acknowledged.                        *)
LEMMA ReplayInv ==
    ASSUME IndInv, NEW p \in Proc, Replay(p) PROVE IndInv'
<1>1. PICK n \in 0..Len(cache) :
         /\ ReplayEnds(cache, n)
         /\ \/ /\ cache' = SubSeq(cache, 1, n)
               /\ mem' = Records(cache, n)
               /\ pos' = n
               /\ Goto(p, "open")
               /\ UNCHANGED <<lock, batch>>
            \/ Release(p) /\ UNCHANGED cache
  BY DEF Replay
<1>2. /\ pc[p] = "init" /\ Locked(p) /\ ~Opened(p) /\ header = "whole"
      /\ UNCHANGED <<header, stableHeader, disk, named, acked, offered>>
  BY DEF Replay, At, Locked, Opened, history
<1>3. CASE Release(p) /\ UNCHANGED cache
  BY <1>2, <1>3, ReleaseInv DEF file, history
<1>4. CASE /\ cache' = SubSeq(cache, 1, n)
           /\ mem' = Records(cache, n)
           /\ pos' = n
           /\ Goto(p, "open")
           /\ UNCHANGED <<lock, batch>>
  <2>1. cache \in Seq(Slot) /\ n \in Nat /\ n <= Len(cache) /\ Parses(cache, n)
    BY <1>1 DEF IndInv, TypeOK, ReplayEnds
  <2>2. /\ cache' \in Seq(Slot) /\ Len(cache') = n
        /\ \A i \in 1..n : cache'[i] = cache[i]
    BY <1>4, <2>1
  <2>3. pc' = [pc EXCEPT ![p] = "open"] /\ \A q \in Proc : q # p => ~Locked(q)
    BY <1>2, <1>4, OnlyHolder DEF Goto, IndInv
  <2>4. mem' \subseteq Entry
    BY <1>4, <2>1 DEF Records, Parses, Slot
  <2>5. TypeOK'
    BY <1>2, <1>4, <2>1, <2>2, <2>3, <2>4 DEF IndInv, TypeOK, Stage
  <2>6. LockInv'
    BY <1>2, <1>4, <2>3 DEF IndInv, TypeOK, LockInv, Locked
  <2>7. IsOpen'
    BY <2>3 DEF IndInv, TypeOK, IsOpen, Opened
  <2>8. HolderInv'
    <3>1. Parses(cache, pos)' /\ mem' = Records(cache, pos)'
      BY <1>4, <2>1, <2>2 DEF Parses, Records
    <3>2. QED
      BY <1>2, <2>3, <2>7, <3>1 DEF IndInv, TypeOK, HolderInv, At, Locked
  <2>9. StableInv'
    <3>1. PICK k \in 0..Len(cache) : Stable(k)
      BY DEF IndInv, StableInv
    <3>2. k <= n
      BY <1>1, <2>1, <3>1 DEF Stable, Parses, ReplayEnds
    <3>3. \A i \in 1..k : cache[i] = cache'[i]
      BY <2>2, <3>1, <3>2
    <3>4. Records(cache, k) = Records(cache', k)
      BY <3>1, <3>3, RecordsSame
    <3>5. pos' = n
      BY <1>4
    <3>6. Stable(k)'
      BY <1>2, <2>1, <2>2, <3>1, <3>2, <3>3, <3>4, <3>5 DEF Stable, Parses
    <3>7. QED
      BY <1>2, <2>2, <3>1, <3>2, <3>6 DEF IndInv, StableInv
  <2>10. OfferedInv'
    <3>1. Records(cache', n) \subseteq Records(cache, Len(cache))
      BY <2>1, <2>2 DEF Records
    <3>2. Len(cache') = n /\ UNCHANGED <<batch, disk, acked, offered>>
      BY <1>2, <1>4, <2>2
    <3>3. QED
      BY <3>1, <3>2 DEF IndInv, OfferedInv
  <2>11. QED
    BY <2>5, <2>6, <2>8, <2>9, <2>10 DEF IndInv
<1>5. QED
  BY <1>1, <1>3, <1>4

(* The append of Add, whole or partial, behind the stable prefix.          *)
LEMMA AddWriteInv ==
    ASSUME IndInv, NEW p \in Proc, AddWrite(p) PROVE IndInv'
<1>1. /\ pc[p] = "open" /\ Locked(p) /\ Opened(p)
      /\ UNCHANGED <<header, stableHeader, disk, named, lock, mem, pos, acked>>
  BY DEF AddWrite, At, Locked, Opened
<1> DEFINE Wrote(S, news) ==
         /\ IsFiniteSet(S)
         /\ offered' = offered \cup (S \ mem)
         /\ \/ /\ cache' \in Written(cache, pos, news)
               /\ batch' = news
               /\ Goto(p, "written")
            \/ /\ cache' \in PartlyWritten(cache, pos, news)
               /\ batch' = <<>>
               /\ Goto(p, "failed")
<1>0. PICK S \in SUBSET Entry : \E news \in Orders(S \ mem) : Wrote(S, news)
  BY DEF AddWrite
<1>2. PICK news \in Orders(S \ mem) : Wrote(S, news)
  BY <1>0
<1>3. /\ news \in Seq(Entry) /\ news \in Seq(Slot)
      /\ Records(news, Len(news)) \subseteq S \ mem
  <2>1. Cardinality(S \ mem) \in Nat
    BY <1>2, FS_Difference, FS_CardinalityType
  <2>2. PICK n \in Nat : news \in [1..n -> S \ mem]
    BY <2>1 DEF Orders
  <2>3. Len(news) = n /\ \A i \in 1..n : news[i] \in S \ mem
    BY <2>2
  <2>4. news \in [1..n -> Entry] /\ news \in [1..n -> Slot]
    BY <2>2, <2>3 DEF Slot
  <2>5. QED
    BY <2>3, <2>4 DEF Records
<1>4. /\ cache \in Seq(Slot) /\ pos \in Nat /\ Parses(cache, pos) /\ pos <= Len(cache)
      /\ mem = Records(cache, pos) /\ header = "whole" /\ IsOpen
  BY <1>1, OnlyHolder DEF IndInv, TypeOK, HolderInv, Parses
<1>5. /\ cache' \in Seq(Slot)
      /\ pos <= Len(cache')
      /\ \A i \in 1..pos : cache'[i] = cache[i]
      /\ Records(cache', Len(cache')) \subseteq
            Records(cache, Len(cache)) \cup Records(news, Len(news)) \cup {Torn}
  <2>1. CASE cache' \in Written(cache, pos, news)
    BY <1>3, <1>4, <2>1, WrittenFacts
  <2>2. CASE cache' \in PartlyWritten(cache, pos, news)
    BY <1>3, <1>4, <2>2, PartlyWrittenFacts
  <2>3. QED
    BY <1>2, <2>1, <2>2
<1>6. PICK s \in {"written", "failed"} :
         /\ pc' = [pc EXCEPT ![p] = s]
         /\ s = "written" => cache' \in Written(cache, pos, news) /\ batch' = news
         /\ batch' = news \/ batch' = <<>>
  BY <1>2 DEF Goto
<1>7. batch' \in Seq(Entry) /\ Records(batch', Len(batch')) \subseteq S \ mem
  <2>1. <<>> \in Seq(Entry) /\ Records(<<>>, Len(<<>>)) = {}
    BY DEF Records
  <2>2. QED
    BY <1>3, <1>6, <2>1, Zenon
<1>8. TypeOK'
  BY <1>1, <1>2, <1>5, <1>6, <1>7 DEF IndInv, TypeOK, Stage
<1>9. LockInv' /\ IsOpen'
  BY <1>1, <1>6 DEF IndInv, TypeOK, LockInv, Locked, IsOpen, Opened
<1>10. HolderInv'
  <2>1. Parses(cache, pos)' /\ mem' = Records(cache, pos)'
    BY <1>1, <1>4, <1>5 DEF Parses, Records
  <2>2. s = "written" => /\ pos' + Len(batch') <= Len(cache')
                         /\ \A i \in 1..Len(batch') : cache'[pos' + i] = batch'[i]
    BY <1>1, <1>3, <1>4, <1>6, WrittenFacts
  <2>3. \A q \in Proc : q # p => pc'[q] = pc[q] /\ ~Locked(q)
    BY <1>1, <1>6, OnlyHolder DEF IndInv, TypeOK
  <2>4. \A q \in Proc : /\ pc'[q] \notin {"syncmagic", "syncdir"}
                        /\ At(q, "written")' => s = "written"
    BY <1>6, <2>3 DEF IndInv, TypeOK, At, Locked
  <2>5. QED
    BY <1>1, <1>4, <1>9, <2>1, <2>2, <2>4 DEF HolderInv
<1>11. StableInv'
  <2>1. PICK k \in 0..Len(cache) : Stable(k)
    BY DEF IndInv, StableInv
  <2>2. k <= pos
    BY <1>4, <2>1 DEF Stable
  <2>3. \A i \in 1..k : cache[i] = cache'[i]
    BY <1>4, <1>5, <2>1, <2>2
  <2>4. Records(cache, k) = Records(cache', k)
    BY <2>1, <2>3, RecordsSame
  <2>5. Stable(k)'
    BY <1>1, <1>4, <1>5, <2>1, <2>2, <2>3, <2>4 DEF Stable, Parses
  <2>6. QED
    BY <1>1, <1>4, <1>5, <2>1, <2>2, <2>5 DEF IndInv, StableInv
<1>12. OfferedInv'
  BY <1>1, <1>2, <1>3, <1>5, <1>7 DEF IndInv, OfferedInv, Records
<1>13. QED
  BY <1>8, <1>9, <1>10, <1>11, <1>12 DEF IndInv

(* fsync names the file: what AddSync relies on for the directory entry.   *)
LEMMA AddSyncInv ==
    ASSUME FsyncNamesFile, IndInv, NEW p \in Proc, AddSync(p) PROVE IndInv'
<1>1. /\ pc[p] = "written" /\ Locked(p) /\ Opened(p) /\ batch' = <<>>
      /\ UNCHANGED <<header, cache, lock, offered>>
  BY DEF AddSync, At, Locked, Opened
<1>2. /\ cache \in Seq(Slot) /\ disk \in Seq(Slot) /\ pos \in Nat /\ batch \in Seq(Entry)
      /\ Parses(cache, pos) /\ mem = Records(cache, pos) /\ header = "whole" /\ IsOpen
      /\ pos + Len(batch) <= Len(cache)
      /\ \A i \in 1..Len(batch) : cache[pos + i] = batch[i]
      /\ \A q \in Proc : q # p => ~Locked(q)
  BY <1>1, OnlyHolder DEF IndInv, TypeOK, HolderInv, At
<1> DEFINE upto == pos + Len(batch)
           written == Records(batch, Len(batch))
<1>3. /\ upto \in Nat /\ Parses(cache, upto)
      /\ Records(cache, upto) = mem \cup written
      /\ written \subseteq Entry
  <2>1. \A i \in 1..Len(batch) : batch[i] \in Entry /\ batch[i] # Torn
    BY <1>2, LogConstants
  <2>2. \A i \in 1..upto : i <= pos \/ (i - pos \in 1..Len(batch) /\ cache[i] = batch[i - pos])
    BY <1>2
  <2>3. \A i \in 1..upto : cache[i] # Torn
    BY <1>2, <2>1, <2>2 DEF Parses
  <2>4. Records(cache, upto) \subseteq mem \cup written
    BY <1>2, <2>2 DEF Records
  <2>5. mem \subseteq Records(cache, upto)
    BY <1>2 DEF Records
  <2>6. written \subseteq Records(cache, upto)
    <3>1. SUFFICES ASSUME NEW i \in 1..Len(batch) PROVE batch[i] \in Records(cache, upto)
      BY DEF Records
    <3>2. pos + i \in 1..upto /\ cache[pos + i] = batch[i]
      BY <1>2
    <3>3. QED
      BY <3>2 DEF Records
  <2>7. written \subseteq Entry
    BY <2>1 DEF Records
  <2>8. QED
    BY <1>2, <2>3, <2>4, <2>5, <2>6, <2>7 DEF Parses
<1>4. \A q \in Proc : q # p => pc'[q] = pc[q]
  BY DEF AddSync, Goto, IndInv, TypeOK
<1>5. pc' \in [Proc -> Stage] /\ pc'[p] \in {"open", "failed"} /\ LockInv' /\ IsOpen'
  BY <1>1, <1>4 DEF AddSync, Goto, IndInv, TypeOK, Stage, LockInv, Locked, IsOpen, Opened
<1>6. \A q \in Proc : pc'[q] \notin {"written", "syncmagic", "syncdir"}
  BY <1>2, <1>4, <1>5 DEF Locked
<1>7. Records(batch', Len(batch')) = {} /\ batch' \in Seq(Entry)
  BY <1>1 DEF Records
<1>8. CASE /\ disk' = cache
           /\ stableHeader' = header
           /\ named' = (named \/ FsyncNamesFile)
           /\ mem' = mem \cup written
           /\ pos' = upto
           /\ acked' = acked \cup written
  <2>1. Parses(cache, pos)' /\ mem' = Records(cache, pos)'
    BY <1>1, <1>3, <1>8 DEF Parses, Records
  <2>2. mem' \in SUBSET Entry /\ acked' \in SUBSET Entry /\ named' = TRUE
    BY <1>3, <1>8 DEF IndInv, TypeOK
  <2>3. TypeOK'
    BY <1>1, <1>2, <1>3, <1>5, <1>7, <1>8, <2>2 DEF IndInv, TypeOK
  <2>4. HolderInv'
    BY <1>1, <1>2, <1>5, <1>6, <2>1 DEF HolderInv, At
  <2>5. acked \subseteq mem
    BY <1>2 DEF IndInv, StableInv, Stable, Records
  <2>6. Stable(upto)'
    BY <1>1, <1>2, <1>3, <1>8, <2>1, <2>5 DEF Stable, Parses
  <2>7. StableInv'
    BY <1>1, <1>2, <1>3, <1>8, <2>2, <2>6 DEF StableInv
  <2>8. OfferedInv'
    BY <1>1, <1>7, <1>8 DEF IndInv, OfferedInv
  <2>9. QED
    BY <1>5, <2>3, <2>4, <2>7, <2>8 DEF IndInv
<1>9. CASE disk' \in Mix(cache, disk) /\ UNCHANGED <<stableHeader, named, mem, pos, acked>>
  <2>1. /\ disk' \in Seq(Slot)
        /\ \A k \in Nat : (k <= Len(cache) /\ k <= Len(disk) /\ \A i \in 1..k : disk[i] = cache[i])
                             => k <= Len(disk') /\ \A i \in 1..k : disk'[i] = cache[i]
        /\ Records(disk', Len(disk')) \subseteq
             Records(cache, Len(cache)) \cup Records(disk, Len(disk)) \cup {Torn}
    BY <1>2, <1>9, MixFacts
  <2>2. TypeOK'
    BY <1>1, <1>5, <1>7, <1>9, <2>1 DEF IndInv, TypeOK
  <2>3. HolderInv'
    BY <1>1, <1>2, <1>5, <1>6, <1>9 DEF HolderInv, At, Parses, Records
  <2>4. StableInv'
    <3>1. PICK k \in 0..Len(cache) : Stable(k)
      BY DEF IndInv, StableInv
    <3>2. Stable(k)'
      BY <1>1, <1>2, <1>9, <2>1, <3>1 DEF Stable, Parses, Records
    <3>3. QED
      BY <1>1, <1>9, <3>1, <3>2 DEF IndInv, StableInv
  <2>5. OfferedInv'
    BY <1>1, <1>7, <1>9, <2>1 DEF IndInv, OfferedInv
  <2>6. QED
    BY <1>5, <2>2, <2>3, <2>4, <2>5 DEF IndInv
<1>10. QED
  BY <1>8, <1>9 DEF AddSync

(* rollback: cuts back to the offset before the call, or cannot.           *)
LEMMA RollbackInv ==
    ASSUME IndInv, NEW p \in Proc, Rollback(p) PROVE IndInv'
<1>1. /\ pc[p] = "failed" /\ Locked(p) /\ Opened(p)
      /\ pc' = [pc EXCEPT ![p] = "open"]
      /\ UNCHANGED <<header, stableHeader, disk, named, lock, mem, pos, batch, acked, offered>>
      /\ cache' = SubSeq(cache, 1, pos) \/ cache' = cache
  BY DEF Rollback, At, Locked, Opened, Goto, holder, history
<1>2. /\ cache \in Seq(Slot) /\ pos \in Nat /\ pos <= Len(cache) /\ Parses(cache, pos)
      /\ mem = Records(cache, pos) /\ header = "whole" /\ IsOpen
      /\ \A q \in Proc : q # p => ~Locked(q)
  BY <1>1, OnlyHolder DEF IndInv, TypeOK, HolderInv, Parses
<1>3. /\ cache' \in Seq(Slot) /\ pos <= Len(cache') /\ Len(cache') <= Len(cache)
      /\ \A i \in 1..Len(cache') : cache'[i] = cache[i]
  BY <1>1, <1>2
<1>4. TypeOK'
  BY <1>1, <1>3 DEF IndInv, TypeOK, Stage
<1>5. LockInv' /\ IsOpen'
  BY <1>1 DEF IndInv, TypeOK, LockInv, Locked, IsOpen, Opened
<1>6. \A i \in 1..pos : cache'[i] = cache[i]
  BY <1>2, <1>3
<1>7. HolderInv'
  <2>1. Parses(cache, pos)' /\ mem' = Records(cache, pos)'
    BY <1>1, <1>2, <1>3, <1>6 DEF Parses, Records
  <2>2. \A q \in Proc : pc'[q] \notin {"written", "syncmagic", "syncdir"}
    BY <1>1, <1>2 DEF IndInv, TypeOK, Locked
  <2>3. QED
    BY <1>1, <1>2, <1>5, <2>1, <2>2 DEF HolderInv, At
<1>8. StableInv'
  <2>1. PICK k \in 0..Len(cache) : Stable(k)
    BY DEF IndInv, StableInv
  <2>2. k <= pos /\ \A i \in 1..k : cache[i] = cache'[i]
    BY <1>2, <1>6, <2>1 DEF Stable
  <2>3. Records(cache, k) = Records(cache', k)
    BY <2>1, <2>2, RecordsSame
  <2>4. Stable(k)'
    <3>1. UNCHANGED <<disk, pos, acked>>
      BY <1>1
    <3>2. QED
      BY <1>2, <1>3, <2>1, <2>2, <2>3, <3>1 DEF Stable, Parses
  <2>5. QED
    BY <1>1, <1>2, <1>3, <2>1, <2>2, <2>4 DEF IndInv, StableInv
<1>9. OfferedInv'
  <2>1. Records(cache', Len(cache')) \subseteq Records(cache, Len(cache))
    BY <1>2, <1>3 DEF Records
  <2>2. UNCHANGED <<disk, batch, acked, offered>>
    BY <1>1
  <2>3. QED
    BY <2>1, <2>2 DEF IndInv, OfferedInv
<1>10. QED
  BY <1>4, <1>5, <1>7, <1>8, <1>9 DEF IndInv

(* Power loss: whatever the disk kept holds the stable prefix.             *)
LEMMA PowerLossInv ==
    ASSUME IndInv, PowerLoss PROVE IndInv'
<1>1. /\ pc' = [q \in Proc |-> "closed"] /\ lock' = NoProc
      /\ mem' = {} /\ pos' = 0 /\ batch' = <<>> /\ UNCHANGED <<acked, offered>>
  BY DEF PowerLoss, Forget, history
<1>2. LockInv' /\ ~IsOpen'
  BY <1>1, LogConstants DEF LockInv, Locked, IsOpen, Opened
<1>3. /\ pc' \in [Proc -> Stage] /\ lock' \in Proc \cup {NoProc} /\ mem' \in SUBSET Entry
      /\ pos' \in Nat /\ acked' \in SUBSET Entry /\ offered' \in SUBSET Entry
  BY <1>1 DEF IndInv, TypeOK, Stage
<1>4. batch' \in Seq(Entry) /\ Records(batch', Len(batch')) = {}
  BY <1>1 DEF Records
<1>5. CASE /\ header' \in MixHeader(header, stableHeader)
           /\ stableHeader' = header'
           /\ cache' \in IF header' = "whole" THEN Mix(cache, disk) ELSE {<<>>}
           /\ disk' = cache'
           /\ named' = (header' # "none")
  <2>1. header' \in HeaderState /\ (header = stableHeader => header' = header) /\ named' \in BOOLEAN
    BY <1>5 DEF MixHeader, IndInv, TypeOK
  <2>2. cache' \in Seq(Slot) /\ Records(cache', Len(cache')) \subseteq offered \cup {Torn}
    <3>1. CASE header' = "whole"
      BY <1>5, <3>1, MixFacts DEF IndInv, TypeOK, OfferedInv
    <3>2. CASE header' # "whole"
      BY <1>5, <3>2 DEF Records
    <3>3. QED
      BY <3>1, <3>2
  <2>3. TypeOK'
    BY <1>3, <1>4, <1>5, <2>1, <2>2 DEF TypeOK
  <2>4. HolderInv'
    BY <1>1, <1>2, <1>5 DEF HolderInv, At
  <2>5. StableInv'
    <3>1. CASE acked = {}
      <4>1. Stable(0)'
        BY <1>1, <1>2, <1>5, <2>2, <3>1 DEF Stable, Parses, Records
      <4>2. QED
        BY <1>1, <2>2, <3>1, <4>1 DEF StableInv
    <3>2. CASE acked # {}
      <4>1. header = "whole" /\ stableHeader = "whole"
        BY <3>2 DEF IndInv, StableInv
      <4>2. header' = "whole" /\ stableHeader' = "whole" /\ named'
        BY <1>5, <2>1, <4>1
      <4>3. PICK k \in 0..Len(cache) : Stable(k)
        BY DEF IndInv, StableInv
      <4>4. k \in Nat /\ k <= Len(cache') /\ \A i \in 1..k : cache'[i] = cache[i]
        <5>1. cache' \in Mix(cache, disk) /\ cache \in Seq(Slot) /\ disk \in Seq(Slot)
          BY <1>5, <4>2 DEF IndInv, TypeOK
        <5>2. k \in Nat /\ k <= Len(cache) /\ k <= Len(disk) /\ \A i \in 1..k : disk[i] = cache[i]
          BY <4>3, <5>1 DEF Stable, Parses
        <5>3. QED
          BY <5>1, <5>2, MixFacts
      <4>5. Records(cache', k) = Records(cache, k)
        BY <4>4, RecordsSame
      <4>6. Stable(k)'
        BY <1>1, <1>2, <1>5, <2>2, <4>3, <4>4, <4>5 DEF Stable, Parses
      <4>7. QED
        BY <2>2, <4>2, <4>4, <4>6 DEF StableInv
    <3>3. QED
      BY <3>1, <3>2
  <2>6. OfferedInv'
    BY <1>1, <1>4, <1>5, <2>2 DEF IndInv, OfferedInv
  <2>7. QED
    BY <1>2, <2>3, <2>4, <2>5, <2>6 DEF IndInv
<1>6. CASE /\ ~named
           /\ header' = "none"
           /\ stableHeader' = "none"
           /\ cache' = <<>>
           /\ disk' = <<>>
           /\ named' = FALSE
  <2>1. acked = {}
    BY <1>6 DEF IndInv, StableInv
  <2>2. /\ cache' \in Seq(Slot) /\ disk' \in Seq(Slot)
        /\ Records(cache', Len(cache')) = {} /\ Records(disk', Len(disk')) = {}
    BY <1>6 DEF Records
  <2>3. header' \in HeaderState /\ stableHeader' \in HeaderState /\ named' \in BOOLEAN
    BY <1>6 DEF HeaderState
  <2>4. TypeOK'
    BY <1>3, <1>4, <2>2, <2>3 DEF TypeOK
  <2>5. HolderInv'
    BY <1>1, <1>2, <1>6 DEF HolderInv, At
  <2>6. Stable(0)'
    BY <1>1, <1>2, <2>1, <2>2 DEF Stable, Parses, Records
  <2>7. StableInv'
    BY <1>1, <2>1, <2>2, <2>6 DEF StableInv
  <2>8. OfferedInv'
    BY <1>1, <1>4, <2>2 DEF IndInv, OfferedInv
  <2>9. QED
    BY <1>2, <2>4, <2>5, <2>7, <2>8 DEF IndInv
<1>7. QED
  BY <1>5, <1>6 DEF PowerLoss

-----------------------------------------------------------------------------
(* Every step keeps the invariant.                                         *)
LEMMA NextInv ==
    ASSUME FsyncNamesFile, IndInv, [Next]_vars PROVE IndInv'
<1>1. CASE UNCHANGED vars
  <2> USE <1>1 DEF vars, file, holder, history
  <2>1. TypeOK' /\ LockInv' /\ (IsOpen' <=> IsOpen)
    BY DEF IndInv, TypeOK, LockInv, Locked, IsOpen, Opened
  <2>2. ~IsOpen' => mem' = {} /\ pos' = 0
    BY <2>1 DEF IndInv, HolderInv
  <2>3. QED
    BY <2>1, <2>2, FileUntouched
<1>2. CASE PowerLoss
  BY <1>2, PowerLossInv
<1>3. ASSUME NEW p \in Proc,
             \/ OpenFile(p) \/ LockFile(p) \/ LockTimesOut(p)
             \/ WriteMagic(p) \/ SyncMagic(p) \/ SyncLogDir(p)
             \/ RejectMagic(p) \/ Replay(p)
             \/ AddWrite(p) \/ AddSync(p) \/ Rollback(p)
             \/ Close(p) \/ Kill(p)
      PROVE  IndInv'
  BY <1>3, OpenFileInv, LockFileInv, LockTimesOutInv, WriteMagicInv, SyncMagicInv, SyncLogDirInv,
     RejectMagicInv, ReplayInv, AddWriteInv, AddSyncInv, RollbackInv, CloseInv, KillInv
<1>4. QED
  BY <1>1, <1>2, <1>3 DEF Next

(* The inductive invariant, and the type invariant with it, hold of every  *)
(* behaviour of the log in which fsync makes a new file's name durable.    *)
THEOREM LogInvariant == ASSUME FsyncNamesFile PROVE Spec => []IndInv
<1>1. Init => IndInv
  BY InitInv
<1>2. IndInv /\ [Next]_vars => IndInv'
  BY NextInv
<1>3. QED
  BY <1>1, <1>2, PTL DEF Spec

(* IndInv gives AckedSurvive: the stable prefix is in every outcome.       *)
LEMMA IndInvSurvive == IndInv => AckedSurvive
<1> SUFFICES ASSUME IndInv PROVE AckedSurvive
  OBVIOUS
<1>1. PICK k \in 0..Len(cache) : Stable(k)
  BY DEF IndInv, StableInv
<1>2. cache \in Seq(Slot) /\ disk \in Seq(Slot) /\ k \in Nat
  BY <1>1 DEF IndInv, TypeOK
<1>3. ASSUME NEW f \in Seq(Slot), k <= Len(f), \A i \in 1..k : f[i] = cache[i]
      PROVE  acked \subseteq Recovered("whole", f)
  <2>1. \A i \in 1..k : i \in 1..Len(f) /\ Parses(f, i)
    BY <1>1, <1>2, <1>3 DEF Stable, Parses
  <2>2. \A i \in 1..k : f[i] \in Recovered("whole", f)
    BY <2>1 DEF Recovered
  <2>3. Records(cache, k) = Records(f, k)
    BY <1>2, <1>3, RecordsSame
  <2>4. QED
    BY <1>1, <2>2, <2>3 DEF Stable, Records
<1>4. CASE acked = {}
  BY <1>4 DEF AckedSurvive
<1>5. CASE acked # {}
  <2>1. header = "whole" /\ stableHeader = "whole" /\ named
    BY <1>5 DEF IndInv, StableInv
  <2>2. acked \subseteq Recovered(header, cache)
    BY <1>1, <1>2, <1>3, <2>1
  <2>3. ASSUME NEW h \in MixHeader(header, stableHeader), NEW f \in Mix(cache, disk)
        PROVE  acked \subseteq Recovered(h, f)
    <3>1. h = "whole"
      BY <2>1 DEF MixHeader
    <3>2. k <= Len(cache) /\ k <= Len(disk) /\ \A i \in 1..k : disk[i] = cache[i]
      BY <1>1, <1>2 DEF Stable
    <3>3. f \in Seq(Slot) /\ k <= Len(f) /\ \A i \in 1..k : f[i] = cache[i]
      BY <1>2, <3>2, MixFacts
    <3>4. QED
      BY <1>3, <3>1, <3>3
  <2>4. QED
    BY <2>1, <2>2, <2>3 DEF AckedSurvive
<1>6. QED
  BY <1>4, <1>5

(* IndInv gives MemoryIsLog: an open store holds the records of its file.  *)
LEMMA IndInvMemory == IndInv => MemoryIsLog
<1> SUFFICES ASSUME IndInv, NEW p \in Proc, Opened(p)
             PROVE  lock = p /\ Parses(cache, pos) /\ mem = Records(cache, pos) /\ acked \subseteq mem
  BY DEF MemoryIsLog
<1>1. lock = p /\ IsOpen
  BY DEF IndInv, LockInv, Locked, Opened, IsOpen
<1>2. Parses(cache, pos) /\ mem = Records(cache, pos)
  BY <1>1 DEF IndInv, HolderInv
<1>3. PICK k \in 0..Len(cache) : Stable(k)
  BY DEF IndInv, StableInv
<1>4. acked \subseteq mem
  BY <1>1, <1>2, <1>3 DEF Stable, Records, IndInv, TypeOK
<1>5. QED
  BY <1>1, <1>2, <1>4

(* No acknowledged entry is ever lost, for any entries and processes, any  *)
(* failing system calls, kills and power loss at any step.                 *)
THEOREM LogDurable == ASSUME FsyncNamesFile PROVE Spec => []AckedSurvive
  BY LogInvariant, IndInvSurvive, PTL

(* The memory of an open store is its log, whoever crashed in it before.   *)
THEOREM LogMemory == ASSUME FsyncNamesFile PROVE Spec => []MemoryIsLog
  BY LogInvariant, IndInvMemory, PTL

-----------------------------------------------------------------------------
(* Outside Add, a step leaves the history alone, and the memory of a store *)
(* that is open before and after it.                                       *)
LEMMA OtherSteps ==
    ASSUME IndInv, IndInv', [Next]_vars, \A p \in Proc : ~AddWrite(p) /\ ~AddSync(p)
    PROVE  UNCHANGED history /\ (IsOpen /\ IsOpen' => mem' = mem)
<1>1. CASE UNCHANGED vars
  BY <1>1 DEF vars, history, holder
<1>2. CASE PowerLoss
  BY <1>2 DEF PowerLoss, IsOpen, Opened
<1>3. ASSUME NEW p \in Proc, OpenFile(p) \/ LockFile(p) \/ LockTimesOut(p)
      PROVE  UNCHANGED history /\ mem' = mem
  BY <1>3 DEF OpenFile, LockFile, LockTimesOut, holder
<1>4. ASSUME NEW p \in Proc, Locked(p), Release(p)
      PROVE  ~IsOpen'
  <2>1. pc' = [pc EXCEPT ![p] = "closed"] /\ \A q \in Proc : q # p => ~Locked(q)
    BY <1>4, OnlyHolder DEF Release, Goto, IndInv
  <2>2. QED
    BY <2>1 DEF IndInv, TypeOK, IsOpen, Opened, Locked
<1>5. ASSUME NEW p \in Proc, pc[p] \in {"init", "syncmagic", "syncdir"}
      PROVE  ~IsOpen
  BY <1>5, OnlyHolder DEF IndInv, Locked, Opened
<1>6. ASSUME NEW p \in Proc,
             WriteMagic(p) \/ SyncMagic(p) \/ SyncLogDir(p) \/ RejectMagic(p) \/ Replay(p)
      PROVE  UNCHANGED history /\ ~IsOpen
  BY <1>5, <1>6 DEF WriteMagic, SyncMagic, SyncLogDir, RejectMagic, Replay, At
<1>7. ASSUME NEW p \in Proc, Rollback(p)
      PROVE  UNCHANGED history /\ mem' = mem
  BY <1>7 DEF Rollback, holder
<1>8. ASSUME NEW p \in Proc, Close(p) \/ Kill(p)
      PROVE  UNCHANGED history /\ (~IsOpen' \/ mem' = mem)
  <2>1. CASE Close(p)
    BY <1>4, <2>1 DEF Close, At, Locked
  <2>2. CASE Kill(p) /\ lock = p
    BY <1>4, <2>2 DEF Kill, Release, IndInv, LockInv
  <2>3. CASE Kill(p) /\ lock # p
    BY <2>3 DEF Kill, holder
  <2>4. QED
    BY <1>8, <2>1, <2>2, <2>3
<1>9. QED
  BY <1>1, <1>2, <1>3, <1>6, <1>7, <1>8 DEF Next

(* Every step of the log is a step of EntrySet or leaves its state alone.  *)
LEMMA StepRefines ==
    ASSUME IndInv, IndInv', [Next]_vars
    PROVE  [Contract!Next]_(Contract!vars)
<1> DEFINE shown == IF IsOpen THEN mem ELSE {}
<1>1. IsOpen' => acked' \subseteq mem' /\ mem' \subseteq offered'
  <2> SUFFICES ASSUME IsOpen' PROVE acked' \subseteq mem' /\ mem' \subseteq offered'
    OBVIOUS
  <2>1. MemoryIsLog'
    BY IndInvMemory, PTL
  <2>2. acked' \subseteq mem' /\ Parses(cache, pos)' /\ mem' = Records(cache, pos)'
    BY <2>1 DEF MemoryIsLog, IsOpen
  <2>3. Records(cache, Len(cache))' \subseteq offered' \cup {Torn}
    BY DEF IndInv, OfferedInv
  <2>4. QED
    BY <2>2, <2>3 DEF Records, Parses, IndInv, TypeOK
<1>2. CASE \E p \in Proc : AddWrite(p)
  <2>1. PICK p \in Proc : AddWrite(p)
    BY <1>2
  <2>2. IsOpen /\ IsOpen'
    BY <2>1 DEF AddWrite, At, Goto, IsOpen, Opened, IndInv, TypeOK
  <2>3. mem' = mem /\ acked' = acked /\ \E S \in SUBSET Entry : offered' = offered \cup S
    BY <2>1 DEF AddWrite
  <2>4. Contract!Offer
    BY <2>2, <2>3 DEF Contract!Offer
  <2>5. QED
    BY <2>4 DEF Contract!Next
<1>3. CASE \E p \in Proc : AddSync(p)
  <2>1. PICK p \in Proc : AddSync(p)
    BY <1>3
  <2>2. IsOpen /\ IsOpen' /\ offered' = offered
    BY <2>1 DEF AddSync, At, Goto, IsOpen, Opened, IndInv, TypeOK
  <2>3. CASE UNCHANGED <<mem, acked>>
    BY <2>2, <2>3 DEF Contract!vars
  <2>4. CASE /\ mem' = mem \cup Records(batch, Len(batch))
             /\ acked' = acked \cup Records(batch, Len(batch))
    <3>1. Records(batch, Len(batch)) \subseteq offered
      BY DEF IndInv, OfferedInv
    <3>2. Contract!Commit
      BY <2>2, <2>4, <3>1 DEF Contract!Commit
    <3>3. QED
      BY <3>2 DEF Contract!Next
  <2>5. QED
    BY <2>1, <2>3, <2>4 DEF AddSync
<1>4. CASE \A p \in Proc : ~AddWrite(p) /\ ~AddSync(p)
  <2>1. acked' = acked /\ offered' = offered /\ (IsOpen /\ IsOpen' => mem' = mem)
    BY <1>4, OtherSteps DEF history
  <2>2. CASE IsOpen <=> IsOpen'
    BY <2>1, <2>2 DEF Contract!vars
  <2>3. CASE ~IsOpen /\ IsOpen'
    <3>1. Contract!Open
      BY <1>1, <2>1, <2>3 DEF Contract!Open
    <3>2. QED
      BY <3>1 DEF Contract!Next
  <2>4. CASE IsOpen /\ ~IsOpen'
    <3>1. Contract!Shut
      BY <2>1, <2>4 DEF Contract!Shut
    <3>2. QED
      BY <3>1 DEF Contract!Next
  <2>5. QED
    BY <2>2, <2>3, <2>4
<1>5. QED
  BY <1>2, <1>3, <1>4

(* The log implements the Store contract: every step of open, append,      *)
(* rollback, replay, close or crash is a step of EntrySet or invisible.    *)
THEOREM LogImplements == ASSUME FsyncNamesFile PROVE Spec => ImplementsEntrySet
<1>1. Init => Contract!Init
  BY DEF Init, Contract!Init, IsOpen, Opened
<1>2. IndInv /\ IndInv' /\ [Next]_vars => [Contract!Next]_(Contract!vars)
  BY StepRefines
<1>3. QED
  BY <1>1, <1>2, LogInvariant, PTL DEF Spec, ImplementsEntrySet, Contract!Spec
=============================================================================
