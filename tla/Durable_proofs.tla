--------------------------- MODULE Durable_proofs ---------------------------
(***************************************************************************)
(* Proofs about Durable, for any number of processes and landings.         *)
(***************************************************************************)
EXTENDS Durable, TLAPS

(* An absent file, nobody at work.                                         *)
LEMMA InitInv == Init => IndInv
<1>1. SUFFICES ASSUME Init PROVE IndInv
  OBVIOUS
<1>2. Absent \in Content
  BY DEF Absent, Content
<1>3. TypeOK
  BY <1>1, <1>2 DEF Init, TypeOK, Steps
<1>4. SyncedInv /\ OrderInv /\ CreateInv /\ OneCreator
  BY <1>1 DEF Init, SyncedInv, OrderInv, CreateInv, OneCreator, Landed, Creating, Absent
<1>5. QED
  BY <1>3, <1>4 DEF IndInv

(* Steps on the temporary file alone: calls, failures and kills too.       *)
LEMMA TempInv ==
    ASSUME IndInv, NEW p \in Proc,
           \/ \E k \in {"write", "create"} : Call(p, k)
           \/ CreateTemp(p) \/ WriteTemp(p) \/ SyncTemp(p) \/ CloseTemp(p)
           \/ Unlink(p) \/ Kill(p) \/ Fail(p)
    PROVE  IndInv'
<1> USE DEF IndInv, Goto, Return, Fail
<1>1. /\ UNCHANGED <<mine, file, maybe, last, acked, created>>
      /\ \A q \in Proc : q # p => pc'[q] = pc[q] /\ kind'[q] = kind[q] /\ tmp'[q] = tmp[q]
      /\ pc'[p] = "syncdir" => pc[p] = "unlink" /\ kind' = kind
      /\ pc'[p] # "unlink"
      /\ pc'[p] \in {"close", "land"} => tmp'[p] = "synced"
  BY DEF TypeOK, SyncedInv, Call, CreateTemp, WriteTemp, SyncTemp, CloseTemp, Unlink, Kill
<1>2. TypeOK'
  BY DEF TypeOK, Steps, Call, CreateTemp, WriteTemp, SyncTemp, CloseTemp, Unlink, Kill
<1>3. SyncedInv'
  BY <1>1 DEF SyncedInv
<1>4. OrderInv'
  BY <1>1 DEF OrderInv, Landed
<1>5. CreateInv' /\ OneCreator'
  BY <1>1 DEF CreateInv, OneCreator, Creating, Landed
<1>6. QED
  BY <1>2, <1>3, <1>4, <1>5

(* A rename or a link: the new contents are ahead of all others.           *)
LEMMA LandsInv ==
    ASSUME IndInv, NEW p \in Proc, pc[p] = "land", Lands(p)
    PROVE  /\ mine' \in [Proc -> Nat] /\ file' \in Content /\ maybe' \in SUBSET Content /\ last' \in Nat
           /\ file' \in maybe'
           /\ \A c \in maybe' : c.synced /\ acked <= c.n /\ c.n <= last'
           /\ \A q \in Proc : q = p \/ Landed(q) => 0 < mine'[q] /\ mine'[q] <= file'.n
<1> DEFINE new == [n |-> last + 1, synced |-> tmp[p] = "synced"]
<1>1. tmp[p] = "synced" /\ last \in Nat /\ acked \in Nat /\ maybe \in SUBSET Content
  BY DEF IndInv, SyncedInv, TypeOK
<1>2. new \in Content /\ new.n = last + 1 /\ new.synced
  <2>1. (tmp[p] = "synced") = TRUE
    BY <1>1
  <2>2. new = [n |-> last + 1, synced |-> TRUE]
    BY <2>1
  <2>3. QED
    BY <1>1, <2>2 DEF Content
<1>3. file' = new /\ maybe' = maybe \cup {new} /\ last' = last + 1 /\ mine' = [mine EXCEPT ![p] = last + 1]
  BY DEF Lands
<1>4. \A c \in maybe : c.n \in Nat /\ c.synced /\ acked <= c.n /\ c.n <= last
  BY <1>1 DEF IndInv, OrderInv, Content
<1>5. \A q \in Proc : Landed(q) => 0 < mine[q] /\ mine[q] <= last
  <2>1. file.n <= last /\ file.n \in Nat
    BY <1>4 DEF IndInv, OrderInv
  <2>2. QED
    BY <1>1, <2>1 DEF IndInv, OrderInv, TypeOK
<1>6. acked <= last
  BY <1>1, <1>4 DEF IndInv, OrderInv
<1>7. mine \in [Proc -> Nat]
  BY DEF IndInv, TypeOK
<1> HIDE DEF new
<1>8. QED
  BY <1>1, <1>2, <1>3, <1>4, <1>5, <1>6, <1>7

(* os.Rename.                                                              *)
LEMMA RenameInv ==
    ASSUME IndInv, NEW p \in Proc, Rename(p)
    PROVE  IndInv'
<1>1. CASE Fail(p)
  BY <1>1, TempInv
<1>2. CASE Lands(p) /\ Goto(p, "syncdir") /\ tmp' = [tmp EXCEPT ![p] = "none"] /\ UNCHANGED <<kind, acked, created>>
  <2>1. pc[p] = "land" /\ kind[p] = "write"
    BY DEF Rename
  <2>2. /\ mine' \in [Proc -> Nat] /\ file' \in Content /\ maybe' \in SUBSET Content /\ last' \in Nat
        /\ file' \in maybe'
        /\ \A c \in maybe' : c.synced /\ acked <= c.n /\ c.n <= last'
        /\ \A q \in Proc : q = p \/ Landed(q) => 0 < mine'[q] /\ mine'[q] <= file'.n
    BY <1>2, <2>1, LandsInv
  <2>3. TypeOK'
    BY <1>2, <2>2 DEF IndInv, TypeOK, Goto, Steps
  <2>4. SyncedInv'
    BY <1>2 DEF IndInv, TypeOK, SyncedInv, Goto
  <2>5. OrderInv'
    BY <1>2, <2>2 DEF IndInv, TypeOK, OrderInv, Goto, Landed
  <2>6. CreateInv' /\ OneCreator'
    BY <1>2, <2>1 DEF IndInv, TypeOK, CreateInv, OneCreator, Goto, Creating, Landed
  <2>7. QED
    BY <2>3, <2>4, <2>5, <2>6 DEF IndInv
<1>3. QED
  BY <1>1, <1>2 DEF Rename

(* os.Link: nothing is there, so no CreateFile has succeeded or is past    *)
(* its own link.                                                           *)
LEMMA LinkInv ==
    ASSUME IndInv, NEW p \in Proc, Link(p)
    PROVE  IndInv'
<1>1. CASE Fail(p)
  BY <1>1, TempInv
<1>2. CASE file.n = 0 /\ Lands(p) /\ Goto(p, "unlink") /\ UNCHANGED <<kind, tmp, acked, created>>
  <2>1. pc[p] = "land"
    BY DEF Link
  <2>2. /\ mine' \in [Proc -> Nat] /\ file' \in Content /\ maybe' \in SUBSET Content /\ last' \in Nat
        /\ file' \in maybe'
        /\ \A c \in maybe' : c.synced /\ acked <= c.n /\ c.n <= last'
        /\ \A q \in Proc : q = p \/ Landed(q) => 0 < mine'[q] /\ mine'[q] <= file'.n
    BY <1>2, <2>1, LandsInv
  <2>3. TypeOK'
    BY <1>2, <2>2 DEF IndInv, TypeOK, Goto, Steps
  <2>4. SyncedInv'
    BY <1>2 DEF IndInv, TypeOK, SyncedInv, Goto
  <2>5. OrderInv'
    BY <1>2, <2>2 DEF IndInv, TypeOK, OrderInv, Goto, Landed
  <2>6. acked = 0 /\ created = 0
    BY <1>2 DEF IndInv, TypeOK, OrderInv, CreateInv
  <2>7. \A q \in Proc : ~Landed(q)
    BY <1>2 DEF IndInv, TypeOK, OrderInv
  <2>8. CreateInv' /\ OneCreator'
    BY <1>2, <2>6, <2>7 DEF IndInv, TypeOK, CreateInv, OneCreator, Goto, Creating, Landed
  <2>9. QED
    BY <2>3, <2>4, <2>5, <2>8 DEF IndInv
<1>3. QED
  BY <1>1, <1>2 DEF Link

(* SyncDir: what it puts on disk is at least the landing it acknowledges.  *)
LEMMA SyncDirInv ==
    ASSUME IndInv, NEW p \in Proc, SyncDir(p)
    PROVE  IndInv'
<1>1. /\ pc[p] = "syncdir"
      /\ pc' = [pc EXCEPT ![p] = "idle"]
      /\ tmp' = [tmp EXCEPT ![p] = "none"]
      /\ UNCHANGED <<kind, mine, file, last>>
  BY DEF SyncDir, Return, Goto
<1>2. /\ file \in Content /\ acked \in Nat /\ created \in Nat /\ mine[p] \in Nat
      /\ 0 < mine[p] /\ mine[p] <= file.n /\ file.n \in Nat
      /\ file \in maybe /\ file.synced /\ acked <= file.n /\ file.n <= last
  BY <1>1 DEF IndInv, TypeOK, OrderInv, Landed, Content
<1>3. CASE UNCHANGED <<maybe, acked, created>>
  <2>1. TypeOK' /\ SyncedInv'
    BY <1>1, <1>3 DEF IndInv, TypeOK, SyncedInv, Steps
  <2>2. OrderInv'
    BY <1>1, <1>3 DEF IndInv, TypeOK, OrderInv, Landed
  <2>3. CreateInv' /\ OneCreator'
    BY <1>1, <1>3 DEF IndInv, TypeOK, CreateInv, OneCreator, Creating, Landed
  <2>4. QED
    BY <2>1, <2>2, <2>3 DEF IndInv
<1>4. CASE maybe' = {file} /\ Acknowledge(p)
  <2>1. acked' \in Nat /\ acked' <= file.n /\ acked' > 0
    BY <1>2, <1>4 DEF Acknowledge
  <2>2. created' = IF kind[p] = "create" THEN created + 1 ELSE created
    BY <1>4 DEF Acknowledge
  <2>3. TypeOK' /\ SyncedInv'
    BY <1>1, <1>2, <1>4, <2>1, <2>2 DEF IndInv, TypeOK, SyncedInv, Steps
  <2>4. OrderInv'
    BY <1>1, <1>2, <1>4, <2>1 DEF IndInv, TypeOK, OrderInv, Landed
  <2>5. kind[p] = "create" => created = 0 /\ \A q \in Proc : q # p => ~Creating(q)
    BY <1>1 DEF IndInv, CreateInv, Creating, Landed
  <2>6. \A q \in Proc : Creating(q)' => q # p /\ Creating(q)
    BY <1>1 DEF IndInv, TypeOK, Creating, Landed
  <2>7. CreateInv' /\ OneCreator'
    BY <1>2, <2>1, <2>2, <2>5, <2>6 DEF IndInv, CreateInv, OneCreator
  <2>8. QED
    BY <2>3, <2>4, <2>7 DEF IndInv
<1>5. QED
  BY <1>3, <1>4 DEF SyncDir

(* Power loss: nobody is at work, and the file is one the directory might  *)
(* hold, so not behind an acknowledged landing.                            *)
LEMMA PowerLossInv ==
    ASSUME IndInv, PowerLoss
    PROVE  IndInv'
<1>1. \A p \in Proc : pc'[p] = "idle"
  BY DEF PowerLoss
<1>2. TypeOK'
  BY DEF IndInv, TypeOK, PowerLoss, Steps
<1>3. SyncedInv'
  BY <1>1 DEF SyncedInv
<1>4. OrderInv'
  BY <1>1 DEF IndInv, OrderInv, PowerLoss, Landed
<1>5. CreateInv' /\ OneCreator'
  BY <1>1 DEF IndInv, CreateInv, OneCreator, PowerLoss, Creating, Landed
<1>6. QED
  BY <1>2, <1>3, <1>4, <1>5 DEF IndInv

(* The invariant is inductive: the data is synced before the name changes, *)
(* the name before the call returns.                                       *)
THEOREM DurableInvariant == Spec => []IndInv
<1>1. IndInv /\ [Next]_vars => IndInv'
  <2>1. SUFFICES ASSUME IndInv, [Next]_vars PROVE IndInv'
    OBVIOUS
  <2>2. ASSUME NEW p \in Proc, Step(p) \/ \E k \in {"write", "create"} : Call(p, k)
        PROVE  IndInv'
    BY <2>1, <2>2, TempInv, RenameInv, LinkInv, SyncDirInv DEF Step
  <2>3. CASE UNCHANGED vars
    BY <2>1, <2>3 DEF vars, IndInv, TypeOK, SyncedInv, OrderInv, CreateInv, OneCreator, Landed, Creating
  <2>4. QED
    BY <2>1, <2>2, <2>3, PowerLossInv DEF Next
<1>2. QED
  BY <1>1, InitInv, PTL DEF Spec

(* WriteFile and CreateFile never leave a torn file.                       *)
THEOREM DurableNeverTorn == Spec => []NeverTorn
<1>1. IndInv => NeverTorn
  BY DEF IndInv, OrderInv, NeverTorn
<1>2. QED
  BY <1>1, DurableInvariant, PTL

(* Contents whose call returned nil are never replaced by older ones.      *)
THEOREM DurableAcked == Spec => []AckedDurable
<1>1. IndInv => AckedDurable
  BY DEF IndInv, TypeOK, Content, OrderInv, AckedDurable
<1>2. QED
  BY <1>1, DurableInvariant, PTL

(* CreateFile returns nil at most once.                                    *)
THEOREM DurableOneCreator == Spec => []OneCreator
<1>1. IndInv => OneCreator
  BY DEF IndInv
<1>2. QED
  BY <1>1, DurableInvariant, PTL

(* The three together.                                                     *)
THEOREM DurableKept == Spec => []FileKept
<1>1. NeverTorn /\ AckedDurable /\ OneCreator => FileKept
  BY DEF FileKept
<1>2. QED
  BY <1>1, DurableNeverTorn, DurableAcked, DurableOneCreator, PTL

-----------------------------------------------------------------------------
(* Everything that may be found under the name is a version: synced, and   *)
(* numbered by its landing.                                                *)
LEMMA VersionsWhole ==
    ASSUME IndInv
    PROVE  /\ Version(file) = file.n /\ file.n \in Nat /\ file.n <= last
           /\ \A c \in maybe : Version(c) = c.n /\ c.n \in Nat /\ c.n <= last
           /\ {Version(c) : c \in maybe} = {c.n : c \in maybe}
BY DEF IndInv, TypeOK, OrderInv, Content, Version

(* A rename or a link replaces the file by a newer version.                *)
LEMMA LandsReplaces ==
    ASSUME IndInv, NEW p \in Proc, pc[p] = "land", Lands(p), UNCHANGED <<acked, created>>
    PROVE  Contract!Replace
<1> DEFINE new == [n |-> last + 1, synced |-> tmp[p] = "synced"]
<1>1. tmp[p] = "synced" /\ last \in Nat
  BY DEF IndInv, TypeOK, SyncedInv
<1>2. file' = new /\ maybe' = maybe \cup {new}
  BY DEF Lands
<1>3. Version(new) = last + 1
  BY <1>1 DEF Version
<1> HIDE DEF new
<1>4. {Version(c) : c \in maybe'} = {Version(c) : c \in maybe} \cup {Version(new)}
  BY <1>2
<1>5. \A m \in {Version(c) : c \in maybe} : m < last + 1
  BY <1>1, VersionsWhole
<1>6. QED
  BY <1>1, <1>2, <1>3, <1>4, <1>5 DEF Contract!Replace, Version

(* A directory sync makes what is there permanent, and is the one success  *)
(* of CreateFile if it ends one.                                           *)
LEMMA SyncDirConfirms ==
    ASSUME IndInv, NEW p \in Proc, pc[p] = "syncdir", maybe' = {file}, Acknowledge(p),
           UNCHANGED file
    PROVE  Contract!Confirm
<1>1. {Version(c) : c \in maybe'} = {Version(file)} /\ UNCHANGED Version(file)
  OBVIOUS
<1>2. acked \in Nat /\ mine[p] \in Nat /\ mine[p] <= file.n /\ acked <= file.n
  BY DEF IndInv, TypeOK, OrderInv, Landed
<1>3. acked' \in acked..Version(file)
  BY <1>2, VersionsWhole DEF Acknowledge
<1>4. created' = created \/ (created = 0 /\ created' = 1)
  <2>1. kind[p] = "create" => created = 0
    BY DEF IndInv, CreateInv, Creating, Landed
  <2>2. QED
    BY <2>1 DEF Acknowledge
<1>5. QED
  BY <1>1, <1>3, <1>4 DEF Contract!Confirm

(* A power loss leaves one of the versions that it may.                    *)
LEMMA PowerLossFallsBack ==
    ASSUME PowerLoss
    PROVE  Contract!PowerLoss
BY DEF PowerLoss, Contract!PowerLoss

(* Every step is a step of the file's contract, or does not concern it.    *)
LEMMA StepInContract ==
    ASSUME IndInv, [Next]_vars
    PROVE  [Contract!Next]_(Contract!vars)
<1> DEFINE Hidden == UNCHANGED <<file, maybe, acked, created>>
<1>1. CASE Hidden
  BY <1>1 DEF Contract!vars, Version
<1>2. ASSUME NEW p \in Proc, Rename(p) \/ Link(p)
      PROVE  Hidden \/ Contract!Replace
  <2>1. Hidden \/ (pc[p] = "land" /\ Lands(p) /\ UNCHANGED <<acked, created>>)
    BY <1>2 DEF Rename, Link, Fail
  <2>2. QED
    BY <2>1, LandsReplaces
<1>3. ASSUME NEW p \in Proc, SyncDir(p)
      PROVE  Hidden \/ Contract!Confirm
  <2>1. Hidden \/ (pc[p] = "syncdir" /\ maybe' = {file} /\ Acknowledge(p) /\ UNCHANGED file)
    BY <1>3 DEF SyncDir
  <2>2. QED
    BY <2>1, SyncDirConfirms
<1>4. ASSUME NEW p \in Proc,
             \/ \E k \in {"write", "create"} : Call(p, k)
             \/ CreateTemp(p) \/ WriteTemp(p) \/ SyncTemp(p) \/ CloseTemp(p) \/ Unlink(p) \/ Kill(p)
      PROVE  Hidden
  BY <1>4 DEF Call, CreateTemp, WriteTemp, SyncTemp, CloseTemp, Unlink, Kill, Fail
<1>5. CASE UNCHANGED vars
  BY <1>1, <1>5 DEF vars
<1>6. QED
  BY <1>1, <1>2, <1>3, <1>4, <1>5, PowerLossFallsBack DEF Next, Step, Contract!Next

(* For any number of writers and creators racing, failing and dying at any *)
(* step, and any power losses, durable is an atomic file.                  *)
THEOREM DurableImplements == Spec => ImplementsAtomicFile
<1>1. Init => Contract!Init
  BY DEF Init, Absent, Version, Contract!Init
<1>2. IndInv /\ [Next]_vars => [Contract!Next]_(Contract!vars)
  BY StepInContract
<1>3. QED
  BY <1>1, <1>2, DurableInvariant, PTL DEF Spec, ImplementsAtomicFile, Contract!Spec
=============================================================================
