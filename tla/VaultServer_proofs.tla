-------------------------- MODULE VaultServer_proofs --------------------------
(***************************************************************************)
(* Proofs about VaultServer, for any vaults, keys, entries, goroutines,    *)
(* quotas and clock, and any set of disk faults except where a theorem     *)
(* names the one it excludes.                                              *)
(***************************************************************************)
EXTENDS VaultServer, FiniteSetTheorems, WellFoundedInduction, TLAPS

-----------------------------------------------------------------------------
(* The sum of a set's sizes, as MapThenSumSet computes it: element by      *)
(* element, in the order CHOOSE takes them.                                *)
Pick(s) == CHOOSE x \in s : TRUE
IsTotal(f, S) == f = [s \in SUBSET S |-> IF s = {} THEN 0 ELSE Size[Pick(s)] + f[s \ {Pick(s)}]]

(* CHOOSE takes an element of the set.                                     *)
LEMMA PickIn == ASSUME NEW s, s # {} PROVE Pick(s) \in s
BY DEF Pick

(* Induction over sets of entries: any nonempty collection of them has a   *)
(* least.                                                                  *)
LEMMA LeastSet ==
    ASSUME NEW B, B \subseteq SUBSET Entry, B # {}
    PROVE  \E s \in B : \A r \in B : r \subseteq s => r = s
<1>1. \A s \in SUBSET Entry : IsFiniteSet(s)
  BY ServerConstants, FS_Subset
<1>2. B \subseteq FiniteSubsetsOf(Entry)
  BY <1>1 DEF FiniteSubsetsOf
<1>3. IsWellFoundedOn(StrictSubsetOrdering(Entry), FiniteSubsetsOf(Entry))
  BY FS_StrictSubsetOrderingWellFounded
<1>4. PICK s \in B : \A r \in B : <<r, s>> \notin StrictSubsetOrdering(Entry)
  BY <1>2, <1>3, WFMin
<1>5. ASSUME NEW r \in B, r \subseteq s, r # s PROVE FALSE
  BY <1>4, <1>5 DEF StrictSubsetOrdering
<1>6. QED
  BY <1>4, <1>5

(* One unfolding of the sum.                                               *)
LEMMA TotalStep ==
    ASSUME NEW f, NEW S \in SUBSET Entry, IsTotal(f, S), NEW s \in SUBSET S
    PROVE  /\ s = {} => f[s] = 0
           /\ s # {} => /\ Pick(s) \in s /\ f[s] = Size[Pick(s)] + f[s \ {Pick(s)}]
                        /\ s \ {Pick(s)} \in SUBSET S /\ s \ {Pick(s)} # s
<1>1. s # {} => Pick(s) \in s
  BY PickIn
<1> DEFINE F(r) == IF r = {} THEN 0 ELSE Size[Pick(r)] + f[r \ {Pick(r)}]
<1>2. f = [r \in SUBSET S |-> F(r)]
  BY DEF IsTotal
<1> HIDE DEF F
<1>3. f[s] = F(s)
  BY <1>2
<1>4. QED
  BY <1>1, <1>3 DEF F

(* A sum of sizes is a natural number.                                     *)
LEMMA TotalType ==
    ASSUME NEW f, NEW S \in SUBSET Entry, IsTotal(f, S)
    PROVE  \A s \in SUBSET S : f[s] \in Nat
<1> DEFINE B == {s \in SUBSET S : f[s] \notin Nat}
<1>1. SUFFICES ASSUME B # {} PROVE FALSE
  OBVIOUS
<1>2. PICK s \in B : \A r \in B : r \subseteq s => r = s
  <2>1. B \subseteq SUBSET Entry
    OBVIOUS
  <2> HIDE DEF B
  <2>2. QED
    BY <1>1, <2>1, LeastSet
<1>3. /\ s # {} /\ Pick(s) \in s
      /\ f[s] = Size[Pick(s)] + f[s \ {Pick(s)}]
      /\ s \ {Pick(s)} \in SUBSET S /\ s \ {Pick(s)} # s
  <2>1. s \in SUBSET S /\ f[s] \notin Nat
    OBVIOUS
  <2> HIDE DEF B
  <2>2. s = {} => f[s] = 0
    BY <2>1, TotalStep
  <2>3. s # {}
    BY <2>1, <2>2
  <2>4. QED
    BY <2>1, <2>3, TotalStep
<1>4. f[s \ {Pick(s)}] \in Nat
  BY <1>2, <1>3
<1>5. Size[Pick(s)] \in Nat
  BY <1>3, ServerConstants
<1>6. QED
  BY <1>2, <1>3, <1>4, <1>5

(* The sum over a set does not depend on the set it is taken in.           *)
LEMMA TotalAgree ==
    ASSUME NEW f, NEW g, NEW S \in SUBSET Entry, NEW U \in SUBSET Entry, S \subseteq U,
           IsTotal(f, S), IsTotal(g, U)
    PROVE  \A s \in SUBSET S : f[s] = g[s]
<1> DEFINE B == {s \in SUBSET S : f[s] # g[s]}
<1>1. SUFFICES ASSUME B # {} PROVE FALSE
  OBVIOUS
<1>2. PICK s \in B : \A r \in B : r \subseteq s => r = s
  <2>1. B \subseteq SUBSET Entry
    OBVIOUS
  <2> HIDE DEF B
  <2>2. QED
    BY <1>1, <2>1, LeastSet
<1>3. /\ s = {} => f[s] = 0
      /\ s # {} => /\ f[s] = Size[Pick(s)] + f[s \ {Pick(s)}]
                   /\ s \ {Pick(s)} \in SUBSET S /\ s \ {Pick(s)} # s
  BY TotalStep
<1>4. /\ s = {} => g[s] = 0
      /\ s # {} => g[s] = Size[Pick(s)] + g[s \ {Pick(s)}]
  <2>1. s \in SUBSET U
    OBVIOUS
  <2>2. QED
    BY <2>1, TotalStep
<1>5. s # {} => f[s \ {Pick(s)}] = g[s \ {Pick(s)}]
  BY <1>2, <1>3
<1>6. QED
  BY <1>2, <1>3, <1>4, <1>5

(* Nor on the order: any element may be taken first.                       *)
LEMMA TotalRemove ==
    ASSUME NEW f, NEW S \in SUBSET Entry, IsTotal(f, S)
    PROVE  \A s \in SUBSET S : \A x \in s : f[s] = Size[x] + f[s \ {x}]
<1> DEFINE Good(s) == \A x \in s : f[s] = Size[x] + f[s \ {x}]
<1> DEFINE B == {s \in SUBSET S : ~Good(s)}
<1>1. SUFFICES ASSUME B # {} PROVE FALSE
  OBVIOUS
<1>2. PICK s \in B : \A r \in B : r \subseteq s => r = s
  <2>1. B \subseteq SUBSET Entry
    OBVIOUS
  <2> HIDE DEF B
  <2>2. QED
    BY <1>1, <2>1, LeastSet
<1>3. PICK x \in s : f[s] # Size[x] + f[s \ {x}]
  BY <1>2
<1> DEFINE c == Pick(s)
<1>4. c \in s /\ f[s] = Size[c] + f[s \ {c}]
  BY <1>3, TotalStep
<1> HIDE DEF c
<1>5. c # x
  BY <1>3, <1>4
<1>6. s \ {c} \in SUBSET S /\ s \ {x} \in SUBSET S /\ s \ {c} # s /\ s \ {x} # s
  BY <1>3, <1>4
<1>7. Good(s \ {c}) /\ Good(s \ {x})
  BY <1>2, <1>6
<1>8. f[s \ {c}] = Size[x] + f[(s \ {c}) \ {x}]
  BY <1>3, <1>5, <1>7
<1>9. f[s \ {x}] = Size[c] + f[(s \ {x}) \ {c}]
  BY <1>4, <1>5, <1>7
<1>10. (s \ {c}) \ {x} = (s \ {x}) \ {c}
  OBVIOUS
<1>11. Size[x] \in Nat /\ Size[c] \in Nat
  BY <1>3, <1>4, ServerConstants
<1>12. f[(s \ {x}) \ {c}] \in Nat
  <2>1. (s \ {x}) \ {c} \in SUBSET S
    OBVIOUS
  <2>2. QED
    BY <2>1, TotalType
<1>13. f[s] = Size[c] + (Size[x] + f[(s \ {x}) \ {c}])
  BY <1>4, <1>8, <1>10
<1>14. f[s] = Size[x] + f[s \ {x}]
  BY <1>9, <1>11, <1>12, <1>13
<1>15. QED
  BY <1>3, <1>14

(* Induction over the naturals: any nonempty set of them has a least.      *)
LEMMA LeastNat ==
    ASSUME NEW B, B \subseteq Nat, B # {}
    PROVE  \E n \in B : \A m \in B : ~(m < n)
<1>1. PICK n \in B : \A m \in B : <<m, n>> \notin OpToRel(<, Nat)
  BY NatLessThanWellFounded, WFMin
<1>2. QED
  BY <1>1 DEF OpToRel

(* The sum over the subsets of at most n elements, the stages by which it  *)
(* is shown to exist.                                                      *)
Upto(S, n) == {s \in SUBSET S : Cardinality(s) <= n}
IsPart(f, S, n) == f = [s \in Upto(S, n) |-> IF s = {} THEN 0 ELSE Size[Pick(s)] + f[s \ {Pick(s)}]]

(* Every stage exists: the next one extends the last.                      *)
LEMMA PartExists ==
    ASSUME NEW S \in SUBSET Entry
    PROVE  \A n \in Nat : \E f : IsPart(f, S, n)
<1> DEFINE B == {n \in Nat : ~ \E f : IsPart(f, S, n)}
<1>1. SUFFICES ASSUME B # {} PROVE FALSE
  OBVIOUS
<1>2. PICK n \in B : \A m \in B : ~(m < n)
  <2>1. B \subseteq Nat
    OBVIOUS
  <2> HIDE DEF B
  <2>2. QED
    BY <1>1, <2>1, LeastNat
<1>f. \A s \in SUBSET S : IsFiniteSet(s) /\ Cardinality(s) \in Nat /\ (Cardinality(s) = 0 => s = {})
  <2>1. \A s \in SUBSET Entry : IsFiniteSet(s)
    BY ServerConstants, FS_Subset
  <2>2. QED
    BY <2>1, FS_CardinalityType, FS_EmptySet
<1>3. n # 0
  <2>1. SUFFICES ASSUME n = 0 PROVE \E f : IsPart(f, S, n)
    BY <1>2
  <2> DEFINE f == [s \in Upto(S, n) |-> 0]
  <2>2. \A s \in Upto(S, n) : s = {}
    BY <2>1, <1>f DEF Upto
  <2>3. f = [s \in Upto(S, n) |-> IF s = {} THEN 0 ELSE Size[Pick(s)] + f[s \ {Pick(s)}]]
    BY <2>2
  <2>4. QED
    BY <2>3 DEF IsPart
<1>4. n - 1 \in Nat /\ n - 1 < n
  BY <1>3
<1>5. PICK g : IsPart(g, S, n - 1)
  BY <1>2, <1>4
<1> DEFINE f == [s \in Upto(S, n) |-> IF s = {} THEN 0 ELSE Size[Pick(s)] + g[s \ {Pick(s)}]]
<1>6. ASSUME NEW s \in Upto(S, n), s # {}
      PROVE  s \ {Pick(s)} \in Upto(S, n - 1) /\ s \ {Pick(s)} \in Upto(S, n)
  <2>1. IsFiniteSet(s) /\ Pick(s) \in s /\ Cardinality(s) \in Nat /\ Cardinality(s) <= n
    BY <1>6, <1>f, PickIn DEF Upto
  <2>2. Cardinality(s \ {Pick(s)}) = Cardinality(s) - 1
    BY <2>1, FS_RemoveElement
  <2>3. QED
    BY <2>1, <2>2 DEF Upto
<1>7. ASSUME NEW s \in Upto(S, n - 1) PROVE f[s] = g[s]
  <2>1. s \in Upto(S, n)
    BY <1>f DEF Upto
  <2>2. f[s] = IF s = {} THEN 0 ELSE Size[Pick(s)] + g[s \ {Pick(s)}]
    BY <2>1
  <2> DEFINE F(r) == IF r = {} THEN 0 ELSE Size[Pick(r)] + g[r \ {Pick(r)}]
  <2>3. g = [r \in Upto(S, n - 1) |-> F(r)]
    BY <1>5 DEF IsPart
  <2> HIDE DEF F
  <2>4. g[s] = F(s)
    BY <2>3
  <2>5. QED
    BY <2>2, <2>4 DEF F
<1>8. ASSUME NEW s \in Upto(S, n), s # {} PROVE f[s \ {Pick(s)}] = g[s \ {Pick(s)}]
  BY <1>6, <1>7, <1>8
<1>9. f = [s \in Upto(S, n) |-> IF s = {} THEN 0 ELSE Size[Pick(s)] + f[s \ {Pick(s)}]]
  <2> DEFINE G(s) == IF s = {} THEN 0 ELSE Size[Pick(s)] + g[s \ {Pick(s)}]
             F(s) == IF s = {} THEN 0 ELSE Size[Pick(s)] + f[s \ {Pick(s)}]
  <2>1. \A s \in Upto(S, n) : F(s) = G(s)
    <3> HIDE DEF f
    <3>1. QED
      BY <1>8
  <2>2. f = [s \in Upto(S, n) |-> G(s)]
    OBVIOUS
  <2> HIDE DEF f, F, G
  <2>3. f = [s \in Upto(S, n) |-> F(s)]
    BY <2>1, <2>2
  <2>4. QED
    BY <2>3 DEF F
<1>10. IsPart(f, S, n)
  BY <1>9 DEF IsPart
<1>11. QED
  BY <1>2, <1>10

(* Bytes is that sum.                                                      *)
LEMMA BytesTotal ==
    ASSUME NEW S \in SUBSET Entry
    PROVE  \E f : IsTotal(f, S) /\ Bytes(S) = f[S]
<1>1. IsFiniteSet(S)
  BY ServerConstants, FS_Subset
<1>2. Cardinality(S) \in Nat
  BY <1>1, FS_CardinalityType
<1>3. Upto(S, Cardinality(S)) = SUBSET S
  BY <1>1, FS_Subset DEF Upto
<1>4. PICK f : IsPart(f, S, Cardinality(S))
  BY <1>2, PartExists
<1>5. IsTotal(f, S)
  BY <1>3, <1>4 DEF IsPart, IsTotal
<1>6. Bytes(S) = (CHOOSE g : IsTotal(g, S))[S]
  BY DEF Bytes, MapThenSumSet, MapThenFoldSet, IsTotal, Pick
<1>7. IsTotal(CHOOSE g : IsTotal(g, S), S)
  BY <1>5
<1>8. QED
  BY <1>6, <1>7

(* What Bytes is of the empty set, and with one entry more.                *)
LEMMA BytesFacts ==
    /\ Bytes({}) = 0
    /\ \A S \in SUBSET Entry : Bytes(S) \in Nat
    /\ \A S \in SUBSET Entry : \A x \in Entry \ S : Bytes(S \cup {x}) = Size[x] + Bytes(S)
<1>1. ASSUME NEW S \in SUBSET Entry PROVE Bytes(S) \in Nat
  <2>1. PICK f : IsTotal(f, S) /\ Bytes(S) = f[S]
    BY BytesTotal
  <2>2. QED
    BY <2>1, TotalType
<1>2. Bytes({}) = 0
  <2>1. {} \in SUBSET Entry
    OBVIOUS
  <2>2. PICK f : IsTotal(f, {}) /\ Bytes({}) = f[{}]
    BY <2>1, BytesTotal
  <2>3. QED
    BY <2>1, <2>2, TotalStep
<1>3. ASSUME NEW S \in SUBSET Entry, NEW x \in Entry \ S
      PROVE  Bytes(S \cup {x}) = Size[x] + Bytes(S)
  <2> DEFINE U == S \cup {x}
  <2>1. U \in SUBSET Entry /\ S \subseteq U /\ x \in U /\ U \ {x} = S
    OBVIOUS
  <2> HIDE DEF U
  <2>2. PICK f : IsTotal(f, S) /\ Bytes(S) = f[S]
    BY BytesTotal
  <2>3. PICK g : IsTotal(g, U) /\ Bytes(U) = g[U]
    BY <2>1, BytesTotal
  <2>4. f[S] = g[S]
    <3>1. S \in SUBSET S
      OBVIOUS
    <3>2. QED
      BY <2>1, <2>2, <2>3, <3>1, TotalAgree
  <2>5. g[U] = Size[x] + g[S]
    <3>1. U \in SUBSET U
      OBVIOUS
    <3>2. QED
      BY <2>1, <2>3, <3>1, TotalRemove
  <2>6. QED
    BY <2>2, <2>3, <2>4, <2>5 DEF U
<1>4. QED
  BY <1>1, <1>2, <1>3

(* Bytes adds over disjoint sets: the accounting of addValidatedLocked,    *)
(* which adds the size of the new entries only, counts every entry once.   *)
LEMMA BytesUnion ==
    ASSUME NEW S \in SUBSET Entry, NEW T \in SUBSET Entry, S \cap T = {}
    PROVE  Bytes(S \cup T) = Bytes(S) + Bytes(T)
<1> DEFINE B == {R \in SUBSET T : Bytes(S \cup R) # Bytes(S) + Bytes(R)}
<1>1. SUFFICES ASSUME B # {} PROVE FALSE
  OBVIOUS
<1>2. PICK R \in B : \A r \in B : r \subseteq R => r = R
  <2>1. B \subseteq SUBSET Entry
    OBVIOUS
  <2> HIDE DEF B
  <2>2. QED
    BY <1>1, <2>1, LeastSet
<1>3. R \in SUBSET T /\ Bytes(S \cup R) # Bytes(S) + Bytes(R)
  OBVIOUS
<1>4. R # {}
  <2>1. Bytes(S) \in Nat /\ Bytes({}) = 0 /\ S \cup {} = S
    BY BytesFacts
  <2>2. QED
    BY <1>3, <2>1
<1>5. PICK x \in R : TRUE
  BY <1>4
<1> DEFINE Q == R \ {x}
<1>6. /\ Q \in SUBSET Entry /\ S \cup Q \in SUBSET Entry
      /\ x \in Entry \ Q /\ x \in Entry \ (S \cup Q)
      /\ Q \cup {x} = R /\ (S \cup Q) \cup {x} = S \cup R
  BY <1>3, <1>5
<1>7. Bytes(S \cup Q) = Bytes(S) + Bytes(Q)
  <2>1. Q \in SUBSET T /\ Q \subseteq R /\ Q # R
    BY <1>3, <1>5
  <2>2. Q \notin B
    BY <1>2, <2>1
  <2>3. QED
    BY <2>1, <2>2
<1> HIDE DEF Q, B
<1>8. Bytes(R) = Size[x] + Bytes(Q) /\ Bytes(S \cup R) = Size[x] + Bytes(S \cup Q)
  BY <1>6, BytesFacts
<1>9. Bytes(S) \in Nat /\ Bytes(Q) \in Nat /\ Size[x] \in Nat
  BY <1>6, BytesFacts, ServerConstants
<1>10. QED
  BY <1>3, <1>7, <1>8, <1>9
-----------------------------------------------------------------------------
(* What each of the three ways a goroutine moves leaves in th.             *)
Pcs == {"start", "sweep", "create", "openlog", "remove", "expire", "ending", "op"}

(* The fields of a goroutine that handles a request.                       *)
LEMMA InRequest ==
    ASSUME TypeOK, NEW t \in Thread, th[t].pc # "idle"
    PROVE  /\ th[t] \in Request
           /\ th[t].pc \in Pcs /\ th[t].op \in AllOps /\ th[t].v \in Vault /\ th[t].key \in Key
           /\ th[t].flag \in BOOLEAN /\ th[t].es \in SUBSET Entry
           /\ th[t].ending \in Vault /\ th[t].then \in {"idle", "sweep"}
<1>1. th[t] \in Request \cup {Idle} /\ th[t] # Idle
  BY DEF TypeOK, Idle
<1>2. QED
  BY <1>1 DEF Request, Pcs

(* A goroutine goes on to another place with the same request.             *)
LEMMA GotoMoves ==
    ASSUME TypeOK, NEW t \in Thread, th[t].pc # "idle", NEW pc \in Pcs, Goto(t, pc)
    PROVE  /\ th' \in [Thread -> Request \cup {Idle}]
           /\ th'[t] = [th[t] EXCEPT !.pc = pc]
           /\ th'[t].pc = pc /\ th'[t].op = th[t].op /\ th'[t].v = th[t].v
           /\ th'[t].ending = th[t].ending /\ th'[t].then = th[t].then
           /\ \A u \in Thread : u # t => th'[u] = th[u]
<1>1. th[t] \in Request
  BY InRequest
<1>2. /\ th'[t] = [th[t] EXCEPT !.pc = pc]
      /\ \A u \in Thread : u # t => th'[u] = th[u]
      /\ DOMAIN th' = Thread /\ th' = [u \in Thread |-> th'[u]]
  BY DEF Goto, TypeOK
<1>3. th'[t] \in Request
  BY <1>1, <1>2 DEF Request, Pcs
<1>4. /\ th'[t].pc = pc /\ th'[t].op = th[t].op /\ th'[t].v = th[t].v
      /\ th'[t].ending = th[t].ending /\ th'[t].then = th[t].then
  BY <1>1, <1>2 DEF Request
<1>5. th' \in [Thread -> Request \cup {Idle}]
  BY <1>2, <1>3 DEF TypeOK
<1>6. QED
  BY <1>2, <1>4, <1>5

(* A goroutine answers.                                                    *)
LEMMA ReplyMoves ==
    ASSUME TypeOK, NEW t \in Thread, Reply(t)
    PROVE  /\ th' \in [Thread -> Request \cup {Idle}]
           /\ th'[t] = Idle /\ th'[t].pc = "idle"
           /\ \A u \in Thread : u # t => th'[u] = th[u]
BY DEF Reply, TypeOK, Idle

(* A goroutine has ended a vault and is about to delete its log.           *)
LEMMA EndByMoves ==
    ASSUME TypeOK, NEW t \in Thread, th[t].pc # "idle", NEW v \in Vault,
           NEW then \in {"idle", "sweep"}, EndBy(t, v, then)
    PROVE  /\ th' \in [Thread -> Request \cup {Idle}]
           /\ th'[t].pc = "remove" /\ th'[t].ending = v /\ th'[t].then = then
           /\ th'[t].v = th[t].v /\ th'[t].op = th[t].op
           /\ \A u \in Thread : u # t => th'[u] = th[u]
<1>1. th[t] \in Request
  BY InRequest
<1>2. /\ th'[t] = [th[t] EXCEPT !.pc = "remove", !.ending = v, !.then = then]
      /\ \A u \in Thread : u # t => th'[u] = th[u]
      /\ th' = [u \in Thread |-> th'[u]]
  BY DEF EndBy, TypeOK
<1>3. th'[t] \in Request
  BY <1>1, <1>2 DEF Request
<1>4. /\ th'[t].pc = "remove" /\ th'[t].ending = v /\ th'[t].then = then
      /\ th'[t].v = th[t].v /\ th'[t].op = th[t].op
  BY <1>1, <1>2 DEF Request
<1>5. th' \in [Thread -> Request \cup {Idle}]
  BY <1>2, <1>3 DEF TypeOK
<1>6. QED
  BY <1>2, <1>4, <1>5

(* What ending a vault makes of its record, and what it leaves.            *)
LEMMA EndedRecord ==
    ASSUME TypeOK, NEW v \in Vault, rec' = [rec EXCEPT ![v].state = "ended"]
    PROVE  /\ rec' \in [Vault -> Record]
           /\ rec'[v].state = "ended" /\ rec'[v].key = rec[v].key
           /\ rec'[v].eph = rec[v].eph /\ rec'[v].created = rec[v].created
           /\ \A w \in Vault : w # v => rec'[w] = rec[w]
BY DEF TypeOK, Record

(* The record of a failed end is the old one, or the ended one when only   *)
(* the directory sync failed.                                              *)
LEMMA FailedRecord ==
    ASSUME TypeOK, NEW v \in Vault, EndFails(v)
    PROVE  \/ rec' = rec
           \/ /\ "recordsync" \in Faults
              /\ rec' = [rec EXCEPT ![v].state = "ended"]
BY DEF EndFails

(* What an accepted batch makes of the log, the account and the history.   *)
LEMMA Added ==
    ASSUME TypeOK, NEW v \in Vault, NEW es \in SUBSET Entry, AddValidated(v, es)
    PROVE  /\ elog' \in [Vault -> SUBSET Entry] /\ acked' \in [Vault -> SUBSET Entry]
           /\ st' \in [Vault -> State]
           /\ elog'[v] = elog[v] \cup es /\ acked'[v] = acked[v] \cup es
           /\ st'[v].key = st[v].key /\ st'[v].eph = st[v].eph
           /\ st'[v].created = st[v].created /\ st'[v].noPush = st[v].noPush
           /\ st'[v].bytes = st[v].bytes + Bytes(New(v, es))
           /\ \A w \in Vault : w # v => elog'[w] = elog[w] /\ acked'[w] = acked[w] /\ st'[w] = st[w]
<1>1. New(v, es) \in SUBSET Entry
  BY DEF New
<1>2. Bytes(New(v, es)) \in Nat
  BY <1>1, BytesFacts
<1> DEFINE n == Bytes(New(v, es))
<1>3. st' = [st EXCEPT ![v].bytes = @ + n] /\ n \in Nat
  BY <1>2 DEF AddValidated
<1> HIDE DEF n
<1>4. st[v] \in State /\ st[v].bytes + n \in Nat
  BY <1>3 DEF TypeOK, State
<1>5. /\ st' \in [Vault -> State]
      /\ st'[v].key = st[v].key /\ st'[v].eph = st[v].eph
      /\ st'[v].created = st[v].created /\ st'[v].noPush = st[v].noPush
      /\ st'[v].bytes = st[v].bytes + n
      /\ \A w \in Vault : w # v => st'[w] = st[w]
  BY <1>3, <1>4 DEF TypeOK, State
<1>6. /\ elog' \in [Vault -> SUBSET Entry] /\ acked' \in [Vault -> SUBSET Entry]
      /\ elog'[v] = elog[v] \cup es /\ acked'[v] = acked[v] \cup es
      /\ \A w \in Vault : w # v => elog'[w] = elog[w] /\ acked'[w] = acked[w]
  BY DEF AddValidated, TypeOK
<1>7. QED
  BY <1>5, <1>6 DEF n

(* The vaultState made of a record.                                        *)
LEMMA Opened ==
    ASSUME TypeOK, NEW v \in Vault, NEW n \in Nat,
           st' = [st EXCEPT ![v] = [key |-> rec[v].key, eph |-> rec[v].eph,
                     created |-> rec[v].created, bytes |-> n, noPush |-> FALSE]]
    PROVE  /\ st' \in [Vault -> State]
           /\ st'[v].key = rec[v].key /\ st'[v].eph = rec[v].eph
           /\ st'[v].created = rec[v].created /\ st'[v].bytes = n
           /\ \A w \in Vault : w # v => st'[w] = st[w]
<1>1. /\ rec[v].key \in Key \cup {NoKey} /\ rec[v].eph \in BOOLEAN /\ rec[v].created \in Nat
  BY DEF TypeOK, Record
<1>2. QED
  BY <1>1 DEF TypeOK, State

(* The first answer for a vault fixes what it promises.                    *)
LEMMA Promised ==
    ASSUME TypeOK, NEW v \in Vault, Promise(v)
    PROVE  /\ bound' \in [Vault -> Record]
           /\ bound'[v] = IF bound[v] = NoRecord THEN rec[v] ELSE bound[v]
           /\ \A w \in Vault : w # v => bound'[w] = bound[w]
BY DEF TypeOK, Promise

(* What a vault without a record and without a vaultState has.             *)
LEMMA NothingTyped == NoState \in State /\ NoRecord \in Record
BY DEF NoState, NoRecord, State, Record

(* The record createVaultLocked writes.                                    *)
LEMMA NewRecord ==
    ASSUME TypeOK, NEW v \in Vault, NEW k \in Key, NEW e \in BOOLEAN,
           rec' = [rec EXCEPT ![v] = LiveRecord(k, e)]
    PROVE  /\ rec' \in [Vault -> Record]
           /\ rec'[v].state = "live"
           /\ \A w \in Vault : w # v => rec'[w] = rec[w]
<1>1. clock \in Nat
  BY ServerConstants DEF TypeOK
<1>2. LiveRecord(k, e) \in Record /\ LiveRecord(k, e).state = "live"
  BY <1>1 DEF LiveRecord, Record
<1>3. QED
  BY <1>2 DEF TypeOK

-----------------------------------------------------------------------------
(* Init has the types.                                                     *)
LEMMA TypeInit == Init => TypeOK
BY NothingTyped, ServerConstants DEF Init, TypeOK

(* Ending a vault leaves the types, whoever does it.                       *)
LEMMA EndByType ==
    ASSUME TypeOK, NEW t \in Thread, th[t].pc # "idle", NEW v \in Vault,
           NEW then \in {"idle", "sweep"}, EndBy(t, v, then)
    PROVE  /\ rec' \in [Vault -> Record] /\ haslog' \in SUBSET Vault
           /\ elog' \in [Vault -> SUBSET Entry] /\ served' \in SUBSET Vault
           /\ revoked' \in SUBSET Vault /\ gone' \in SUBSET Vault /\ st' \in [Vault -> State]
           /\ mu' \in Thread \cup {NoThread} /\ th' \in [Thread -> Request \cup {Idle}]
<1>1. th' \in [Thread -> Request \cup {Idle}]
  BY EndByMoves
<1>2. rec' \in [Vault -> Record]
  BY EndedRecord DEF EndBy, EndVault
<1>3. QED
  BY <1>1, <1>2 DEF EndBy, EndVault, TypeOK

(* So does failing to.                                                     *)
LEMMA EndFailsByType ==
    ASSUME TypeOK, NEW t \in Thread, NEW v \in Vault, EndFailsBy(t, v)
    PROVE  /\ rec' \in [Vault -> Record] /\ haslog' \in SUBSET Vault
           /\ elog' \in [Vault -> SUBSET Entry] /\ served' \in SUBSET Vault
           /\ revoked' \in SUBSET Vault /\ gone' \in SUBSET Vault /\ st' \in [Vault -> State]
           /\ mu' \in Thread \cup {NoThread} /\ th' \in [Thread -> Request \cup {Idle}]
<1>1. rec' \in [Vault -> Record]
  BY EndedRecord, FailedRecord DEF EndFailsBy, TypeOK
<1>2. QED
  BY <1>1, ReplyMoves DEF EndFailsBy, EndFails, memory, Unlock, TypeOK

(* And so does deleting a log.                                             *)
LEMMA RemoveLogType ==
    ASSUME TypeOK, NEW v \in Vault, RemoveLog(v)
    PROVE  haslog' \in SUBSET Vault /\ elog' \in [Vault -> SUBSET Entry]
BY DEF RemoveLog, TypeOK

(* A step of the sweep ends one vault that is due, fails to, or, with none *)
(* due, judges the cap.                                                    *)
LEMMA SweepShape ==
    ASSUME NEW t, SweepVaults(t)
    PROVE  /\ At(t, "sweep") /\ UNCHANGED <<clock, stage, toload, history>>
           /\ \/ \E w \in served : Expired(w) /\ (EndBy(t, w, "sweep") \/ EndFailsBy(t, w))
              \/ /\ \/ Reply(t) /\ Unlock
                    \/ Goto(t, "create") /\ UNCHANGED mu /\ ~(Cardinality(served) >= MaxVaults)
                 /\ UNCHANGED <<disk, memory>>
<1>1. At(t, "sweep") /\ UNCHANGED <<clock, stage, toload, history>>
  BY DEF SweepVaults
<1>2. CASE \E w \in {x \in served : Expired(x)} : EndBy(t, w, "sweep") \/ EndFailsBy(t, w)
  BY <1>1, <1>2
<1>3. CASE ~ \E w \in {x \in served : Expired(x)} : EndBy(t, w, "sweep") \/ EndFailsBy(t, w)
  <2>1. /\ IF Cardinality(served) >= MaxVaults
           THEN Reply(t) /\ Unlock
           ELSE Goto(t, "create") /\ UNCHANGED mu
        /\ UNCHANGED <<disk, memory>>
    BY <1>3, Zenon DEF SweepVaults
  <2>2. QED
    BY <1>1, <2>1, Zenon
<1>4. QED
  BY <1>2, <1>3

(* No step leaves the types.                                               *)
LEMMA TypeStep == TypeOK /\ [Next]_vars => TypeOK'
<1>1. SUFFICES ASSUME TypeOK, [Next]_vars PROVE TypeOK'
  OBVIOUS
<1> USE <1>1
<1>2. CASE UNCHANGED vars
  BY <1>2 DEF vars, disk, memory, history, TypeOK
<1>3. CASE Tick \/ Exit \/ Start \/ Serve
  BY <1>3, NothingTyped, ServerConstants
     DEF Tick, Exit, Start, Serve, disk, memory, history, TypeOK
<1>4. CASE LoadSweep
  <2>1. PICK v \in served :
          \/ EndVault(v) /\ RemoveLog(v) /\ UNCHANGED stage
          \/ /\ \/ "record" \in Faults /\ UNCHANGED rec
                \/ "recordsync" \in Faults /\ rec' = [rec EXCEPT ![v].state = "ended"]
             /\ stage' = "down"
             /\ served' = {}
             /\ revoked' = {}
             /\ gone' = {}
             /\ st' = [w \in Vault |-> NoState]
             /\ UNCHANGED <<haslog, elog>>
    BY <1>4 DEF LoadSweep
  <2>2. v \in Vault
    BY DEF TypeOK
  <2>3. rec' \in [Vault -> Record]
    BY <2>1, <2>2, EndedRecord DEF EndVault, TypeOK
  <2>4. QED
    BY <1>4, <2>1, <2>2, <2>3, NothingTyped, RemoveLogType
       DEF LoadSweep, EndVault, history, TypeOK
<1>5. ASSUME NEW v \in Vault, LoadVault(v) PROVE TypeOK'
  <2>1. LoadRefused(v) \/ LoadEnded(v) \/ LoadSkipped(v) => TypeOK'
    BY <1>5, RemoveLogType
       DEF LoadVault, LoadRefused, LoadEnded, LoadSkipped, history, TypeOK
  <2>2. CASE LoadLive(v)
    <3>1. Bytes(elog[v]) \in Nat
      BY BytesFacts DEF TypeOK
    <3>2. st' \in [Vault -> State]
      BY <2>2, <3>1, Opened DEF LoadLive
    <3>3. QED
      BY <1>5, <2>2, <3>2 DEF LoadVault, LoadLive, history, TypeOK
  <2>3. QED
    BY <1>5, <2>1, <2>2 DEF LoadVault
<1>6. ASSUME NEW v \in Vault, DropVaultDir(v) PROVE TypeOK'
  <2>1. clock \in Nat
    BY ServerConstants DEF TypeOK
  <2>2. rec' \in [Vault -> Record]
    <3> DEFINE r == [state |-> "ended", key |-> NoKey, eph |-> FALSE, created |-> clock]
    <3>1. r \in Record
      BY <2>1 DEF Record
    <3>2. \/ rec' = rec
          \/ rec' = [rec EXCEPT ![v].state = "ended"]
          \/ rec' = [rec EXCEPT ![v] = r]
      BY <1>6 DEF DropVaultDir
    <3> HIDE DEF r
    <3>3. QED
      BY <3>1, <3>2, EndedRecord DEF TypeOK
  <2>3. QED
    BY <1>6, <2>2, RemoveLogType DEF DropVaultDir, memory, TypeOK
<1>7. ASSUME NEW v \in Vault, Damage(v) PROVE TypeOK'
  <2>1. rec' \in [Vault -> Record]
    BY <1>7, SMTT(30) DEF Damage, TypeOK, Record
  <2>2. QED
    BY <1>7, <2>1 DEF Damage, memory, history, TypeOK
<1>8. ASSUME NEW t \in Thread, Arrive(t) PROVE TypeOK'
  <2>1. th' \in [Thread -> Request \cup {Idle}]
    <3>1. PICK op \in Ops, v \in Vault, k \in Key, f \in BOOLEAN, es \in SUBSET Entry :
             th' = [th EXCEPT ![t] =
                [pc |-> "start", op |-> op, v |-> v, key |-> k, flag |-> f, es |-> es,
                 ending |-> v, then |-> "idle"]]
      BY <1>8 DEF Arrive
    <3> DEFINE r == [pc |-> "start", op |-> op, v |-> v, key |-> k, flag |-> f, es |-> es,
                     ending |-> v, then |-> "idle"]
    <3>2. r \in Request
      BY ServerConstants DEF Request
    <3>3. th' = [th EXCEPT ![t] = r]
      BY <3>1
    <3> HIDE DEF r
    <3>4. QED
      BY <3>2, <3>3 DEF TypeOK
  <2>2. QED
    BY <1>8, <2>1 DEF Arrive, disk, memory, history, TypeOK
<1>9. ASSUME NEW t \in Thread, Handle(t) PROVE TypeOK'
  <2> DEFINE v == th[t].v
  <2>1. th[t].pc # "idle"
    BY <1>9 DEF Handle, RegisterExpired, RegisterKnown, RegisterNew, SweepVaults, EnsureVault,
       CreateRecord, CreateLog, SyncLookup, ExpireCheck, ExpireVault, Read, Push, DropByHolder,
       DropVault, OwnerLookup, AddEntries, SetNoPush, RemoveStep, Starts, Performs, At
  <2>2. /\ v \in Vault /\ th[t].key \in Key /\ th[t].flag \in BOOLEAN
        /\ th[t].es \in SUBSET Entry /\ th[t].ending \in Vault
    BY <2>1, InRequest
  <2> HIDE DEF v
  <2>3. \A pc \in Pcs : Goto(t, pc) => th' \in [Thread -> Request \cup {Idle}]
    BY <2>1, GotoMoves
  <2>4. Reply(t) => th' \in [Thread -> Request \cup {Idle}]
    BY ReplyMoves
  <2>5. CASE RegisterExpired(t)
    BY <2>1, <2>2, <2>5, EndByType, EndFailsByType DEF RegisterExpired, history, TypeOK, v
  <2>6. CASE RegisterKnown(t)
    <3>1. bound' \in [Vault -> Record]
      BY <2>2, <2>6, Promised DEF RegisterKnown, TypeOK, v
    <3>2. QED
      BY <2>4, <2>6, <3>1 DEF RegisterKnown, disk, memory, TypeOK
  <2>7. CASE RegisterNew(t)
    BY <2>3, <2>7 DEF RegisterNew, disk, memory, history, TypeOK, Pcs
  <2>8. CASE SweepVaults(t)
    <3> DEFINE Ends == \E w \in served : Expired(w) /\ (EndBy(t, w, "sweep") \/ EndFailsBy(t, w))
               Judges == /\ \/ Reply(t) /\ Unlock
                            \/ Goto(t, "create") /\ UNCHANGED mu /\ ~(Cardinality(served) >= MaxVaults)
                         /\ UNCHANGED <<disk, memory>>
    <3>0. Ends \/ Judges
      BY <2>8, SweepShape
    <3>1. CASE Ends
      BY <2>1, <2>8, <3>1, EndByType, EndFailsByType, SweepShape DEF history, TypeOK
    <3>2. CASE Judges
      BY <2>3, <2>4, <2>8, <3>2 DEF SweepVaults, Unlock, disk, memory, history, TypeOK, Pcs
    <3>3. QED
      BY <3>0, <3>1, <3>2
  <2>9. CASE EnsureVault(t)
    <3>1. bound' \in [Vault -> Record]
      BY <2>2, <2>9, Promised DEF EnsureVault, TypeOK, v
    <3>2. QED
      BY <2>3, <2>4, <2>9, <3>1 DEF EnsureVault, disk, memory, TypeOK, Pcs
  <2>10. CASE CreateRecord(t)
    <3>1. rec' \in [Vault -> Record]
      BY <2>2, <2>10, NewRecord DEF CreateRecord, TypeOK, v
    <3>2. QED
      BY <2>3, <2>4, <2>10, <3>1 DEF CreateRecord, Unlock, memory, history, TypeOK, Pcs
  <2>11. CASE CreateLog(t)
    <3>1. bound' \in [Vault -> Record]
      BY <2>2, <2>11, Promised DEF CreateLog, TypeOK, v
    <3>2. st' \in [Vault -> State]
      BY <2>2, <2>11, Opened DEF CreateLog, TypeOK, v
    <3>3. QED
      BY <2>2, <2>4, <2>11, <3>1, <3>2 DEF CreateLog, Unlock, TypeOK, v
  <2>12. CASE SyncLookup(t) \/ OwnerLookup(t) \/ Read(t)
    BY <2>3, <2>4, <2>12 DEF SyncLookup, OwnerLookup, Read, disk, memory, history, TypeOK, Pcs
  <2>13. CASE ExpireCheck(t)
    BY <2>3, <2>13 DEF ExpireCheck, disk, memory, history, TypeOK, Pcs
  <2>14. CASE ExpireVault(t)
    BY <2>1, <2>2, <2>4, <2>14, EndByType, EndFailsByType
       DEF ExpireVault, disk, memory, history, TypeOK, v
  <2>15. CASE Push(t)
    BY <2>2, <2>4, <2>15, Added DEF Push, TypeOK, v
  <2>16. CASE AddEntries(t)
    BY <2>2, <2>4, <2>16, Added DEF AddEntries, TypeOK, v
  <2>17. CASE SetNoPush(t)
    <3>1. st' \in [Vault -> State]
      BY <2>2, <2>17 DEF SetNoPush, State, TypeOK, v
    <3>2. QED
      BY <2>2, <2>4, <2>17, <3>1 DEF SetNoPush, disk, TypeOK, v
  <2>18. CASE DropByHolder(t)
    BY <2>1, <2>2, <2>4, <2>18, EndByType, EndFailsByType
       DEF DropByHolder, disk, memory, history, TypeOK, v
  <2>19. CASE DropVault(t)
    BY <2>1, <2>2, <2>4, <2>19, EndByType, EndFailsByType
       DEF DropVault, disk, memory, TypeOK, v
  <2>20. CASE RemoveStep(t)
    BY <2>2, <2>3, <2>4, <2>20, RemoveLogType
       DEF RemoveStep, Unlock, memory, history, TypeOK, Pcs
  <2>21. QED
    BY <1>9, <2>5, <2>6, <2>7, <2>8, <2>9, <2>10, <2>11, <2>12, <2>13, <2>14, <2>15, <2>16,
       <2>17, <2>18, <2>19, <2>20 DEF Handle
<1>10. QED
  BY <1>1, <1>2, <1>3, <1>4, <1>5, <1>6, <1>7, <1>8, <1>9 DEF Next

-----------------------------------------------------------------------------
(* The inductive invariant.  Known: the vaults this process knows of, by a *)
(* directory still to be read, by serving them or by refusing them.        *)
Known == toload \cup served \cup revoked

(* What the process's stage says about its memory.                         *)
ProcessInv ==
    /\ stage = "down" => Known = {}
    /\ stage = "up" => toload = {}
    /\ stage # "up" => readonly = {} /\ \A t \in Thread : th[t] = Idle
    /\ \A v \in toload : v \notin served \cup revoked

(* The maps: a served vault agrees with its record, which is not damaged   *)
(* while it is served.  It is live, unless a directory sync failed.        *)
MapInv ==
    /\ IsFiniteSet(served)
    /\ gone \subseteq revoked
    /\ served \cap revoked = {}
    /\ \A v \in served :
          /\ v \in haslog
          /\ rec[v].state \in {"live", "ended"}
          /\ "recordsync" \notin Faults => rec[v].state = "live"
          /\ rec[v].key = st[v].key /\ rec[v].eph = st[v].eph /\ rec[v].created = st[v].created

(* A running process knows of every vault that has ended or is damaged.    *)
TombInv ==
    stage # "down" => \A v \in Vault : rec[v].state \in {"ended", "bad"} => v \in Known

(* Where a goroutine is in a section under Server.mu, and where it is on   *)
(* the way to creating its vault.                                          *)
UnderLock == {"sweep", "create", "openlog", "remove"}
Creating(t) ==
    th[t].pc \in {"sweep", "create", "openlog"} \/ (At(t, "remove") /\ th[t].then = "sweep")

(* What a goroutine may rely on where it stands: Server.mu is its own in a *)
(* section under it, the vault it creates is still unknown, the vault it   *)
(* ends is ended and gone, and the vaultState it looked up is that of a    *)
(* vault still served or ended meanwhile.                                  *)
ThreadFits(t) ==
    /\ th[t].pc \in UnderLock => mu = t
    /\ Creating(t) => th[t].v \notin served \cup revoked
    /\ At(t, "openlog") => rec[th[t].v].state = "live"
    /\ At(t, "remove") => rec[th[t].ending].state = "ended" /\ th[t].ending \in gone
    /\ th[t].pc \in {"expire", "ending", "op"} => th[t].v \in served \cup gone
    /\ At(t, "ending") => st[th[t].v].eph
    /\ th[t].pc \in {"create", "openlog"} /\ th[t].op = "register" =>
          Cardinality(served) < MaxVaults
ThreadInv == \A t \in Thread : ThreadFits(t)

(* What the owner decides, and that the mark SetNoPush set is still on the *)
(* vaultState a PUSH will read.                                            *)
OwnerInv ==
    /\ OwnerDecides
    /\ \A v \in readonly : v \in served \cup gone /\ st[v].noPush

(* Acknowledged entries, and none where there was never a record.          *)
AckInv ==
    /\ AckedKept
    /\ \A v \in Vault : rec[v].state = "none" => acked[v] = {}

(* Unless a start may skip a vault, a running process knows of every vault *)
(* it ever answered for, so that none is created over ...                  *)
BoundInv ==
    "loadlog" \notin Faults => \A v \in Vault : bound[v] # NoRecord =>
        /\ rec[v].state # "none"
        /\ rec[v].key = bound[v].key /\ rec[v].eph = bound[v].eph
        /\ rec[v].created = bound[v].created
        /\ stage # "down" => v \in Known

(* ... and of every vault that has entries, so that a new vault has none.  *)
QuotaInv ==
    "loadlog" \notin Faults =>
        /\ \A v \in Vault :
              /\ Bytes(elog[v]) <= MaxVaultBytes
              /\ Cardinality(elog[v]) <= MaxEntries
              /\ elog[v] # {} => rec[v].state # "none" /\ (stage # "down" => v \in Known)
        /\ \A v \in served : st[v].bytes = Bytes(elog[v])

(* The log of an ended vault waits for a start, a retry of the end or the  *)
(* goroutine that is about to delete it.                                   *)
LogInv ==
    "remove" \notin Faults /\ stage # "down" =>
        \A v \in Vault : rec[v].state = "ended" /\ v \in haslog =>
            \/ v \in toload \cup served
            \/ \E t \in Thread : At(t, "remove") /\ th[t].ending = v

(* The whole.                                                              *)
IndInv ==
    /\ TypeOK /\ ProcessInv /\ MapInv /\ TombInv /\ ThreadInv
    /\ OwnerInv /\ AckInv /\ BoundInv /\ QuotaInv /\ LogInv

(* An empty disk and no process.                                           *)
LEMMA InitInv == Init => IndInv
<1>1. SUFFICES ASSUME Init PROVE IndInv
  OBVIOUS
<1>2. TypeOK
  BY <1>1, TypeInit
<1>3. ProcessInv /\ TombInv /\ LogInv
  BY <1>1 DEF Init, ProcessInv, TombInv, LogInv, Known
<1>4. MapInv
  BY <1>1, FS_EmptySet DEF Init, MapInv
<1>5. ThreadInv
  BY <1>1 DEF Init, ThreadInv, ThreadFits, Creating, At, Idle, UnderLock
<1>6. OwnerInv /\ AckInv /\ BoundInv
  BY <1>1 DEF Init, OwnerInv, OwnerDecides, PermanentEndsByOwner, ReadOnlyHolds, AckInv,
     AckedKept, BoundInv, NoRecord
<1>7. QuotaInv
  BY <1>1, BytesFacts, FS_EmptySet, ServerConstants DEF Init, QuotaInv
<1>8. QED
  BY <1>2, <1>3, <1>4, <1>5, <1>6, <1>7 DEF IndInv

(* A handler runs only while the server is up.                             *)
LEMMA HandlersUp ==
    ASSUME IndInv, NEW t \in Thread, th[t].pc # "idle"
    PROVE  stage = "up" /\ toload = {} /\ Known = served \cup revoked
BY DEF IndInv, ProcessInv, Idle, Known

(* Another goroutine keeps its place while t holds Server.mu or takes it,  *)
(* or leaves the lock, the records and the maps alone.                     *)
LEMMA OthersFit ==
    ASSUME IndInv, NEW t \in Thread, NEW u \in Thread, u # t, th'[u] = th[u],
           mu \in {NoThread, t} \/ UNCHANGED <<mu, rec, served, revoked, gone>>,
           served \cup gone \subseteq served' \cup gone',
           \A v \in served \cup gone : st'[v].eph = st[v].eph
    PROVE  ThreadFits(u)'
<1>1. ThreadFits(u)
  BY DEF IndInv, ThreadInv
<1>2. CASE mu \in {NoThread, t}
  <2>1. th[u].pc \notin UnderLock
    BY <1>1, <1>2, ServerConstants DEF ThreadFits
  <2>2. QED
    BY <1>1, <2>1 DEF ThreadFits, Creating, At, UnderLock
<1>3. CASE UNCHANGED <<mu, rec, served, revoked, gone>>
  BY <1>1, <1>3 DEF ThreadFits, Creating, At, UnderLock
<1>4. QED
  BY <1>2, <1>3

(* A step of goroutine t that changes no record, log or map: it moves, may *)
(* take or leave Server.mu, and may answer for a served vault.             *)
LEMMA QuietStep ==
    ASSUME IndInv, TypeOK', NEW t \in Thread, stage = "up", ~At(t, "remove"),
           UNCHANGED <<disk, memory, stage, toload, acked, ownerEnded, readonly, leaked>>,
           \A u \in Thread : u # t => th'[u] = th[u],
           mu' = mu \/ mu \in {NoThread, t},
           bound' = bound \/ \E v \in served : Promise(v),
           ThreadFits(t)'
    PROVE  IndInv'
<1>1. ProcessInv' /\ MapInv' /\ TombInv'
  BY DEF IndInv, ProcessInv, MapInv, TombInv, Known, disk, memory
<1>2. ThreadInv'
  <2>1. ASSUME NEW u \in Thread, u # t PROVE ThreadFits(u)'
    BY <2>1, OthersFit DEF disk, memory
  <2>2. QED
    BY <2>1 DEF ThreadInv
<1>3. OwnerInv' /\ AckInv'
  BY DEF IndInv, OwnerInv, OwnerDecides, PermanentEndsByOwner, ReadOnlyHolds, AckInv, AckedKept,
     disk, memory
<1>4. BoundInv'
  <2>1. CASE bound' = bound
    BY <2>1 DEF IndInv, BoundInv, Known, disk, memory
  <2>2. CASE \E v \in served : Promise(v)
    <3>1. PICK v \in served : Promise(v)
      BY <2>2
    <3>2. v \in Vault /\ rec[v].state # "none"
      BY DEF IndInv, TypeOK, MapInv
    <3>3. /\ bound'[v] = IF bound[v] = NoRecord THEN rec[v] ELSE bound[v]
          /\ \A w \in Vault : w # v => bound'[w] = bound[w]
      BY <3>1, <3>2, Promised DEF IndInv
    <3>4. QED
      BY <3>2, <3>3 DEF IndInv, BoundInv, Known, disk, memory
  <2>3. QED
    BY <2>1, <2>2
<1>5. QuotaInv'
  BY DEF IndInv, QuotaInv, Known, disk, memory
<1>6. LogInv'
  BY DEF IndInv, LogInv, At, disk, memory
<1>7. QED
  BY <1>1, <1>2, <1>3, <1>4, <1>5, <1>6 DEF IndInv

(* A served vault has its entry on disk and is known.                      *)
LEMMA ServedFacts ==
    ASSUME IndInv, NEW v \in served
    PROVE  /\ v \in Vault /\ v \notin revoked /\ v \notin gone /\ v \in haslog
           /\ rec[v].state \in {"live", "ended"} /\ rec[v].eph = st[v].eph
BY DEF IndInv, TypeOK, MapInv

(* endLocked of a served vault that is ephemeral, or whose owner ends it.  *)
LEMMA EndStep ==
    ASSUME IndInv, TypeOK', NEW t \in Thread, th[t].pc # "idle", ~At(t, "remove"),
           NEW v \in served, NEW then \in {"idle", "sweep"}, EndBy(t, v, then),
           mu \in {NoThread, t},
           then = "sweep" => Creating(t),
           st[v].eph \/ v \in ownerEnded',
           ownerEnded \subseteq ownerEnded',
           UNCHANGED <<stage, toload, acked, bound, readonly, leaked>>
    PROVE  IndInv'
<1>1. TypeOK /\ v \in Vault /\ stage = "up" /\ toload = {} /\ Known = served \cup revoked
  BY HandlersUp, ServedFacts DEF IndInv
<1>2. /\ rec'[v].state = "ended" /\ rec'[v].key = rec[v].key
      /\ rec'[v].eph = rec[v].eph /\ rec'[v].created = rec[v].created
      /\ \A w \in Vault : w # v => rec'[w] = rec[w]
  BY <1>1, EndedRecord DEF EndBy, EndVault
<1>3. /\ th'[t].pc = "remove" /\ th'[t].ending = v /\ th'[t].then = then
      /\ th'[t].v = th[t].v /\ th'[t].op = th[t].op
      /\ \A u \in Thread : u # t => th'[u] = th[u]
  BY <1>1, EndByMoves
<1>4. /\ served' = served \ {v} /\ revoked' = revoked \cup {v} /\ gone' = gone \cup {v}
      /\ st' = st /\ mu' = t /\ haslog' = haslog /\ elog' = elog
  BY DEF EndBy, EndVault
<1>5. Known' = Known
  BY <1>4 DEF Known
<1>6. ProcessInv'
  BY <1>1, <1>4, <1>5 DEF IndInv, ProcessInv
<1>7. MapInv'
  <2>1. IsFiniteSet(served')
    BY <1>4, FS_RemoveElement DEF IndInv, MapInv
  <2>2. \A w \in served' : w \in Vault /\ w \in served /\ rec'[w] = rec[w]
    BY <1>1, <1>2, <1>4 DEF TypeOK
  <2>3. QED
    BY <1>4, <2>1, <2>2 DEF IndInv, MapInv
<1>8. TombInv'
  BY <1>1, <1>2, <1>4, <1>5 DEF IndInv, TombInv, Known
<1>9. ThreadInv'
  <2>1. ASSUME NEW u \in Thread, u # t PROVE ThreadFits(u)'
    BY <1>3, <1>4, <2>1, OthersFit
  <2>2. ThreadFits(t)
    BY DEF IndInv, ThreadInv
  <2>3. Creating(t) => th[t].v \notin served \cup revoked
    BY <2>2 DEF ThreadFits
  <2>4. ThreadFits(t)'
    BY <1>2, <1>3, <1>4, <2>3 DEF ThreadFits, Creating, At, UnderLock
  <2>5. QED
    BY <2>1, <2>4 DEF ThreadInv
<1>10. OwnerInv'
  <2>1. rec[v].eph = st[v].eph
    BY ServedFacts
  <2>2. PermanentEndsByOwner'
    BY <1>2, <2>1 DEF IndInv, OwnerInv, OwnerDecides, PermanentEndsByOwner
  <2>3. QED
    BY <1>4, <2>2 DEF IndInv, OwnerInv, OwnerDecides, ReadOnlyHolds
<1>11. AckInv'
  BY <1>2, <1>4 DEF IndInv, AckInv, AckedKept
<1>12. BoundInv'
  <2>1. rec[v].state # "none"
    BY ServedFacts
  <2>2. QED
    BY <1>2, <1>5, <2>1 DEF IndInv, BoundInv
<1>13. QuotaInv'
  BY <1>2, <1>4, <1>5 DEF IndInv, QuotaInv
<1>14. LogInv'
  BY <1>1, <1>2, <1>3, <1>4 DEF IndInv, LogInv, At
<1>15. QED
  BY <1>6, <1>7, <1>8, <1>9, <1>10, <1>11, <1>12, <1>13, <1>14 DEF IndInv

(* endLocked that fails: the vault is served on.                           *)
LEMMA EndFailsStep ==
    ASSUME IndInv, TypeOK', NEW t \in Thread, th[t].pc # "idle", ~At(t, "remove"),
           NEW v \in served, EndFailsBy(t, v),
           mu \in {NoThread, t},
           st[v].eph \/ v \in ownerEnded',
           ownerEnded \subseteq ownerEnded',
           UNCHANGED <<stage, toload, acked, bound, readonly, leaked>>
    PROVE  IndInv'
<1>1. TypeOK /\ v \in Vault /\ stage = "up" /\ toload = {} /\ Known = served \cup revoked
  BY HandlersUp, ServedFacts DEF IndInv
<1>2. /\ rec'[v].state \in {rec[v].state, "ended"} /\ rec'[v].key = rec[v].key
      /\ rec'[v].eph = rec[v].eph /\ rec'[v].created = rec[v].created
      /\ "recordsync" \notin Faults => rec'[v].state = rec[v].state
      /\ \A w \in Vault : w # v => rec'[w] = rec[w]
  BY <1>1, EndedRecord, FailedRecord DEF EndFailsBy
<1>3. th'[t].pc = "idle" /\ \A u \in Thread : u # t => th'[u] = th[u]
  BY <1>1, ReplyMoves DEF EndFailsBy
<1>4. /\ served' = served /\ revoked' = revoked /\ gone' = gone
      /\ st' = st /\ haslog' = haslog /\ elog' = elog /\ Known' = Known
  BY DEF EndFailsBy, EndFails, memory, Known
<1>5. rec[v].state \in {"live", "ended"} /\ rec[v].eph = st[v].eph /\ v \in Known
  BY ServedFacts DEF Known
<1>6. ProcessInv'
  BY <1>1, <1>4 DEF IndInv, ProcessInv
<1>7. MapInv'
  <2>1. \A w \in served' : w \in Vault
    BY <1>1, <1>4 DEF TypeOK
  <2>2. QED
    BY <1>2, <1>4, <1>5, <2>1 DEF IndInv, MapInv
<1>8. TombInv'
  BY <1>1, <1>2, <1>4, <1>5 DEF IndInv, TombInv
<1>9. ThreadInv'
  <2>1. ASSUME NEW u \in Thread, u # t PROVE ThreadFits(u)'
    BY <1>3, <1>4, <2>1, OthersFit
  <2>2. ThreadFits(t)'
    BY <1>3 DEF ThreadFits, Creating, At, UnderLock
  <2>3. QED
    BY <2>1, <2>2 DEF ThreadInv
<1>10. OwnerInv'
  <2>1. PermanentEndsByOwner'
    BY <1>2, <1>5 DEF IndInv, OwnerInv, OwnerDecides, PermanentEndsByOwner
  <2>2. QED
    BY <1>4, <2>1 DEF IndInv, OwnerInv, OwnerDecides, ReadOnlyHolds
<1>11. AckInv'
  BY <1>2, <1>4, <1>5 DEF IndInv, AckInv, AckedKept
<1>12. BoundInv'
  BY <1>2, <1>4, <1>5 DEF IndInv, BoundInv
<1>13. QuotaInv'
  BY <1>2, <1>4, <1>5 DEF IndInv, QuotaInv
<1>14. LogInv'
  BY <1>1, <1>2, <1>3, <1>4, <1>5 DEF IndInv, LogInv, At
<1>15. QED
  BY <1>6, <1>7, <1>8, <1>9, <1>10, <1>11, <1>12, <1>13, <1>14 DEF IndInv

-----------------------------------------------------------------------------
(* createVaultLocked over a vault the process does not know: no record was *)
(* ended there, nothing acknowledged is lost, and nothing promised.        *)
LEMMA CreateRecordStep ==
    ASSUME IndInv, TypeOK', NEW t \in Thread, CreateRecord(t)
    PROVE  IndInv'
<1> DEFINE v == th[t].v
<1>1. TypeOK /\ At(t, "create") /\ th[t].pc # "idle"
  BY DEF IndInv, CreateRecord, At
<1>2. /\ v \in Vault /\ th[t].key \in Key /\ th[t].flag \in BOOLEAN
      /\ stage = "up" /\ toload = {} /\ Known = served \cup revoked
  BY <1>1, InRequest, HandlersUp
<1>3. ThreadFits(t)
  BY DEF IndInv, ThreadInv
<1>4. mu = t /\ v \notin Known
  BY <1>1, <1>2, <1>3 DEF ThreadFits, Creating, UnderLock, At
<1>5. /\ rec[v].state \notin {"ended", "bad"}
      /\ "loadlog" \notin Faults => bound[v] = NoRecord /\ elog[v] = {}
  BY <1>2, <1>4 DEF IndInv, TombInv, BoundInv, QuotaInv
<1> HIDE DEF v
<1>6. /\ UNCHANGED <<clock, haslog, elog, stage, toload, memory, history>>
      /\ \/ /\ Goto(t, "openlog") /\ mu' = mu
            /\ rec' = [rec EXCEPT ![v] = LiveRecord(th[t].key, th[t].flag)]
         \/ Reply(t) /\ rec' \in {rec, [rec EXCEPT ![v] = LiveRecord(th[t].key, th[t].flag)]}
  BY DEF CreateRecord, v
<1>7. /\ rec'[v] = rec[v] \/ rec'[v].state = "live"
      /\ Goto(t, "openlog") => rec'[v].state = "live" \/ Reply(t)
      /\ \A w \in Vault : w # v => rec'[w] = rec[w]
  BY <1>1, <1>2, <1>6, NewRecord DEF v
<1>8. ProcessInv' /\ Known' = Known
  BY <1>2, <1>6 DEF IndInv, ProcessInv, Known, memory, history
<1>9. MapInv'
  <2>1. \A w \in served : w \in Vault /\ w # v
    BY <1>1, <1>4 DEF TypeOK, Known
  <2>2. \A w \in served : rec'[w] = rec[w]
    BY <1>7, <2>1
  <2>3. QED
    BY <1>6, <2>2 DEF IndInv, MapInv, memory
<1>10. TombInv'
  BY <1>2, <1>5, <1>6, <1>7, <1>8 DEF IndInv, TombInv
<1>11. ThreadInv'
  <2>1. \A u \in Thread : u # t => th'[u] = th[u]
    BY <1>1, <1>6, GotoMoves, ReplyMoves DEF Pcs
  <2>2. ASSUME NEW u \in Thread, u # t PROVE ThreadFits(u)'
    BY <1>4, <1>6, <2>1, <2>2, OthersFit DEF memory
  <2>3. CASE Reply(t)
    <3>1. th'[t].pc = "idle"
      BY <1>1, <2>3, ReplyMoves
    <3>2. QED
      BY <3>1, <2>2 DEF ThreadInv, ThreadFits, Creating, At, UnderLock
  <2>4. CASE ~Reply(t)
    <3>1. Goto(t, "openlog") /\ mu' = mu
      BY <1>6, <2>4
    <3>2. th'[t].pc = "openlog" /\ th'[t].v = th[t].v /\ th'[t].op = th[t].op
      BY <1>1, <3>1, GotoMoves DEF Pcs
    <3>3. ThreadFits(t)'
      BY <1>1, <1>3, <1>4, <1>6, <1>7, <2>4, <3>1, <3>2
         DEF ThreadFits, Creating, At, UnderLock, Known, memory, v
    <3>4. QED
      BY <2>2, <3>3 DEF ThreadInv
  <2>5. QED
    BY <2>3, <2>4
<1>12. OwnerInv'
  BY <1>2, <1>6, <1>7 DEF IndInv, OwnerInv, OwnerDecides, PermanentEndsByOwner, ReadOnlyHolds,
     memory, history
<1>13. AckInv'
  <2>1. rec[v].state \in {"none", "live"}
    BY <1>1, <1>2, <1>5 DEF TypeOK, Record
  <2>2. acked[v] \subseteq elog[v]
    BY <1>2, <2>1 DEF IndInv, AckInv, AckedKept
  <2>3. QED
    BY <1>2, <1>6, <1>7, <2>2 DEF IndInv, AckInv, AckedKept, history
<1>14. BoundInv'
  BY <1>2, <1>5, <1>6, <1>7, <1>8 DEF IndInv, BoundInv, history
<1>15. QuotaInv'
  BY <1>2, <1>5, <1>6, <1>7, <1>8 DEF IndInv, QuotaInv, memory
<1>16. LogInv'
  <2>1. \A u \in Thread : u # t => th'[u] = th[u]
    BY <1>1, <1>6, GotoMoves, ReplyMoves DEF Pcs
  <2>2. \A w \in Vault : rec'[w].state = "ended" => rec[w].state = "ended"
    BY <1>7
  <2>3. QED
    BY <1>1, <1>2, <1>6, <2>1, <2>2 DEF IndInv, LogInv, At, memory
<1>17. QED
  BY <1>8, <1>9, <1>10, <1>11, <1>12, <1>13, <1>14, <1>15, <1>16 DEF IndInv

(* The vault is served: it was unknown, so its log is empty and its first  *)
(* promise is the record just written.                                     *)
LEMMA CreateLogStep ==
    ASSUME IndInv, TypeOK', NEW t \in Thread, CreateLog(t)
    PROVE  IndInv'
<1> DEFINE v == th[t].v
<1>1. TypeOK /\ At(t, "openlog") /\ th[t].pc # "idle"
  BY DEF IndInv, CreateLog, At
<1>2. v \in Vault /\ stage = "up" /\ toload = {} /\ Known = served \cup revoked
  BY <1>1, InRequest, HandlersUp
<1>3. mu = t /\ v \notin Known /\ rec[v].state = "live"
  BY <1>1, <1>2 DEF IndInv, ThreadInv, ThreadFits, Creating, UnderLock, At
<1>4. "loadlog" \notin Faults => bound[v] = NoRecord /\ elog[v] = {}
  BY <1>2, <1>3 DEF IndInv, BoundInv, QuotaInv
<1> HIDE DEF v
<1>5. th'[t].pc = "idle" /\ \A u \in Thread : u # t => th'[u] = th[u]
  BY <1>1, ReplyMoves DEF CreateLog
<1>6. ThreadFits(t)'
  BY <1>5 DEF ThreadFits, Creating, At, UnderLock
<1>7. CASE UNCHANGED <<haslog, served, st, bound>>
  BY <1>1, <1>2, <1>3, <1>5, <1>6, <1>7, QuietStep DEF CreateLog, disk, memory, At
<1>8. CASE ~UNCHANGED <<haslog, served, st, bound>>
  <2>1. /\ haslog' = haslog \cup {v} /\ served' = served \cup {v} /\ Promise(v)
        /\ st' = [st EXCEPT ![v] = [key |-> rec[v].key, eph |-> rec[v].eph,
                      created |-> rec[v].created, bytes |-> 0, noPush |-> FALSE]]
        /\ UNCHANGED <<rec, elog, stage, toload, revoked, gone, acked, ownerEnded, readonly, leaked>>
    BY <1>8 DEF CreateLog, v
  <2>2. /\ st'[v].key = rec[v].key /\ st'[v].eph = rec[v].eph
        /\ st'[v].created = rec[v].created /\ st'[v].bytes = 0
        /\ \A w \in Vault : w # v => st'[w] = st[w]
    BY <1>1, <1>2, <2>1, Opened
  <2>3. \A w \in served \cup revoked \cup gone : w \in Vault /\ w # v
    BY <1>1, <1>2, <1>3 DEF IndInv, TypeOK, MapInv
  <2>4. ProcessInv' /\ Known' = Known \cup {v}
    BY <1>2, <2>1 DEF IndInv, ProcessInv, Known
  <2>5. MapInv'
    <3>1. IsFiniteSet(served')
      BY <2>1, FS_AddElement DEF IndInv, MapInv
    <3>2. QED
      BY <1>2, <1>3, <2>1, <2>2, <2>3, <3>1 DEF IndInv, MapInv
  <2>6. TombInv'
    BY <1>2, <2>1, <2>4 DEF IndInv, TombInv
  <2>7. ThreadInv'
    <3>1. ASSUME NEW u \in Thread, u # t PROVE ThreadFits(u)'
      BY <1>3, <1>5, <2>1, <2>2, <2>3, <3>1, OthersFit
    <3>2. QED
      BY <1>6, <3>1 DEF ThreadInv
  <2>8. OwnerInv'
    <3>1. \A w \in readonly : w \in served \cup gone
      BY DEF IndInv, OwnerInv
    <3>2. QED
      BY <2>1, <2>2, <2>3, <3>1
         DEF IndInv, OwnerInv, OwnerDecides, PermanentEndsByOwner, ReadOnlyHolds
  <2>9. AckInv'
    BY <2>1 DEF IndInv, AckInv, AckedKept
  <2>10. BoundInv'
    <3>1. /\ bound'[v] = IF bound[v] = NoRecord THEN rec[v] ELSE bound[v]
          /\ \A w \in Vault : w # v => bound'[w] = bound[w]
      BY <1>1, <1>2, <2>1, Promised
    <3>2. QED
      BY <1>2, <1>3, <1>4, <2>1, <2>4, <3>1 DEF IndInv, BoundInv
  <2>11. QuotaInv'
    BY <1>2, <1>4, <2>1, <2>2, <2>3, <2>4, BytesFacts DEF IndInv, QuotaInv
  <2>12. LogInv'
    BY <1>1, <1>2, <1>3, <1>5, <2>1 DEF IndInv, LogInv, At
  <2>13. QED
    BY <2>4, <2>5, <2>6, <2>7, <2>8, <2>9, <2>10, <2>11, <2>12 DEF IndInv
<1>9. QED
  BY <1>7, <1>8

(* The log of a vault that has ended and is not served is deleted or left. *)
LEMMA RemovedLog ==
    ASSUME TypeOK, NEW v \in Vault, RemoveLog(v)
    PROVE  /\ elog'[v] \in {elog[v], {}}
           /\ haslog' \in {haslog, haslog \ {v}}
           /\ "remove" \notin Faults => haslog' = haslog \ {v}
           /\ \A w \in Vault : w # v => elog'[w] = elog[w]
BY DEF RemoveLog, TypeOK

(* removeLog, after endLocked's record half.                               *)
LEMMA RemoveLogStep ==
    ASSUME IndInv, TypeOK', NEW t \in Thread, RemoveStep(t)
    PROVE  IndInv'
<1> DEFINE v == th[t].ending
<1>1. TypeOK /\ At(t, "remove") /\ th[t].pc # "idle"
  BY DEF IndInv, RemoveStep, At
<1>2. v \in Vault /\ stage = "up" /\ toload = {} /\ Known = served \cup revoked
  BY <1>1, InRequest, HandlersUp
<1>3. ThreadFits(t)
  BY DEF IndInv, ThreadInv
<1>4. mu = t /\ rec[v].state = "ended" /\ v \in gone /\ v \notin served
  BY <1>1, <1>3 DEF IndInv, MapInv, ThreadFits, UnderLock, At
<1>5. RemoveLog(v)
  BY DEF RemoveStep
<1> HIDE DEF v
<1>6. /\ elog'[v] \in {elog[v], {}} /\ haslog' \in {haslog, haslog \ {v}}
      /\ "remove" \notin Faults => haslog' = haslog \ {v}
      /\ \A w \in Vault : w # v => elog'[w] = elog[w]
  BY <1>1, <1>2, <1>5, RemovedLog
<1>7. /\ UNCHANGED <<rec, stage, toload, served, revoked, gone, st, acked, bound, ownerEnded,
                     readonly, leaked>>
      /\ Known' = Known
  BY DEF RemoveStep, memory, history, Known
<1>8. /\ th'[t].pc \in {"idle", "sweep"}
      /\ th'[t].pc = "sweep" => /\ th'[t].v = th[t].v /\ th'[t].op = th[t].op
                                /\ th[t].then = "sweep" /\ mu' = mu
      /\ \A u \in Thread : u # t => th'[u] = th[u]
  <2>1. CASE th[t].then = "sweep"
    <3>1. Goto(t, "sweep") /\ mu' = mu
      BY <2>1 DEF RemoveStep
    <3>2. QED
      BY <1>1, <2>1, <3>1, GotoMoves DEF Pcs
  <2>2. CASE th[t].then # "sweep"
    <3>1. Reply(t)
      BY <2>2 DEF RemoveStep
    <3>2. QED
      BY <1>1, <3>1, ReplyMoves
  <2>3. QED
    BY <2>1, <2>2
<1>9. ProcessInv' /\ TombInv' /\ OwnerInv'
  BY <1>2, <1>7 DEF IndInv, ProcessInv, TombInv, OwnerInv, OwnerDecides, PermanentEndsByOwner,
     ReadOnlyHolds
<1>10. MapInv'
  BY <1>4, <1>6, <1>7 DEF IndInv, MapInv
<1>11. ThreadInv'
  <2>1. ASSUME NEW u \in Thread, u # t PROVE ThreadFits(u)'
    BY <1>4, <1>7, <1>8, <2>1, OthersFit
  <2>2. ThreadFits(t)'
    BY <1>1, <1>3, <1>4, <1>7, <1>8 DEF ThreadFits, Creating, At, UnderLock
  <2>3. QED
    BY <2>1, <2>2 DEF ThreadInv
<1>12. AckInv'
  BY <1>4, <1>6, <1>7 DEF IndInv, AckInv, AckedKept
<1>13. BoundInv'
  BY <1>7 DEF IndInv, BoundInv
<1>14. QuotaInv'
  <2>1. Bytes({}) <= MaxVaultBytes /\ Cardinality({}) <= MaxEntries
    BY BytesFacts, FS_EmptySet, ServerConstants
  <2>2. \A w \in served : w \in Vault /\ w # v
    BY <1>1, <1>4 DEF TypeOK
  <2>3. QED
    BY <1>6, <1>7, <2>1, <2>2 DEF IndInv, QuotaInv
<1>15. LogInv'
  <2>1. ASSUME NEW u \in Thread, At(u, "remove") PROVE u = t
    BY <1>4, <2>1 DEF IndInv, ThreadInv, ThreadFits, UnderLock, At
  <2>2. QED
    BY <1>2, <1>6, <1>7, <2>1 DEF IndInv, LogInv, v
<1>16. QED
  BY <1>9, <1>10, <1>11, <1>12, <1>13, <1>14, <1>15 DEF IndInv

-----------------------------------------------------------------------------
(* An accepted batch keeps the account exact: what is new and what was     *)
(* there are disjoint, so their sizes and their numbers add.               *)
LEMMA AccountKept ==
    ASSUME IndInv, NEW v \in served, NEW es \in SUBSET Entry, NEW skew \in BOOLEAN,
           Valid(v, es, skew), AddValidated(v, es), "loadlog" \notin Faults
    PROVE  /\ st'[v].bytes = Bytes(elog'[v])
           /\ Bytes(elog'[v]) <= MaxVaultBytes
           /\ Cardinality(elog'[v]) <= MaxEntries
<1> DEFINE new == New(v, es)
<1>1. v \in Vault /\ TypeOK
  BY DEF IndInv, TypeOK
<1>2. /\ new \in SUBSET Entry /\ elog[v] \in SUBSET Entry
      /\ elog[v] \cap new = {} /\ elog[v] \cup es = elog[v] \cup new
  BY <1>1 DEF New, TypeOK
<1>3. elog'[v] = elog[v] \cup new /\ st'[v].bytes = st[v].bytes + Bytes(new)
  BY <1>1, <1>2, Added
<1>4. /\ Cardinality(elog[v]) + Cardinality(new) <= MaxEntries
      /\ st[v].bytes + Bytes(new) <= MaxVaultBytes
  BY DEF Valid
<1>5. st[v].bytes = Bytes(elog[v])
  BY DEF IndInv, QuotaInv
<1> HIDE DEF new
<1>6. Bytes(elog[v] \cup new) = Bytes(elog[v]) + Bytes(new)
  BY <1>2, BytesUnion
<1>7. Cardinality(elog[v] \cup new) = Cardinality(elog[v]) + Cardinality(new)
  <2>1. IsFiniteSet(elog[v]) /\ IsFiniteSet(new)
    BY <1>2, ServerConstants, FS_Subset
  <2>2. Cardinality(elog[v]) \in Nat /\ Cardinality(new) \in Nat
    BY <2>1, FS_CardinalityType
  <2>3. Cardinality(elog[v] \cup new)
          = Cardinality(elog[v]) + Cardinality(new) - Cardinality(elog[v] \cap new)
    BY <2>1, FS_Union
  <2>4. Cardinality(elog[v] \cap new) = 0
    BY <1>2, FS_EmptySet
  <2>5. QED
    BY <2>2, <2>3, <2>4
<1>8. QED
  BY <1>3, <1>4, <1>5, <1>6, <1>7

(* A batch accepted on a vault that is not gone.                           *)
LEMMA AddStep ==
    ASSUME IndInv, TypeOK', NEW t \in Thread, At(t, "op"), th[t].v \notin gone,
           NEW skew \in BOOLEAN, Valid(th[t].v, th[t].es, skew),
           AddValidated(th[t].v, th[t].es), Reply(t), leaked' = leaked,
           UNCHANGED <<rec, haslog, stage, toload, served, revoked, gone, mu,
                       bound, ownerEnded, readonly>>
    PROVE  IndInv'
<1> DEFINE v == th[t].v
           es == th[t].es
<1>1. TypeOK /\ th[t].pc # "idle"
  BY DEF IndInv, At
<1>2. /\ v \in Vault /\ es \in SUBSET Entry /\ stage = "up" /\ toload = {}
      /\ Known = served \cup revoked
  BY <1>1, InRequest, HandlersUp
<1>3. v \in served
  BY DEF IndInv, ThreadInv, ThreadFits, At
<1>4. rec[v].state \in {"live", "ended"} /\ v \in Known /\ Known' = Known
  BY <1>3, ServedFacts DEF Known
<1>5. AddValidated(v, es) /\ Valid(v, es, skew)
  OBVIOUS
<1> HIDE DEF v, es
<1>6. /\ elog'[v] = elog[v] \cup es /\ acked'[v] = acked[v] \cup es
      /\ st'[v].key = st[v].key /\ st'[v].eph = st[v].eph
      /\ st'[v].created = st[v].created /\ st'[v].noPush = st[v].noPush
      /\ \A w \in Vault : w # v => elog'[w] = elog[w] /\ acked'[w] = acked[w] /\ st'[w] = st[w]
  BY <1>1, <1>2, <1>5, Added
<1>7. th'[t].pc = "idle" /\ \A u \in Thread : u # t => th'[u] = th[u]
  BY <1>1, ReplyMoves
<1>8. \A w \in served \cup gone : w \in Vault
  BY <1>1 DEF TypeOK
<1>9. ProcessInv' /\ TombInv'
  BY <1>2, <1>4 DEF IndInv, ProcessInv, TombInv
<1>10. MapInv'
  BY <1>6, <1>8 DEF IndInv, MapInv
<1>11. ThreadInv'
  <2>1. ASSUME NEW u \in Thread, u # t PROVE ThreadFits(u)'
    BY <1>6, <1>7, <1>8, <2>1, OthersFit
  <2>2. ThreadFits(t)'
    BY <1>7 DEF ThreadFits, Creating, At, UnderLock
  <2>3. QED
    BY <2>1, <2>2 DEF ThreadInv
<1>12. OwnerInv'
  <2>1. \A w \in readonly : w \in Vault
    BY <1>1 DEF TypeOK
  <2>2. QED
    BY <1>6, <2>1 DEF IndInv, OwnerInv, OwnerDecides, PermanentEndsByOwner, ReadOnlyHolds
<1>13. AckInv'
  BY <1>2, <1>4, <1>6 DEF IndInv, AckInv, AckedKept
<1>14. BoundInv'
  BY <1>4 DEF IndInv, BoundInv
<1>15. QuotaInv'
  <2>1. SUFFICES ASSUME "loadlog" \notin Faults PROVE QuotaInv'
    BY DEF QuotaInv
  <2>2. /\ st'[v].bytes = Bytes(elog'[v]) /\ Bytes(elog'[v]) <= MaxVaultBytes
        /\ Cardinality(elog'[v]) <= MaxEntries
    BY <1>2, <1>3, <1>5, <2>1, AccountKept
  <2>3. QED
    BY <1>2, <1>4, <1>6, <1>8, <2>2 DEF IndInv, QuotaInv
<1>16. LogInv'
  BY <1>7 DEF IndInv, LogInv, At
<1>17. QED
  BY <1>9, <1>10, <1>11, <1>12, <1>13, <1>14, <1>15, <1>16 DEF IndInv

(* A handler that answers and changes nothing else.                        *)
LEMMA ReplyStep ==
    ASSUME IndInv, TypeOK', NEW t \in Thread, th[t].pc # "idle", ~At(t, "remove"), Reply(t),
           UNCHANGED <<disk, memory, stage, toload, acked, ownerEnded, readonly, leaked>>,
           mu' = mu \/ mu \in {NoThread, t},
           bound' = bound \/ \E v \in served : Promise(v)
    PROVE  IndInv'
<1>1. stage = "up"
  BY HandlersUp
<1>2. th'[t].pc = "idle" /\ \A u \in Thread : u # t => th'[u] = th[u]
  BY ReplyMoves DEF IndInv
<1>3. ThreadFits(t)'
  BY <1>2 DEF ThreadFits, Creating, At, UnderLock
<1>4. QED
  BY <1>1, <1>2, <1>3, QuietStep

(* PUSH and AddEntries: accepted, or refused with nothing changed.  A PUSH *)
(* accepted on a read-only vault has nothing new.                          *)
LEMMA PushStep ==
    ASSUME IndInv, TypeOK', NEW t \in Thread, Push(t)
    PROVE  IndInv'
<1> DEFINE v == th[t].v
           es == th[t].es
<1>1. /\ At(t, "op") /\ Reply(t) /\ th[t].pc # "idle" /\ ~At(t, "remove")
      /\ UNCHANGED <<rec, haslog, stage, toload, served, revoked, gone, mu,
                     bound, ownerEnded, readonly>>
  BY DEF Push, Performs, At
<1>2. CASE /\ v \notin gone /\ Valid(v, es, TRUE) /\ (st[v].noPush => New(v, es) = {})
           /\ AddValidated(v, es)
           /\ leaked' = IF v \in readonly /\ New(v, es) # {} THEN leaked \cup {v} ELSE leaked
  <2>1. v \in readonly => st[v].noPush
    BY DEF IndInv, OwnerInv
  <2>2. leaked' = leaked
    BY <1>2, <2>1
  <2>3. QED
    BY <1>1, <1>2, <2>2, AddStep
<1>3. CASE UNCHANGED <<elog, st, acked, leaked>>
  BY <1>1, <1>3, ReplyStep DEF disk, memory
<1>4. QED
  BY <1>2, <1>3 DEF Push

(* The owner's AddEntries.                                                 *)
LEMMA AddEntriesStep ==
    ASSUME IndInv, TypeOK', NEW t \in Thread, AddEntries(t)
    PROVE  IndInv'
<1> DEFINE v == th[t].v
           es == th[t].es
<1>1. /\ At(t, "op") /\ Reply(t) /\ th[t].pc # "idle" /\ ~At(t, "remove")
      /\ UNCHANGED <<rec, haslog, stage, toload, served, revoked, gone, mu,
                     bound, ownerEnded, readonly, leaked>>
  BY DEF AddEntries, Performs, At
<1>2. CASE v \notin gone /\ Valid(v, es, FALSE) /\ AddValidated(v, es)
  BY <1>1, <1>2, AddStep
<1>3. CASE UNCHANGED <<elog, st, acked>>
  BY <1>1, <1>3, ReplyStep DEF disk, memory
<1>4. QED
  BY <1>2, <1>3 DEF AddEntries

(* SetNoPush, also on a vaultState that has gone meanwhile.                *)
LEMMA SetNoPushStep ==
    ASSUME IndInv, TypeOK', NEW t \in Thread, SetNoPush(t)
    PROVE  IndInv'
<1> DEFINE v == th[t].v
<1>1. TypeOK /\ At(t, "op") /\ Reply(t) /\ th[t].pc # "idle"
  BY DEF IndInv, SetNoPush, Performs, At
<1>2. /\ v \in Vault /\ th[t].flag \in BOOLEAN /\ stage = "up" /\ toload = {}
      /\ v \in served \cup gone
  BY <1>1, InRequest, HandlersUp DEF IndInv, ThreadInv, ThreadFits, At
<1> HIDE DEF v
<1>3. /\ UNCHANGED <<rec, haslog, elog, stage, toload, served, revoked, gone, mu, acked, bound,
                     ownerEnded, leaked>>
      /\ Known' = Known
  BY DEF SetNoPush, disk, Known
<1>4. /\ st'[v].key = st[v].key /\ st'[v].eph = st[v].eph /\ st'[v].created = st[v].created
      /\ st'[v].bytes = st[v].bytes /\ st'[v].noPush = th[t].flag
      /\ \A w \in Vault : w # v => st'[w] = st[w]
  BY <1>1, <1>2 DEF SetNoPush, TypeOK, State, v
<1>5. th'[t].pc = "idle" /\ \A u \in Thread : u # t => th'[u] = th[u]
  BY <1>1, ReplyMoves
<1>6. \A w \in served \cup gone \cup readonly : w \in Vault
  BY <1>1 DEF TypeOK
<1>7. ProcessInv' /\ TombInv' /\ AckInv' /\ BoundInv'
  BY <1>2, <1>3 DEF IndInv, ProcessInv, TombInv, AckInv, AckedKept, BoundInv
<1>8. MapInv'
  BY <1>3, <1>4, <1>6 DEF IndInv, MapInv
<1>9. ThreadInv'
  <2>1. ASSUME NEW u \in Thread, u # t PROVE ThreadFits(u)'
    BY <1>3, <1>4, <1>5, <1>6, <2>1, OthersFit
  <2>2. ThreadFits(t)'
    BY <1>5 DEF ThreadFits, Creating, At, UnderLock
  <2>3. QED
    BY <2>1, <2>2 DEF ThreadInv
<1>10. OwnerInv'
  <2>1. readonly' = IF th[t].flag THEN readonly \cup {v} ELSE readonly \ {v}
    BY DEF SetNoPush, v
  <2>2. OwnerDecides'
    BY <1>3 DEF IndInv, OwnerInv, OwnerDecides, PermanentEndsByOwner, ReadOnlyHolds
  <2>3. \A w \in readonly' : w \in served \cup gone /\ st'[w].noPush
    BY <1>2, <1>4, <1>6, <2>1 DEF IndInv, OwnerInv
  <2>4. QED
    BY <1>3, <2>2, <2>3 DEF OwnerInv
<1>11. QuotaInv'
  BY <1>3, <1>4, <1>6 DEF IndInv, QuotaInv
<1>12. LogInv'
  BY <1>1, <1>3, <1>5 DEF IndInv, LogInv, At
<1>13. QED
  BY <1>7, <1>8, <1>9, <1>10, <1>11, <1>12 DEF IndInv

-----------------------------------------------------------------------------
(* A request arrives.                                                      *)
LEMMA ArriveStep ==
    ASSUME IndInv, TypeOK', NEW t \in Thread, Arrive(t)
    PROVE  IndInv'
<1>1. PICK r : r.pc = "start" /\ th' = [th EXCEPT ![t] = r]
  BY DEF Arrive
<1>2. th'[t].pc = "start" /\ \A u \in Thread : u # t => th'[u] = th[u]
  BY <1>1 DEF IndInv, TypeOK
<1>3. ThreadFits(t)'
  BY <1>2 DEF ThreadFits, Creating, At, UnderLock
<1>4. QED
  BY <1>2, <1>3, QuietStep DEF Arrive, At, history

(* A handler that moves on with the records and maps as they are.          *)
LEMMA GotoStep ==
    ASSUME IndInv, TypeOK', NEW t \in Thread, th[t].pc # "idle", ~At(t, "remove"),
           NEW pc \in Pcs, Goto(t, pc),
           UNCHANGED <<disk, stage, toload, memory, history>>,
           mu' = mu \/ mu \in {NoThread, t},
           pc \in UnderLock => mu' = t,
           pc # "openlog" /\ pc # "remove",
           pc \in {"sweep", "create"} => th[t].v \notin served \cup revoked,
           pc \in {"expire", "ending", "op"} => th[t].v \in served \cup gone,
           pc = "ending" => st[th[t].v].eph,
           pc = "create" /\ th[t].op = "register" => Cardinality(served) < MaxVaults
    PROVE  IndInv'
<1>1. stage = "up" /\ TypeOK
  BY HandlersUp DEF IndInv
<1>2. /\ th'[t].pc = pc /\ th'[t].op = th[t].op /\ th'[t].v = th[t].v
      /\ \A u \in Thread : u # t => th'[u] = th[u]
  BY <1>1, GotoMoves
<1>3. ThreadFits(t)'
  BY <1>2 DEF ThreadFits, Creating, At, UnderLock, memory
<1>4. QED
  BY <1>1, <1>2, <1>3, QuietStep DEF history

(* handleRegister and EnsureVault, up to the creation.                     *)
LEMMA RegisterStep ==
    ASSUME IndInv, TypeOK', NEW t \in Thread,
           RegisterExpired(t) \/ RegisterKnown(t) \/ RegisterNew(t) \/ EnsureVault(t)
    PROVE  IndInv'
<1> DEFINE v == th[t].v
<1>1. At(t, "start") /\ mu = NoThread /\ th[t].pc # "idle" /\ ~At(t, "remove")
  BY DEF RegisterExpired, RegisterKnown, RegisterNew, EnsureVault, Starts, At
<1>2. CASE RegisterExpired(t)
  <2>1. v \in served /\ st[v].eph
    BY <1>2 DEF RegisterExpired, Expired
  <2>2. EndBy(t, v, "idle") \/ EndFailsBy(t, v)
    BY <1>2 DEF RegisterExpired
  <2>3. UNCHANGED <<stage, toload, acked, bound, ownerEnded, readonly, leaked>>
    BY <1>2 DEF RegisterExpired, history
  <2>4. QED
    BY <1>1, <2>1, <2>2, <2>3, EndStep, EndFailsStep
<1>3. CASE RegisterKnown(t)
  <2>1. /\ Reply(t) /\ mu' = mu
        /\ UNCHANGED <<disk, memory, stage, toload, acked, ownerEnded, readonly, leaked>>
    BY <1>3 DEF RegisterKnown
  <2>2. bound' = bound \/ (v \in served /\ Promise(v))
    BY <1>3 DEF RegisterKnown
  <2>3. QED
    BY <1>1, <2>1, <2>2, ReplyStep
<1>4. CASE RegisterNew(t)
  BY <1>1, <1>4, GotoStep DEF RegisterNew, Pcs, UnderLock
<1>5. CASE EnsureVault(t)
  <2>1. th[t].op = "ensure"
    BY <1>5 DEF EnsureVault, Starts
  <2>2. UNCHANGED <<disk, memory, stage, toload, acked, ownerEnded, readonly, leaked>>
    BY <1>5 DEF EnsureVault
  <2>3. CASE v \in revoked \/ v \in served
    <3>1. Reply(t) /\ mu' = mu /\ (bound' = bound \/ (v \in served /\ Promise(v)))
      BY <1>5, <2>3 DEF EnsureVault
    <3>2. QED
      BY <1>1, <2>2, <3>1, ReplyStep
  <2>4. CASE v \notin revoked /\ v \notin served
    <3>1. mu' = t /\ Goto(t, "create") /\ bound' = bound
      BY <1>5, <2>4 DEF EnsureVault
    <3>2. QED
      BY <1>1, <2>1, <2>2, <2>4, <3>1, GotoStep DEF Pcs, UnderLock, history
  <2>5. QED
    BY <2>3, <2>4
<1>6. QED
  BY <1>2, <1>3, <1>4, <1>5

(* sweepLocked: what is due is ephemeral, and the cap is judged with       *)
(* Server.mu held until the vault is in the map.                           *)
LEMMA SweepStep ==
    ASSUME IndInv, TypeOK', NEW t \in Thread, SweepVaults(t)
    PROVE  IndInv'
<1> DEFINE Ends == \E w \in served : Expired(w) /\ (EndBy(t, w, "sweep") \/ EndFailsBy(t, w))
           Judges == /\ \/ Reply(t) /\ Unlock
                        \/ Goto(t, "create") /\ UNCHANGED mu /\ ~(Cardinality(served) >= MaxVaults)
                     /\ UNCHANGED <<disk, memory>>
<1>1. /\ At(t, "sweep") /\ th[t].pc # "idle" /\ ~At(t, "remove") /\ Creating(t)
      /\ UNCHANGED <<stage, toload, acked, bound, ownerEnded, readonly, leaked, history>>
  BY SweepShape DEF At, Creating, history
<1>2. mu = t /\ th[t].v \notin served \cup revoked
  BY <1>1 DEF IndInv, ThreadInv, ThreadFits, UnderLock, At
<1>3. Ends \/ Judges
  BY SweepShape
<1>4. CASE Ends
  <2>1. PICK w \in served : Expired(w) /\ (EndBy(t, w, "sweep") \/ EndFailsBy(t, w))
    BY <1>4
  <2>2. st[w].eph
    BY <2>1 DEF Expired
  <2>3. QED
    BY <1>1, <1>2, <2>1, <2>2, EndStep, EndFailsStep
<1>5. CASE Judges
  <2>1. CASE Reply(t)
    BY <1>1, <1>2, <1>5, <2>1, ReplyStep DEF history
  <2>2. CASE ~Reply(t)
    <3>1. Goto(t, "create") /\ mu' = mu /\ Cardinality(served) < MaxVaults
      <4>1. Cardinality(served) \in Nat
        BY FS_CardinalityType DEF IndInv, MapInv
      <4>2. QED
        BY <1>5, <2>2, <4>1, ServerConstants
    <3>2. QED
      BY <1>1, <1>2, <1>5, <3>1, GotoStep DEF Pcs
  <2>3. QED
    BY <2>1, <2>2
<1>6. QED
  BY <1>3, <1>4, <1>5

(* handleSync, expireIfDue and the lookups of the owner API.               *)
LEMMA LookupStep ==
    ASSUME IndInv, TypeOK', NEW t \in Thread,
           SyncLookup(t) \/ ExpireCheck(t) \/ ExpireVault(t) \/ Read(t) \/ OwnerLookup(t)
    PROVE  IndInv'
<1> DEFINE v == th[t].v
<1>1. th[t].pc # "idle" /\ ~At(t, "remove") /\ ThreadFits(t)
  BY DEF SyncLookup, ExpireCheck, ExpireVault, Read, OwnerLookup, Starts, Performs, At,
     IndInv, ThreadInv
<1>2. CASE SyncLookup(t) \/ OwnerLookup(t)
  <2>1. UNCHANGED <<clock, disk, stage, toload, memory, mu, history>>
    BY <1>2 DEF SyncLookup, OwnerLookup
  <2>2. Reply(t) \/ (v \in served /\ (Goto(t, "expire") \/ Goto(t, "op")))
    BY <1>2 DEF SyncLookup, OwnerLookup
  <2>3. CASE Reply(t)
    BY <1>1, <2>1, <2>3, ReplyStep DEF history
  <2>4. CASE v \in served /\ (Goto(t, "expire") \/ Goto(t, "op"))
    BY <1>1, <2>1, <2>4, GotoStep DEF Pcs, UnderLock
  <2>5. QED
    BY <2>2, <2>3, <2>4
<1>3. CASE ExpireCheck(t)
  <2>1. At(t, "expire") /\ UNCHANGED <<clock, disk, stage, toload, memory, mu, history>>
    BY <1>3 DEF ExpireCheck
  <2>2. v \in served \cup gone
    BY <1>1, <2>1 DEF ThreadFits, At
  <2>3. (Expired(v) /\ Goto(t, "ending")) \/ Goto(t, "op")
    BY <1>3 DEF ExpireCheck
  <2>4. CASE Expired(v) /\ Goto(t, "ending")
    BY <1>1, <2>1, <2>2, <2>4, GotoStep DEF Pcs, UnderLock, Expired
  <2>5. CASE Goto(t, "op")
    BY <1>1, <2>1, <2>2, <2>5, GotoStep DEF Pcs, UnderLock
  <2>6. QED
    BY <2>3, <2>4, <2>5
<1>4. CASE ExpireVault(t)
  <2>1. /\ st[v].eph /\ mu = NoThread
        /\ UNCHANGED <<stage, toload, acked, bound, ownerEnded, readonly, leaked>>
    BY <1>1, <1>4 DEF ExpireVault, ThreadFits, At, history
  <2>2. \/ v \in served /\ (EndBy(t, v, "idle") \/ EndFailsBy(t, v))
        \/ Reply(t) /\ UNCHANGED <<disk, memory, mu>>
    BY <1>4 DEF ExpireVault
  <2>3. CASE v \in served /\ (EndBy(t, v, "idle") \/ EndFailsBy(t, v))
    BY <1>1, <2>1, <2>3, EndStep, EndFailsStep
  <2>4. CASE Reply(t) /\ UNCHANGED <<disk, memory, mu>>
    BY <1>1, <2>1, <2>4, ReplyStep
  <2>5. QED
    BY <2>2, <2>3, <2>4
<1>5. CASE Read(t)
  BY <1>1, <1>5, ReplyStep DEF Read, history
<1>6. QED
  BY <1>2, <1>3, <1>4, <1>5

(* DROP, of an ephemeral vault only, and the owner's DropVault.            *)
LEMMA DropStep ==
    ASSUME IndInv, TypeOK', NEW t \in Thread, DropByHolder(t) \/ DropVault(t)
    PROVE  IndInv'
<1> DEFINE v == th[t].v
<1>1. th[t].pc # "idle" /\ ~At(t, "remove")
  BY DEF DropByHolder, DropVault, Starts, Performs, At
<1>2. CASE DropByHolder(t)
  <2>1. UNCHANGED <<stage, toload, acked, bound, ownerEnded, readonly, leaked>>
    BY <1>2 DEF DropByHolder, history
  <2>2. \/ /\ v \in served /\ st[v].eph /\ mu = NoThread
           /\ EndBy(t, v, "idle") \/ EndFailsBy(t, v)
        \/ Reply(t) /\ UNCHANGED <<disk, memory, mu>>
    BY <1>2 DEF DropByHolder
  <2>3. CASE /\ v \in served /\ st[v].eph /\ mu = NoThread
             /\ EndBy(t, v, "idle") \/ EndFailsBy(t, v)
    BY <1>1, <2>1, <2>3, EndStep, EndFailsStep
  <2>4. CASE Reply(t) /\ UNCHANGED <<disk, memory, mu>>
    BY <1>1, <2>1, <2>4, ReplyStep
  <2>5. QED
    BY <2>2, <2>3, <2>4
<1>3. CASE DropVault(t)
  <2>1. mu = NoThread /\ UNCHANGED <<stage, toload, acked, bound, readonly, leaked>>
    BY <1>3 DEF DropVault, Starts
  <2>2. CASE v \in served
    <3>1. EndBy(t, v, "idle") \/ EndFailsBy(t, v)
      BY <1>3, <2>2 DEF DropVault
    <3>2. ownerEnded' = ownerEnded \cup {v}
      BY <1>3, <2>2 DEF DropVault
    <3>3. QED
      BY <1>1, <2>1, <2>2, <3>1, <3>2, EndStep, EndFailsStep
  <2>3. CASE v \notin served
    BY <1>1, <1>3, <2>1, <2>3, ReplyStep DEF DropVault
  <2>4. QED
    BY <2>2, <2>3
<1>4. QED
  BY <1>2, <1>3

(* Every step of a handler keeps the invariant.                            *)
LEMMA HandleStep ==
    ASSUME IndInv, TypeOK', NEW t \in Thread, Handle(t)
    PROVE  IndInv'
BY RegisterStep, SweepStep, CreateRecordStep, CreateLogStep, RemoveLogStep, LookupStep, PushStep,
   AddEntriesStep, SetNoPushStep, DropStep DEF Handle

-----------------------------------------------------------------------------
(* While the server is not up no goroutine is in a section.                *)
LEMMA AllIdle ==
    ASSUME \A t \in Thread : th'[t] = Idle
    PROVE  ThreadInv'
BY DEF ThreadInv, ThreadFits, Creating, At, Idle, UnderLock

(* Time passes.                                                            *)
LEMMA TickStep ==
    ASSUME IndInv, TypeOK', Tick
    PROVE  IndInv'
<1>1. UNCHANGED <<rec, haslog, elog, stage, toload, served, revoked, gone, st, mu, th,
                  acked, bound, ownerEnded, readonly, leaked>>
  BY DEF Tick, disk, memory, history
<1>2. ThreadInv'
  BY <1>1 DEF IndInv, ThreadInv, ThreadFits, Creating, At, UnderLock
<1>3. QED
  BY <1>1, <1>2 DEF IndInv, ProcessInv, MapInv, TombInv, OwnerInv, OwnerDecides, PermanentEndsByOwner,
     ReadOnlyHolds, AckInv, AckedKept, BoundInv, QuotaInv, LogInv, Known, At

(* A part of a batch that fits a vault fits it.                            *)
LEMMA PartFits ==
    ASSUME IndInv, NEW v \in served, NEW es \in SUBSET Entry, NEW skew \in BOOLEAN,
           Valid(v, es, skew), NEW S \in SUBSET New(v, es), "loadlog" \notin Faults
    PROVE  /\ Bytes(elog[v] \cup S) <= MaxVaultBytes
           /\ Cardinality(elog[v] \cup S) <= MaxEntries
<1>1. PICK new : new = New(v, es)
  OBVIOUS
<1>2. PICK E : E = elog[v]
  OBVIOUS
<1>3. v \in Vault /\ TypeOK
  BY DEF IndInv, TypeOK
<1>4. PICK rest : rest = new \ S
  OBVIOUS
<1>5. /\ E \in SUBSET Entry /\ S \in SUBSET Entry /\ rest \in SUBSET Entry
      /\ E \cap S = {} /\ S \cap rest = {} /\ new = S \cup rest /\ E \cup S \in SUBSET Entry
  BY <1>1, <1>2, <1>3, <1>4 DEF New, TypeOK
<1>6. Bytes(E) + Bytes(new) <= MaxVaultBytes /\ Cardinality(E) + Cardinality(new) <= MaxEntries
  BY <1>1, <1>2 DEF Valid, IndInv, QuotaInv
<1>7. Bytes(E \cup S) = Bytes(E) + Bytes(S) /\ Bytes(new) = Bytes(S) + Bytes(rest)
  BY <1>5, BytesUnion
<1>8. /\ Bytes(E) \in Nat /\ Bytes(S) \in Nat /\ Bytes(rest) \in Nat
  BY <1>5, BytesFacts
<1>9. Bytes(E \cup S) <= MaxVaultBytes
  BY <1>6, <1>7, <1>8, ServerConstants
<1>10. /\ IsFiniteSet(E) /\ IsFiniteSet(S) /\ IsFiniteSet(new) /\ S \subseteq new
  <2>1. new \in SUBSET Entry /\ S \subseteq new
    BY <1>5
  <2>2. QED
    BY <1>5, <2>1, ServerConstants, FS_Subset
<1>11. /\ Cardinality(E) \in Nat /\ Cardinality(S) \in Nat /\ Cardinality(new) \in Nat
       /\ Cardinality(S) <= Cardinality(new)
  BY <1>10, FS_CardinalityType, FS_Subset
<1>12. Cardinality(E \cup S) = Cardinality(E) + Cardinality(S)
  <2>1. Cardinality(E \cup S) = Cardinality(E) + Cardinality(S) - Cardinality(E \cap S)
    BY <1>10, FS_Union
  <2>2. Cardinality(E \cap S) = 0
    BY <1>5, FS_EmptySet
  <2>3. QED
    BY <1>11, <2>1, <2>2
<1>13. Cardinality(E \cup S) <= MaxEntries
  BY <1>6, <1>11, <1>12, ServerConstants
<1>14. QED
  BY <1>2, <1>9, <1>13

(* The process dies wherever it is, part of a batch appended or not: a log *)
(* is within its quotas and loses nothing.                                 *)
LEMMA ExitStep ==
    ASSUME IndInv, TypeOK', Exit
    PROVE  IndInv'
<1>1. /\ stage' = "down" /\ toload' = {} /\ served' = {} /\ revoked' = {} /\ gone' = {}
      /\ readonly' = {} /\ th' = [t \in Thread |-> Idle]
      /\ UNCHANGED <<rec, haslog, acked, bound, ownerEnded, leaked>>
  BY DEF Exit
<1>2. PICK part \in [Vault -> SUBSET Entry] :
         /\ \A v \in Vault : part[v] # {} =>
               \E t \in Thread : Appending(t, v) /\ part[v] \subseteq New(v, th[t].es)
         /\ elog' = [v \in Vault |-> elog[v] \cup part[v]]
  BY DEF Exit
<1>3. ProcessInv' /\ TombInv' /\ LogInv'
  BY <1>1 DEF ProcessInv, TombInv, LogInv, Known
<1>4. MapInv'
  BY <1>1, FS_EmptySet DEF MapInv
<1>5. ThreadInv'
  BY <1>1, AllIdle
<1>6. \A v \in Vault : elog'[v] = elog[v] \cup part[v]
  BY <1>2
<1>7. OwnerInv' /\ AckInv' /\ BoundInv'
  BY <1>1, <1>6 DEF IndInv, OwnerInv, OwnerDecides, PermanentEndsByOwner, ReadOnlyHolds, AckInv,
     AckedKept, BoundInv
<1>8. QuotaInv'
  <2>1. SUFFICES ASSUME "loadlog" \notin Faults, NEW v \in Vault
                 PROVE  /\ Bytes(elog'[v]) <= MaxVaultBytes
                        /\ Cardinality(elog'[v]) <= MaxEntries
                        /\ elog'[v] # {} => rec[v].state # "none"
    BY <1>1 DEF QuotaInv
  <2>2. CASE part[v] = {}
    <3>1. elog'[v] = elog[v]
      BY <1>6, <2>2
    <3>2. QED
      BY <2>1, <3>1 DEF IndInv, QuotaInv
  <2>3. ASSUME NEW t \in Thread, Appending(t, v), part[v] \subseteq New(v, th[t].es)
        PROVE  /\ Bytes(elog'[v]) <= MaxVaultBytes
               /\ Cardinality(elog'[v]) <= MaxEntries
               /\ elog'[v] # {} => rec[v].state # "none"
    <3>1. v \in served
      BY <2>3 DEF Appending, IndInv, ThreadInv, ThreadFits, At
    <3>2. th[t].es \in SUBSET Entry
      BY <2>3, InRequest DEF Appending, At, IndInv
    <3>3. PICK skew \in BOOLEAN : Valid(v, th[t].es, skew)
      BY <2>3 DEF Appending
    <3>4. rec[v].state # "none"
      BY <3>1, ServedFacts
    <3>5. QED
      BY <1>6, <2>1, <2>3, <3>1, <3>2, <3>3, <3>4, PartFits
  <2>4. QED
    BY <1>2, <2>2, <2>3
<1>9. QED
  BY <1>3, <1>4, <1>5, <1>7, <1>8 DEF IndInv

(* A start: every directory with a record is to be read, so every vault    *)
(* that ended, was promised or has entries is known.                       *)
LEMMA StartStep ==
    ASSUME IndInv, TypeOK', Start
    PROVE  IndInv'
<1>1. /\ stage = "down" /\ stage' = "loading" /\ toload' = {v \in Vault : rec[v].state # "none"}
      /\ UNCHANGED <<rec, haslog, elog, served, revoked, gone, st, th, acked, bound, ownerEnded,
                     readonly, leaked>>
  BY DEF Start, disk, memory, history
<1>2. /\ served = {} /\ revoked = {} /\ readonly = {} /\ \A t \in Thread : th[t] = Idle
  BY <1>1 DEF IndInv, ProcessInv, Known
<1>3. Known' = {v \in Vault : rec[v].state # "none"}
  BY <1>1, <1>2 DEF Known
<1>4. ProcessInv'
  BY <1>1, <1>2, <1>3 DEF ProcessInv
<1>5. MapInv' /\ OwnerInv' /\ AckInv'
  BY <1>1 DEF IndInv, MapInv, OwnerInv, OwnerDecides, PermanentEndsByOwner, ReadOnlyHolds, AckInv,
     AckedKept
<1>6. ThreadInv'
  BY <1>1, <1>2, AllIdle
<1>7. TombInv' /\ LogInv'
  BY <1>1, <1>3 DEF TombInv, LogInv
<1>8. BoundInv' /\ QuotaInv'
  BY <1>1, <1>3 DEF IndInv, BoundInv, QuotaInv
<1>9. QED
  BY <1>4, <1>5, <1>6, <1>7, <1>8 DEF IndInv

(* Everything is loaded and nothing is due.                                *)
LEMMA ServeStep ==
    ASSUME IndInv, TypeOK', Serve
    PROVE  IndInv'
<1>1. /\ stage = "loading" /\ stage' = "up" /\ toload = {} /\ toload' = {} /\ Known' = Known
      /\ UNCHANGED <<rec, haslog, elog, served, revoked, gone, st, th, acked, bound, ownerEnded,
                     readonly, leaked>>
  BY DEF Serve, disk, memory, history, Known
<1>2. ProcessInv' /\ TombInv' /\ MapInv'
  BY <1>1 DEF IndInv, ProcessInv, TombInv, MapInv
<1>3. ThreadInv'
  BY <1>1, AllIdle DEF IndInv, ProcessInv
<1>4. OwnerInv' /\ AckInv' /\ BoundInv' /\ QuotaInv'
  BY <1>1 DEF IndInv, OwnerInv, OwnerDecides, PermanentEndsByOwner, ReadOnlyHolds, AckInv,
     AckedKept, BoundInv, QuotaInv
<1>5. LogInv'
  BY <1>1 DEF IndInv, LogInv, At
<1>6. QED
  BY <1>2, <1>3, <1>4, <1>5 DEF IndInv

(* loadPersistedVaults: the directory read leaves toload for the map or    *)
(* the refused, unless its log may fail to open.                           *)
LEMMA LoadStep ==
    ASSUME IndInv, TypeOK', NEW v \in Vault, LoadVault(v)
    PROVE  IndInv'
<1>1. /\ stage = "loading" /\ v \in toload /\ toload' = toload \ {v}
      /\ UNCHANGED <<rec, stage, gone, th, acked, bound, ownerEnded, readonly, leaked>>
  BY DEF LoadVault, history
<1>2. /\ TypeOK /\ v \notin served \cup revoked /\ readonly = {}
      /\ \A t \in Thread : th[t] = Idle
  BY <1>1 DEF IndInv, ProcessInv
<1>3. ThreadInv'
  BY <1>1, <1>2, AllIdle
<1>4. \A w \in served : w \in Vault /\ w # v
  BY <1>2 DEF TypeOK
<1>5. OwnerInv'
  BY <1>1, <1>2 DEF IndInv, OwnerInv, OwnerDecides, PermanentEndsByOwner, ReadOnlyHolds
<1>6. CASE LoadRefused(v) \/ LoadEnded(v)
  <2>1. /\ rec[v].state \in {"bad", "ended"} /\ revoked' = revoked \cup {v}
        /\ served' = served /\ st' = st
    BY <1>6 DEF LoadRefused, LoadEnded
  <2>2. /\ elog'[v] \in {elog[v], {}} /\ haslog' \in {haslog, haslog \ {v}}
        /\ "remove" \notin Faults /\ rec[v].state = "ended" => v \notin haslog'
        /\ \A w \in Vault : w # v => elog'[w] = elog[w]
    BY <1>2, <1>6, RemovedLog DEF LoadRefused, LoadEnded
  <2>3. Known' = Known
    BY <1>1, <2>1 DEF Known
  <2>4. ProcessInv' /\ TombInv'
    BY <1>1, <1>2, <2>1, <2>3 DEF IndInv, ProcessInv, TombInv
  <2>5. MapInv'
    BY <1>1, <1>2, <1>4, <2>1, <2>2 DEF IndInv, MapInv
  <2>6. AckInv' /\ BoundInv'
    BY <1>1, <2>1, <2>2, <2>3 DEF IndInv, AckInv, AckedKept, BoundInv
  <2>7. QuotaInv'
    <3>1. Bytes({}) <= MaxVaultBytes /\ Cardinality({}) <= MaxEntries
      BY BytesFacts, FS_EmptySet, ServerConstants
    <3>2. QED
      BY <1>1, <1>4, <2>1, <2>2, <2>3, <3>1 DEF IndInv, QuotaInv
  <2>8. LogInv'
    <3>1. \A t \in Thread : ~At(t, "remove")
      BY <1>2 DEF At, Idle
    <3>2. QED
      BY <1>1, <2>1, <2>2, <3>1 DEF IndInv, LogInv
  <2>9. QED
    BY <1>3, <1>5, <2>4, <2>5, <2>6, <2>7, <2>8 DEF IndInv
<1>7. CASE LoadLive(v)
  <2>1. /\ rec[v].state = "live" /\ haslog' = haslog \cup {v} /\ served' = served \cup {v}
        /\ elog' = elog /\ revoked' = revoked
    BY <1>7 DEF LoadLive
  <2>2. Bytes(elog[v]) \in Nat
    BY <1>2, BytesFacts DEF TypeOK
  <2>3. /\ st'[v].key = rec[v].key /\ st'[v].eph = rec[v].eph
        /\ st'[v].created = rec[v].created /\ st'[v].bytes = Bytes(elog[v])
        /\ \A w \in Vault : w # v => st'[w] = st[w]
    BY <1>2, <1>7, <2>2, Opened DEF LoadLive
  <2>4. Known' = Known
    BY <1>1, <2>1 DEF Known
  <2>5. ProcessInv' /\ TombInv'
    BY <1>1, <1>2, <2>1, <2>4 DEF IndInv, ProcessInv, TombInv
  <2>6. MapInv'
    <3>1. IsFiniteSet(served')
      BY <2>1, FS_AddElement DEF IndInv, MapInv
    <3>2. QED
      BY <1>1, <1>2, <1>4, <2>1, <2>3, <3>1 DEF IndInv, MapInv
  <2>7. AckInv' /\ BoundInv'
    BY <1>1, <2>1, <2>4 DEF IndInv, AckInv, AckedKept, BoundInv
  <2>8. QuotaInv'
    BY <1>1, <1>4, <2>1, <2>3, <2>4 DEF IndInv, QuotaInv
  <2>9. LogInv'
    BY <1>1, <2>1 DEF IndInv, LogInv, At
  <2>10. QED
    BY <1>3, <1>5, <2>5, <2>6, <2>7, <2>8, <2>9 DEF IndInv
<1>8. CASE LoadSkipped(v)
  <2>1. /\ rec[v].state = "live" /\ "loadlog" \in Faults
        /\ UNCHANGED <<haslog, elog, served, revoked, st>>
    BY <1>8 DEF LoadSkipped
  <2>2. ProcessInv'
    BY <1>1, <2>1 DEF IndInv, ProcessInv, Known
  <2>3. TombInv' /\ MapInv' /\ LogInv'
    BY <1>1, <2>1 DEF IndInv, TombInv, MapInv, LogInv, Known, At
  <2>4. AckInv' /\ BoundInv' /\ QuotaInv'
    BY <1>1, <2>1 DEF IndInv, AckInv, AckedKept, BoundInv, QuotaInv
  <2>5. QED
    BY <1>3, <1>5, <2>2, <2>3, <2>4 DEF IndInv
<1>9. QED
  BY <1>6, <1>7, <1>8 DEF LoadVault

(* The sweep that ends New, and New giving up when it fails.               *)
LEMMA LoadSweepStep ==
    ASSUME IndInv, TypeOK', LoadSweep
    PROVE  IndInv'
<1>1. PICK v \in served :
        /\ Expired(v)
        /\ \/ EndVault(v) /\ RemoveLog(v) /\ UNCHANGED stage
           \/ /\ \/ "record" \in Faults /\ UNCHANGED rec
                 \/ "recordsync" \in Faults /\ rec' = [rec EXCEPT ![v].state = "ended"]
              /\ stage' = "down"
              /\ served' = {}
              /\ revoked' = {}
              /\ gone' = {}
              /\ st' = [w \in Vault |-> NoState]
              /\ UNCHANGED <<haslog, elog>>
  BY DEF LoadSweep
<1>2. /\ stage = "loading" /\ toload = {}
      /\ UNCHANGED <<toload, th, acked, bound, ownerEnded, readonly, leaked>>
  BY DEF LoadSweep, history
<1>3. /\ TypeOK /\ readonly = {} /\ \A t \in Thread : th[t] = Idle
      /\ v \in Vault /\ v \notin revoked /\ v \notin gone
      /\ rec[v].state \in {"live", "ended"} /\ rec[v].eph
  BY <1>1, <1>2, ServedFacts DEF IndInv, ProcessInv, Expired
<1>4. ThreadInv'
  BY <1>2, <1>3, AllIdle
<1>5. /\ rec'[v].state \in {rec[v].state, "ended"} /\ rec'[v].key = rec[v].key
      /\ rec'[v].eph = rec[v].eph /\ rec'[v].created = rec[v].created
      /\ \A w \in Vault : w # v => rec'[w] = rec[w]
  BY <1>1, <1>3, EndedRecord DEF EndVault
<1>6. OwnerInv'
  <2>1. PermanentEndsByOwner'
    BY <1>2, <1>3, <1>5 DEF IndInv, OwnerInv, OwnerDecides, PermanentEndsByOwner
  <2>2. QED
    BY <1>2, <1>3, <2>1 DEF IndInv, OwnerInv, OwnerDecides, ReadOnlyHolds
<1>7. CASE EndVault(v) /\ RemoveLog(v) /\ UNCHANGED stage
  <2>1. /\ rec'[v].state = "ended" /\ served' = served \ {v} /\ revoked' = revoked \cup {v}
        /\ gone' = gone \cup {v} /\ st' = st
    BY <1>3, <1>7, EndedRecord DEF EndVault
  <2>2. /\ elog'[v] \in {elog[v], {}} /\ haslog' \in {haslog, haslog \ {v}}
        /\ "remove" \notin Faults => haslog' = haslog \ {v}
        /\ \A w \in Vault : w # v => elog'[w] = elog[w]
    BY <1>3, <1>7, RemovedLog
  <2>3. Known' = Known
    BY <1>2, <2>1 DEF Known
  <2>4. ProcessInv'
    BY <1>2, <1>7, <2>1, <2>3 DEF IndInv, ProcessInv
  <2>5. TombInv'
    BY <1>1, <1>2, <1>5, <1>7, <2>3 DEF IndInv, TombInv, Known
  <2>6. MapInv'
    <3>1. IsFiniteSet(served')
      BY <2>1, FS_RemoveElement DEF IndInv, MapInv
    <3>2. \A w \in served' : w \in Vault /\ w \in served /\ w # v /\ rec'[w] = rec[w]
      BY <1>3, <1>5, <2>1 DEF TypeOK
    <3>3. QED
      BY <2>1, <2>2, <3>1, <3>2 DEF IndInv, MapInv
  <2>7. AckInv' /\ BoundInv'
    <3>1. AckInv'
      BY <1>2, <1>5, <2>1, <2>2 DEF IndInv, AckInv, AckedKept
    <3>2. BoundInv'
      BY <1>2, <1>3, <1>5, <1>7, <2>3, ZenonT(60) DEF IndInv, BoundInv
    <3>3. QED
      BY <3>1, <3>2
  <2>8. QuotaInv'
    <3>1. Bytes({}) <= MaxVaultBytes /\ Cardinality({}) <= MaxEntries
      BY BytesFacts, FS_EmptySet, ServerConstants
    <3>2. \A w \in served' : w \in Vault /\ w \in served /\ w # v
      BY <1>3, <2>1 DEF TypeOK
    <3>3. QED
      BY <1>2, <1>3, <1>5, <1>7, <2>1, <2>2, <2>3, <3>1, <3>2 DEF IndInv, QuotaInv
  <2>9. LogInv'
    <3>1. \A t \in Thread : ~At(t, "remove")
      BY <1>3 DEF At, Idle
    <3>2. QED
      BY <1>2, <1>5, <1>7, <2>1, <2>2, <3>1 DEF IndInv, LogInv
  <2>10. QED
    BY <1>4, <1>6, <2>4, <2>5, <2>6, <2>7, <2>8, <2>9 DEF IndInv
<1>8. CASE /\ stage' = "down" /\ served' = {} /\ revoked' = {} /\ gone' = {}
           /\ UNCHANGED <<haslog, elog>>
  <2>1. ProcessInv' /\ TombInv' /\ LogInv'
    BY <1>2, <1>3, <1>8 DEF ProcessInv, TombInv, LogInv, Known
  <2>2. MapInv'
    BY <1>8, FS_EmptySet DEF MapInv
  <2>3. AckInv'
    BY <1>2, <1>3, <1>5, <1>8 DEF IndInv, AckInv, AckedKept
  <2>4. BoundInv'
    BY <1>2, <1>3, <1>5, <1>8, ZenonT(60) DEF IndInv, BoundInv
  <2>5. QuotaInv'
    BY <1>2, <1>3, <1>5, <1>8 DEF IndInv, QuotaInv
  <2>6. QED
    BY <1>4, <1>6, <2>1, <2>2, <2>3, <2>4, <2>5 DEF IndInv
<1>9. QED
  BY <1>1, <1>7, <1>8

(* The operator ends a vault, or a record is damaged, on a stopped server. *)
LEMMA StoppedStep ==
    ASSUME IndInv, TypeOK', NEW v \in Vault, DropVaultDir(v) \/ Damage(v)
    PROVE  IndInv'
<1>1. /\ stage = "down" /\ UNCHANGED <<stage, toload, served, revoked, gone, st, th, acked, bound,
                                       readonly, leaked>>
  BY DEF DropVaultDir, Damage, memory, history
<1>2. /\ TypeOK /\ served = {} /\ revoked = {} /\ toload = {} /\ gone = {} /\ readonly = {}
      /\ \A t \in Thread : th[t] = Idle
  BY <1>1 DEF IndInv, ProcessInv, MapInv, Known
<1>3. /\ rec'[v].state \in {"ended", "bad"}
      /\ rec'[v].state = "ended" => v \in ownerEnded'
      /\ \/ rec[v].state = "none"
         \/ /\ rec'[v].key = rec[v].key /\ rec'[v].eph = rec[v].eph
            /\ rec'[v].created = rec[v].created
      /\ \A w \in Vault : w # v => rec'[w] = rec[w]
  <2>1. CASE DropVaultDir(v)
    BY <1>2, <2>1 DEF DropVaultDir, TypeOK, Record
  <2>2. CASE Damage(v)
    BY <1>2, <2>2 DEF Damage, TypeOK, Record
  <2>3. QED
    BY <2>1, <2>2
<1>4. /\ elog'[v] \in {elog[v], {}} /\ ownerEnded \subseteq ownerEnded'
      /\ \A w \in Vault : w # v => elog'[w] = elog[w]
  BY <1>2, RemovedLog DEF DropVaultDir, Damage, history
<1>5. ProcessInv' /\ TombInv' /\ LogInv'
  BY <1>1, <1>2 DEF IndInv, ProcessInv, TombInv, LogInv, Known
<1>6. MapInv'
  BY <1>1, <1>2, FS_EmptySet DEF MapInv
<1>7. ThreadInv'
  BY <1>1, <1>2, AllIdle
<1>8. OwnerInv'
  BY <1>1, <1>2, <1>3, <1>4
     DEF IndInv, OwnerInv, OwnerDecides, PermanentEndsByOwner, ReadOnlyHolds
<1>9. AckInv'
  BY <1>1, <1>3, <1>4 DEF IndInv, AckInv, AckedKept
<1>10. BoundInv'
  BY <1>1, <1>3 DEF IndInv, BoundInv
<1>11. QuotaInv'
  <2>1. Bytes({}) <= MaxVaultBytes /\ Cardinality({}) <= MaxEntries
    BY BytesFacts, FS_EmptySet, ServerConstants
  <2>2. QED
    BY <1>1, <1>2, <1>3, <1>4, <2>1 DEF IndInv, QuotaInv
<1>12. QED
  BY <1>5, <1>6, <1>7, <1>8, <1>9, <1>10, <1>11 DEF IndInv

-----------------------------------------------------------------------------
(* Every step keeps the invariant.                                         *)
LEMMA InvStep == IndInv /\ [Next]_vars => IndInv'
<1>1. SUFFICES ASSUME IndInv, [Next]_vars PROVE IndInv'
  OBVIOUS
<1>2. TypeOK'
  BY <1>1, TypeStep DEF IndInv
<1>3. CASE Next
  BY <1>1, <1>2, <1>3, TickStep, ExitStep, StartStep, LoadSweepStep, ServeStep, ArriveStep,
     HandleStep, LoadStep, StoppedStep DEF Next
<1>4. CASE UNCHANGED vars
  <2>1. UNCHANGED <<rec, haslog, elog, stage, toload, served, revoked, gone, st, mu, th,
                    acked, bound, ownerEnded, readonly, leaked>>
    BY <1>4 DEF vars, disk, memory, history
  <2>2. ThreadInv'
    BY <1>1, <2>1 DEF IndInv, ThreadInv, ThreadFits, Creating, At, UnderLock
  <2>3. QED
    BY <1>1, <1>2, <2>1, <2>2 DEF IndInv, ProcessInv, MapInv, TombInv, OwnerInv, OwnerDecides,
       PermanentEndsByOwner, ReadOnlyHolds, AckInv, AckedKept, BoundInv, QuotaInv, LogInv, Known, At
<1>5. QED
  BY <1>1, <1>3, <1>4

(* The inductive invariant holds in every state, whatever fails.           *)
THEOREM Invariance == Spec => []IndInv
<1>1. Init => IndInv
  BY InitInv
<1>2. IndInv /\ [Next]_vars => IndInv'
  BY InvStep
<1>3. QED
  BY <1>1, <1>2, PTL DEF Spec

(* Types hold in every state.                                              *)
THEOREM TypeCorrect == Spec => []TypeOK
<1>1. IndInv => TypeOK
  BY DEF IndInv
<1>2. QED
  BY <1>1, Invariance, PTL

(* If no directory sync of a record fails, what is served is what the disk *)
(* says is live: no interleaving of expiry, drops, owner calls, REGISTERs  *)
(* and restarts serves a vault that has ended.                             *)
THEOREM ServedVaultsLive ==
    ASSUME "recordsync" \notin Faults
    PROVE  Spec => []ServedIsLive
<1>1. IndInv => ServedIsLive
  BY DEF IndInv, MapInv, ServedIsLive
<1>2. QED
  BY <1>1, Invariance, PTL

(* If a start opens the log of every live vault, no REGISTER, EnsureVault, *)
(* restart or failed write changes what a vault was created with.          *)
THEOREM BindingsStand ==
    ASSUME "loadlog" \notin Faults
    PROVE  Spec => []BoundForever
<1>1. IndInv => BoundForever
  <2>1. SUFFICES ASSUME IndInv, NEW v \in Vault, bound[v] # NoRecord, rec[v].state # "bad"
                 PROVE  /\ rec[v].state \in {"live", "ended"}
                        /\ rec[v].key = bound[v].key /\ rec[v].eph = bound[v].eph
                        /\ rec[v].created = bound[v].created
    BY DEF BoundForever
  <2>2. rec[v].state \in {"none", "live", "ended", "bad"}
    BY <2>1 DEF IndInv, TypeOK, Record
  <2>3. QED
    BY <2>1, <2>2 DEF IndInv, BoundInv
<1>2. QED
  BY <1>1, Invariance, PTL

(* Whatever fails, no acknowledged entry leaves a live vault.              *)
THEOREM AckedEntriesKept == Spec => []AckedKept
<1>1. IndInv => AckedKept
  BY DEF IndInv, AckInv
<1>2. QED
  BY <1>1, Invariance, PTL

(* If a start opens the log of every live vault, the byte account of every *)
(* served vault is exact and both quotas hold.                             *)
THEOREM QuotasExact ==
    ASSUME "loadlog" \notin Faults
    PROVE  Spec => []QuotaExact
<1>1. IndInv => QuotaExact
  <2>1. SUFFICES ASSUME IndInv, NEW v \in served
                 PROVE  /\ st[v].bytes = Bytes(elog[v])
                        /\ st[v].bytes <= MaxVaultBytes
                        /\ Cardinality(elog[v]) <= MaxEntries
    BY DEF QuotaExact
  <2>2. v \in Vault
    BY <2>1 DEF IndInv, TypeOK
  <2>3. QED
    BY <2>1, <2>2 DEF IndInv, QuotaInv
<1>2. QED
  BY <1>1, Invariance, PTL

(* Whatever fails, a permanent vault ends only by its owner, and no PUSH   *)
(* adds to a vault its owner has set read-only.                            *)
THEOREM OwnerHasTheSay == Spec => []OwnerDecides
<1>1. IndInv => OwnerDecides
  BY DEF IndInv, OwnerInv
<1>2. QED
  BY <1>1, Invariance, PTL

(* If deleting a log does not fail, a server that is up and not ending a   *)
(* vault has left no log of an ended one, unless it serves it on.          *)
THEOREM EndedLogsGone ==
    ASSUME "remove" \notin Faults
    PROVE  Spec => []EndedLogGone
<1>1. IndInv => EndedLogGone
  <2>1. SUFFICES ASSUME IndInv, stage = "up", mu = NoThread, NEW v \in Vault,
                        rec[v].state = "ended", v \in haslog
                 PROVE  v \in served
    BY DEF EndedLogGone
  <2>2. \A t \in Thread : ~At(t, "remove")
    BY <2>1, ServerConstants DEF IndInv, ThreadInv, ThreadFits, UnderLock, At
  <2>3. QED
    BY <2>1, <2>2 DEF IndInv, LogInv, ProcessInv
<1>2. QED
  BY <1>1, Invariance, PTL

-----------------------------------------------------------------------------
(* endLocked, done or failed, ends no record but that of a served vault.   *)
LEMMA EndKeeps ==
    ASSUME IndInv, NEW t \in Thread, NEW w \in served, NEW then,
           EndBy(t, w, then) \/ EndFailsBy(t, w)
    PROVE  \A v \in Vault : rec[v].state \in {"ended", "bad"} => rec'[v].state = rec[v].state
<1>1. TypeOK /\ w \in Vault /\ rec[w].state \in {"live", "ended"}
  BY ServedFacts DEF IndInv
<1>2. rec' = rec \/ rec' = [rec EXCEPT ![w].state = "ended"]
  BY DEF EndBy, EndVault, EndFailsBy, EndFails
<1>3. QED
  BY <1>1, <1>2, EndedRecord

(* No step changes the state of a record that is ended or damaged, but for *)
(* damaging it.                                                            *)
LEMMA EndedStays ==
    ASSUME IndInv, Next, NEW v \in Vault, rec[v].state \in {"ended", "bad"}
    PROVE  rec'[v].state \in {rec[v].state, "bad"}
<1>1. SUFFICES ASSUME rec' # rec PROVE rec'[v].state \in {rec[v].state, "bad"}
  OBVIOUS
<1>2. ~Tick /\ ~Exit /\ ~Start /\ ~Serve
  BY <1>1 DEF Tick, Exit, Start, Serve, disk
<1>3. ASSUME LoadSweep PROVE rec'[v].state = rec[v].state
  <2>1. PICK w \in served : rec' = [rec EXCEPT ![w].state = "ended"]
    BY <1>1, <1>3 DEF LoadSweep, EndVault
  <2>2. TypeOK /\ w \in Vault /\ rec[w].state \in {"live", "ended"}
    BY ServedFacts DEF IndInv
  <2>3. QED
    BY <2>1, <2>2, EndedRecord
<1>4. ASSUME NEW w \in Vault, LoadVault(w) \/ DropVaultDir(w) \/ Damage(w)
      PROVE  rec'[v].state \in {rec[v].state, "bad"}
  BY <1>1, <1>4, SMTT(30) DEF LoadVault, DropVaultDir, Damage, IndInv, TypeOK, Record
<1>5. ASSUME NEW t \in Thread, Arrive(t) \/ Handle(t) PROVE rec'[v].state = rec[v].state
  <2> DEFINE u == th[t].v
             Ended == \E w \in served : \E then \in {"idle", "sweep"} :
                          EndBy(t, w, then) \/ EndFailsBy(t, w)
  <2>1. CASE Ended
    BY <2>1, EndKeeps
  <2>2. CASE CreateRecord(t)
    <3>1. TypeOK /\ At(t, "create") /\ th[t].pc # "idle"
      BY <2>2 DEF IndInv, CreateRecord, At
    <3>2. /\ u \in Vault /\ th[t].key \in Key /\ th[t].flag \in BOOLEAN
          /\ stage = "up" /\ Known = served \cup revoked
      BY <3>1, InRequest, HandlersUp
    <3>3. u \notin Known
      BY <3>1, <3>2 DEF IndInv, ThreadInv, ThreadFits, Creating, At
    <3>4. u # v
      BY <3>2, <3>3 DEF IndInv, TombInv
    <3>5. rec' = [rec EXCEPT ![u] = LiveRecord(th[t].key, th[t].flag)]
      BY <1>1, <2>2 DEF CreateRecord
    <3> HIDE DEF u
    <3>6. QED
      BY <3>1, <3>2, <3>4, <3>5, NewRecord
  <2>3. CASE SweepVaults(t)
    <3>1. \E w \in served : EndBy(t, w, "sweep") \/ EndFailsBy(t, w)
      BY <1>1, <2>3, SweepShape DEF disk
    <3>2. QED
      BY <2>1, <3>1
  <2>4. CASE RegisterExpired(t) \/ ExpireVault(t) \/ DropByHolder(t) \/ DropVault(t)
    <3>1. u \in served /\ (EndBy(t, u, "idle") \/ EndFailsBy(t, u))
      BY <1>1, <2>4 DEF RegisterExpired, ExpireVault, DropByHolder, DropVault, disk
    <3>2. QED
      BY <2>1, <3>1
  <2>5. CASE \/ Arrive(t) \/ RegisterKnown(t) \/ RegisterNew(t) \/ EnsureVault(t) \/ CreateLog(t)
             \/ SyncLookup(t) \/ ExpireCheck(t) \/ Read(t) \/ Push(t) \/ OwnerLookup(t)
             \/ AddEntries(t) \/ SetNoPush(t) \/ RemoveStep(t)
    BY <1>1, <2>5 DEF Arrive, RegisterKnown, RegisterNew, EnsureVault, CreateLog, SyncLookup,
       ExpireCheck, Read, Push, OwnerLookup, AddEntries, SetNoPush, RemoveStep, disk
  <2>6. QED
    BY <1>5, <2>2, <2>3, <2>4, <2>5 DEF Handle
<1>6. QED
  BY <1>2, <1>3, <1>4, <1>5 DEF Next

(* Whatever fails, a vault that has ended, or whose record is damaged, is  *)
(* never brought back to life.                                             *)
THEOREM NoVaultRevives == Spec => EndedForever
<1>1. IndInv /\ [Next]_vars =>
        [\A v \in Vault : rec[v].state \in {"ended", "bad"} =>
            rec'[v].state \in {rec[v].state, "bad"}]_vars
  BY EndedStays
<1>2. QED
  BY <1>1, Invariance, PTL DEF Spec, EndedForever

-----------------------------------------------------------------------------
(* Between the cap's check and the map's change Server.mu is held, so no   *)
(* other step grows the map.                                               *)
LEMMA CapKept ==
    ASSUME IndInv, Next, NEW t \in Thread, At(t, "openlog"), th[t].op = "register",
           served' # served, stage' = "up"
    PROVE  Cardinality(served') <= MaxVaults
<1>1. /\ stage = "up" /\ mu = t /\ th[t].v \notin served /\ Cardinality(served) < MaxVaults
      /\ IsFiniteSet(served)
  <2>1. ThreadFits(t) /\ th[t].pc # "idle"
    BY DEF IndInv, ThreadInv, At
  <2>2. QED
    BY <2>1, HandlersUp DEF IndInv, MapInv, ThreadFits, Creating, UnderLock, At
<1>2. mu # NoThread
  BY <1>1, ServerConstants
<1>3. /\ ~Tick /\ ~Exit /\ ~Start /\ ~LoadSweep /\ ~Serve
      /\ \A v \in Vault : ~LoadVault(v) /\ ~DropVaultDir(v) /\ ~Damage(v)
  BY <1>1 DEF Tick, Exit, Start, LoadSweep, Serve, LoadVault, DropVaultDir, Damage, memory
<1>4. PICK u \in Thread : Arrive(u) \/ Handle(u)
  BY <1>3 DEF Next
<1>5. ~SweepVaults(u)
  <2>1. SUFFICES ASSUME SweepVaults(u) PROVE FALSE
    OBVIOUS
  <2>2. At(u, "sweep")
    BY <2>1, SweepShape
  <2>3. mu = u
    BY <2>2 DEF IndInv, ThreadInv, ThreadFits, UnderLock, At
  <2>4. QED
    BY <1>1, <2>2, <2>3 DEF At
<1>6. ~RegisterExpired(u) /\ ~ExpireVault(u) /\ ~DropVault(u)
  BY <1>2 DEF RegisterExpired, ExpireVault, DropVault, Starts
<1>7. ~DropByHolder(u)
  BY <1>2 DEF DropByHolder, memory
<1>8. ~ \/ Arrive(u) \/ RegisterKnown(u) \/ RegisterNew(u) \/ EnsureVault(u) \/ CreateRecord(u)
        \/ SyncLookup(u) \/ ExpireCheck(u) \/ Read(u) \/ Push(u) \/ OwnerLookup(u)
        \/ AddEntries(u) \/ SetNoPush(u) \/ RemoveStep(u)
  BY DEF Arrive, RegisterKnown, RegisterNew, EnsureVault, CreateRecord, SyncLookup, ExpireCheck,
     Read, Push, OwnerLookup, AddEntries, SetNoPush, RemoveStep, memory
<1>9. CreateLog(u)
  BY <1>4, <1>5, <1>6, <1>7, <1>8 DEF Handle
<1>10. At(u, "openlog") /\ served' = served \cup {th[u].v}
  BY <1>9 DEF CreateLog
<1>11. Cardinality(served') <= Cardinality(served) + 1
  <2>1. Cardinality(served) \in Nat
    BY <1>1, FS_CardinalityType
  <2>2. Cardinality(served \cup {th[u].v})
          = IF th[u].v \in served THEN Cardinality(served) ELSE Cardinality(served) + 1
    BY <1>1, FS_AddElement
  <2>3. QED
    BY <1>10, <2>1, <2>2
<1>12. Cardinality(served) \in Nat /\ Cardinality(served') \in Nat /\ MaxVaults \in Nat
  BY <1>1, <1>10, FS_CardinalityType, FS_AddElement, ServerConstants
<1>13. QED
  BY <1>1, <1>11, <1>12

(* Whatever fails and whatever runs between the cap's check and the map's  *)
(* change, no REGISTER takes the server past MaxVaults.                    *)
THEOREM CapHolds == Spec => RegisterWithinCap
<1>1. IndInv /\ [Next]_vars =>
        [\A t \in Thread :
          At(t, "openlog") /\ th[t].op = "register" /\ served' # served /\ stage' = "up"
              => Cardinality(served') <= MaxVaults]_vars
  BY CapKept
<1>2. QED
  BY <1>1, Invariance, PTL DEF Spec, RegisterWithinCap

-----------------------------------------------------------------------------
(* What a step may do to the log of v, as the server sees it: nothing; or  *)
(* it opens with all that was acknowledged, takes what is acknowledged, or *)
(* is closed.                                                              *)
LogStep(v) ==
    \/ /\ acked'[v] = acked[v] /\ (v \in served <=> v \in served')
       /\ v \in served => elog'[v] = elog[v]
    \/ v \notin served /\ v \in served' /\ acked'[v] = acked[v] /\ acked[v] \subseteq elog'[v]
    \/ /\ v \in served /\ v \in served'
       /\ \E S \in SUBSET Entry : elog'[v] = elog[v] \cup S /\ acked'[v] = acked[v] \cup S
    \/ v \in served /\ v \notin served' /\ acked'[v] = acked[v]

(* These are the steps of the contract.                                    *)
LEMMA StepInContract ==
    ASSUME TypeOK', NEW v \in Vault, LogStep(v)
    PROVE  [Log(v)!Next]_(Log(v)!vars)
<1>1. elog'[v] \in SUBSET Entry
  BY DEF TypeOK
<1>2. CASE /\ acked'[v] = acked[v] /\ (v \in served <=> v \in served')
           /\ v \in served => elog'[v] = elog[v]
  BY <1>2 DEF Log!vars
<1>3. CASE v \notin served /\ v \in served' /\ acked'[v] = acked[v] /\ acked[v] \subseteq elog'[v]
  BY <1>1, <1>3 DEF Log!Next, Log!Open
<1>4. CASE /\ v \in served /\ v \in served'
           /\ \E S \in SUBSET Entry : elog'[v] = elog[v] \cup S /\ acked'[v] = acked[v] \cup S
  BY <1>4 DEF Log!Next, Log!Commit
<1>5. CASE v \in served /\ v \notin served' /\ acked'[v] = acked[v]
  BY <1>5 DEF Log!Next, Log!Shut
<1>6. QED
  BY <1>2, <1>3, <1>4, <1>5 DEF LogStep

(* endLocked closes the log of the vault it ends and touches no other.     *)
LEMMA EndLogStep ==
    ASSUME IndInv, NEW t \in Thread, NEW w \in served, NEW then,
           EndBy(t, w, then) \/ EndFailsBy(t, w), acked' = acked, NEW v \in Vault
    PROVE  LogStep(v)
BY DEF EndBy, EndVault, EndFailsBy, EndFails, memory, LogStep

(* A handler treats the log of every vault so.                             *)
LEMMA HandlerLogStep ==
    ASSUME IndInv, NEW t \in Thread, Arrive(t) \/ Handle(t), NEW v \in Vault
    PROVE  LogStep(v)
<1> DEFINE u == th[t].v
           Ended == acked' = acked /\ \E w \in served : \E then \in {"idle", "sweep"} :
                        EndBy(t, w, then) \/ EndFailsBy(t, w)
           Still == UNCHANGED <<served, elog, acked>>
<1>1. CASE Ended
  BY <1>1, EndLogStep
<1>2. CASE Still
  BY <1>2 DEF LogStep
<1>3. CASE SweepVaults(t)
  BY <1>1, <1>2, <1>3, SweepShape DEF SweepVaults, disk, memory, history
<1>4. CASE RegisterExpired(t) \/ ExpireVault(t) \/ DropByHolder(t) \/ DropVault(t)
  <2>1. Still \/ Ended
    BY <1>4 DEF RegisterExpired, ExpireVault, DropByHolder, DropVault, disk, memory, history
  <2>2. QED
    BY <2>1, <1>1, <1>2
<1>5. CASE CreateLog(t)
  <2>1. TypeOK /\ At(t, "openlog") /\ th[t].pc # "idle"
    BY <1>5 DEF IndInv, CreateLog, At
  <2>2. u \in Vault
    BY <2>1, InRequest
  <2>3. u \notin served /\ rec[u].state = "live"
    BY <2>1 DEF IndInv, ThreadInv, ThreadFits, Creating, At
  <2>4. acked[u] \subseteq elog[u]
    BY <2>2, <2>3 DEF IndInv, AckInv, AckedKept
  <2>5. acked' = acked /\ elog' = elog /\ (served' = served \/ served' = served \cup {u})
    BY <1>5 DEF CreateLog
  <2> HIDE DEF u
  <2>6. QED
    BY <2>2, <2>3, <2>4, <2>5 DEF LogStep
<1>6. CASE Push(t) \/ AddEntries(t)
  <2>1. TypeOK /\ At(t, "op") /\ th[t].pc # "idle"
    BY <1>6 DEF IndInv, Push, AddEntries, Performs, At
  <2>2. u \in Vault /\ th[t].es \in SUBSET Entry
    BY <2>1, InRequest
  <2>3. served' = served /\ (UNCHANGED <<elog, acked>> \/ (u \notin gone /\ AddValidated(u, th[t].es)))
    BY <1>6 DEF Push, AddEntries
  <2>4. CASE u \notin gone /\ AddValidated(u, th[t].es)
    <3>1. u \in served
      BY <2>1, <2>4 DEF IndInv, ThreadInv, ThreadFits, At
    <3>2. /\ elog' = [elog EXCEPT ![u] = @ \cup th[t].es]
          /\ acked' = [acked EXCEPT ![u] = @ \cup th[t].es]
      BY <2>4 DEF AddValidated
    <3> HIDE DEF u
    <3>3. CASE v = u
      BY <2>1, <2>2, <2>3, <3>1, <3>2, <3>3 DEF LogStep, TypeOK
    <3>4. CASE v # u
      BY <2>1, <2>3, <3>2, <3>4 DEF LogStep, TypeOK
    <3>5. QED
      BY <3>3, <3>4
  <2>5. QED
    BY <1>2, <2>3, <2>4
<1>7. CASE RemoveStep(t)
  <2> DEFINE w == th[t].ending
  <2>1. TypeOK /\ At(t, "remove") /\ th[t].pc # "idle" /\ RemoveLog(w) /\ UNCHANGED <<served, acked>>
    BY <1>7 DEF IndInv, RemoveStep, At, memory, history
  <2>2. w \in Vault
    BY <2>1, InRequest
  <2>3. w \notin served
    BY <2>1 DEF IndInv, MapInv, ThreadInv, ThreadFits, At
  <2> HIDE DEF w
  <2>4. QED
    BY <2>1, <2>2, <2>3, RemovedLog DEF LogStep
<1>8. CASE \/ Arrive(t) \/ RegisterKnown(t) \/ RegisterNew(t) \/ EnsureVault(t) \/ CreateRecord(t)
           \/ SyncLookup(t) \/ ExpireCheck(t) \/ Read(t) \/ OwnerLookup(t) \/ SetNoPush(t)
  <2>1. Still
    BY <1>8 DEF Arrive, RegisterKnown, RegisterNew, EnsureVault, CreateRecord, SyncLookup,
       ExpireCheck, Read, OwnerLookup, SetNoPush, disk, memory, history
  <2>2. QED
    BY <1>2, <2>1
<1>9. QED
  BY <1>3, <1>4, <1>5, <1>6, <1>7, <1>8 DEF Handle

(* So does the process: a start opens only what it finds live, and the end *)
(* of the process closes all.                                              *)
LEMMA ProcessLogStep ==
    ASSUME IndInv, NEW v \in Vault,
           \/ Tick \/ Exit \/ Start \/ LoadSweep \/ Serve
           \/ \E w \in Vault : LoadVault(w) \/ DropVaultDir(w) \/ Damage(w)
    PROVE  LogStep(v)
<1>1. CASE Tick \/ Start \/ Serve \/ \E w \in Vault : Damage(w)
  BY <1>1 DEF Tick, Start, Serve, Damage, LogStep, disk, memory, history
<1>2. CASE Exit
  BY <1>2 DEF Exit, LogStep
<1>3. CASE LoadSweep
  <2>1. PICK w \in served :
           \/ EndVault(w) /\ RemoveLog(w)
           \/ served' = {} /\ UNCHANGED <<haslog, elog>>
    BY <1>3 DEF LoadSweep
  <2>2. TypeOK /\ w \in Vault /\ acked' = acked
    BY <1>3 DEF IndInv, TypeOK, LoadSweep, history
  <2>3. QED
    BY <2>1, <2>2, RemovedLog DEF EndVault, LogStep
<1>4. CASE \E w \in Vault : LoadVault(w)
  <2>1. PICK w \in Vault : LoadVault(w)
    BY <1>4
  <2>2. TypeOK /\ w \notin served /\ acked' = acked
    BY <2>1 DEF IndInv, ProcessInv, LoadVault, history
  <2>3. CASE LoadLive(w)
    BY <2>2, <2>3 DEF LoadLive, IndInv, AckInv, AckedKept, LogStep
  <2>4. CASE LoadEnded(w)
    BY <2>2, <2>4, RemovedLog DEF LoadEnded, LogStep
  <2>5. CASE LoadRefused(w) \/ LoadSkipped(w)
    BY <2>2, <2>5 DEF LoadRefused, LoadSkipped, LogStep
  <2>6. QED
    BY <2>1, <2>3, <2>4, <2>5 DEF LoadVault
<1>5. CASE \E w \in Vault : DropVaultDir(w)
  <2>1. served = {} /\ served' = {} /\ acked' = acked
    BY <1>5 DEF DropVaultDir, IndInv, ProcessInv, Known, memory
  <2>2. QED
    BY <2>1 DEF LogStep
<1>6. QED
  BY <1>1, <1>2, <1>3, <1>4, <1>5

(* Whatever fails, the log of every vault is a store as EntrySet describes *)
(* one, and LogStore implements it (LogImplements): it is never opened     *)
(* with less than was acknowledged, also not by a REGISTER that takes a    *)
(* vault skipped at the start for new, and is not deleted under a server   *)
(* that has it open.                                                       *)
THEOREM LogsAreStores == Spec => LogsFollowContract
<1>1. IndInv /\ [Next]_vars => [\A v \in Vault : [Log(v)!Next]_(Log(v)!vars)]_vars
  <2>1. SUFFICES ASSUME IndInv, Next, NEW v \in Vault PROVE [Log(v)!Next]_(Log(v)!vars)
    OBVIOUS
  <2>2. TypeOK'
    BY <2>1, TypeStep DEF IndInv
  <2>3. LogStep(v)
    BY <2>1, HandlerLogStep, ProcessLogStep DEF Next
  <2>4. QED
    BY <2>2, <2>3, StepInContract
<1>2. QED
  BY <1>1, Invariance, PTL DEF Spec, LogsFollowContract
=============================================================================
