----------------------------- MODULE Sync_proofs -----------------------------
(***************************************************************************)
(* Proofs about Sync, for any clients, entries, window, page size, rounds, *)
(* keys, beliefs and number of faults.                                     *)
(***************************************************************************)
EXTENDS Sync, SequenceTheorems, FiniteSetTheorems, WellFoundedInduction, TLAPS

-----------------------------------------------------------------------------
(* Pages.                                                                  *)

(* Any nonempty set of naturals has a least element.                       *)
LEMMA LeastNat ==
    ASSUME NEW B, B \subseteq Nat, B # {}
    PROVE  \E n \in B : \A m \in B : ~(m < n)
<1>1. PICK n \in B : \A m \in B : <<m, n>> \notin OpToRel(<, Nat)
  BY NatLessThanWellFounded, WFMin
<1>2. QED
  BY <1>1 DEF OpToRel

(* The last entry of a page is one of it, and none of it is later.         *)
LEMMA MaxFacts ==
    ASSUME NEW P \in SUBSET Entry, P # {}
    PROVE  Max(P) \in P /\ \A e \in P : e <= Max(P)
<1>1. P \subseteq Nat /\ \A e \in P : e <= MaxEntry
  BY SyncConstants DEF Entry
<1> DEFINE B == {n \in Nat : MaxEntry - n \in P}
<1>2. B # {} /\ B \subseteq Nat
  <2>1. PICK e \in P : TRUE
    OBVIOUS
  <2>2. MaxEntry - e \in Nat /\ MaxEntry - (MaxEntry - e) = e
    BY <1>1, SyncConstants
  <2>3. MaxEntry - e \in B
    BY <2>1, <2>2
  <2>4. QED
    BY <2>3
<1>3. PICK n \in B : \A m \in B : ~(m < n)
  <2> HIDE DEF B
  <2>1. QED
    BY <1>2, LeastNat
<1>4. MaxEntry - n \in P
  OBVIOUS
<1>5. ASSUME NEW e \in P PROVE MaxEntry - n >= e
  <2>1. MaxEntry - e \in Nat /\ MaxEntry - (MaxEntry - e) = e
    BY <1>1, SyncConstants
  <2>2. MaxEntry - e \in B
    BY <2>1
  <2>3. ~(MaxEntry - e < n)
    BY <1>3, <2>2
  <2>4. QED
    BY <1>1, <2>1, <2>3, SyncConstants
<1>6. \E x \in P : \A y \in P : x >= y
  BY <1>4, <1>5
<1>7. Max(P) \in P /\ \A y \in P : Max(P) >= y
  BY <1>6 DEF Max
<1>8. QED
  BY <1>1, <1>7

(* A page of S after cur is a prefix of what S has after cur, and is empty *)
(* only if S has nothing after cur.                                        *)
LEMMA PageFacts ==
    ASSUME NEW S \in SUBSET Entry, NEW cur \in 0..MaxEntry
    PROVE  /\ Page(S, cur) \in SUBSET Entry /\ Page(S, cur) \subseteq S
           /\ \A e \in Page(S, cur) : e > cur
           /\ Page(S, cur) = {} => \A e \in S : e <= cur
           /\ \A e \in S : \A f \in Page(S, cur) : cur < e /\ e <= f => e \in Page(S, cur)
<1> DEFINE Gap(e) == {d \in S : cur < d /\ d < e}
<1>1. \A e \in S : e \in Nat
  BY SyncConstants DEF Entry
<1>2. cur \in Nat
  BY SyncConstants
<1>3. Page(S, cur) = {e \in S : e > cur /\ Cardinality(Gap(e)) < PageSize}
  BY DEF Page
<1>4. \A e \in S : IsFiniteSet(Gap(e))
  <2>1. IsFiniteSet(1..MaxEntry)
    BY FS_Interval, SyncConstants
  <2>2. \A e \in S : Gap(e) \in SUBSET (1..MaxEntry)
    BY DEF Entry
  <2>3. QED
    BY <2>1, <2>2, FS_Subset
<1>5. ASSUME NEW e \in S, NEW f \in Page(S, cur), cur < e, e <= f
      PROVE  e \in Page(S, cur)
  <2>1. f \in S /\ Cardinality(Gap(f)) < PageSize
    BY <1>3
  <2>2. Gap(e) \in SUBSET Gap(f)
    BY <1>1, <1>2, <1>5, <2>1
  <2> HIDE DEF Gap
  <2>3. Cardinality(Gap(e)) <= Cardinality(Gap(f))
    BY <1>4, <2>1, <2>2, FS_Subset
  <2>4. Cardinality(Gap(e)) \in Nat /\ Cardinality(Gap(f)) \in Nat
    BY <1>4, <2>1, FS_CardinalityType
  <2>5. Cardinality(Gap(e)) < PageSize
    BY <2>1, <2>3, <2>4, SyncConstants
  <2>6. QED
    BY <1>1, <1>2, <1>3, <1>5, <2>5
<1>6. ASSUME Page(S, cur) = {}, NEW e \in S, ~(e <= cur)
      PROVE  FALSE
  <2> DEFINE B == {d \in S : d > cur}
  <2>1. B \subseteq Nat /\ B # {}
    BY <1>1, <1>2, <1>6
  <2>2. PICK d \in B : \A c \in B : ~(c < d)
    <3> HIDE DEF B
    <3>1. QED
      BY <2>1, LeastNat
  <2>3. d \in S /\ d > cur
    OBVIOUS
  <2>4. Gap(d) = {}
    BY <1>1, <1>2, <2>2
  <2>5. Cardinality(Gap(d)) = 0
    BY <2>4, FS_EmptySet
  <2>6. d \in Page(S, cur)
    BY <1>3, <2>3, <2>5, SyncConstants
  <2>7. QED
    BY <1>6, <2>6
<1>7. QED
  BY <1>3, <1>5, <1>6

-----------------------------------------------------------------------------
(* The inductive invariant.                                                *)

StageNames == {"idle", "register", "begin", "fast", "probe", "pull", "reprobe", "push", "drop"}
StatusNames == {"OK", "DIFFER", "UNKNOWN_VAULT", "BAD_AUTH", "BAD_REQUEST"}

RunState ==
    [stage : StageNames, round : 0..(MaxRounds - 1), anchor : 0..MaxEntry, walk : SUBSET Entry,
     taken : Seq(Entry), todo : Seq(Entry)]

NetState ==
    [st : {"none"}] \cup [st : {"sent"}, msg : Message]
    \cup [st : {"answered"}, msg : Message, status : StatusNames, page : SUBSET Entry]

(* The types of the variables, with all of a run and of a request.         *)
Types ==
    /\ srv \in {"none", "live", "ended"}
    /\ srvset \in SUBSET Entry
    /\ store \in [Client -> SUBSET Entry]
    /\ putting \in [Client -> SUBSET Entry]
    /\ recent \in [Client -> Seq(Entry)]
    /\ lastTs \in [Client -> 0..MaxEntry]
    /\ reg \in [Client -> BOOLEAN] /\ ever \in [Client -> BOOLEAN] /\ ended \in [Client -> BOOLEAN]
    /\ run \in [Client -> RunState]
    /\ net \in [Client -> NetState]
    /\ stray \subseteq Message
    /\ fresh \in [Client -> SUBSET Entry]
    /\ churn \subseteq Client

(* The request a stage waits on.                                           *)
OpOf(stage) ==
    CASE stage = "register" -> "register"
      [] stage \in {"fast", "push"} -> "push"
      [] stage \in {"probe", "reprobe"} -> "probe"
      [] stage = "pull" -> "pull"
      [] OTHER -> "drop"

Got(c, s) == net[c].st = "answered" /\ net[c].status = s

(* Stage and request agree; outside a Sync nothing is taken; no batch of a *)
(* push walk is empty.                                                     *)
StageFits(c) ==
    /\ run[c].stage \in {"idle", "begin"} <=> net[c].st = "none"
    /\ net[c].st # "none" => net[c].msg.op = OpOf(run[c].stage)
    /\ run[c].stage \in {"idle", "drop"} => run[c].taken = <<>>
    /\ run[c].stage \in {"idle", "drop"} => c \notin churn
    /\ run[c].stage = "push" => net[c].msg.es # {}

(* What a client wrote and the server has not had is in recent or in what  *)
(* its Sync took; a PROBE covers what was taken, so one answered OK leaves *)
(* only recent.                                                            *)
TakenFits(c) ==
    /\ ToSet(recent[c]) \subseteq store[c]
    /\ ToSet(run[c].taken) \subseteq store[c]
    /\ putting[c] \subseteq store[c]
    /\ \A d, e \in putting[c] : d = e
    /\ fresh[c] \subseteq ToSet(recent[c]) \cup ToSet(run[c].taken)
    /\ run[c].stage \in {"probe", "reprobe"} => ToSet(run[c].taken) \subseteq net[c].msg.es
    /\ run[c].stage \in {"probe", "reprobe"} /\ Got(c, "OK") => fresh[c] \subseteq ToSet(recent[c])

(* A client that registered an ephemeral vault believes it registered for  *)
(* as long as it runs.                                                     *)
EphFits(c) ==
    Ephemeral /\ ever[c] => reg[c] /\ (net[c].st # "none" => net[c].msg.op # "register")

(* The server keeps the set a walk began with until it loses the vault; a  *)
(* client holds the walk up to its cursor, and a page it is about to take  *)
(* leaves out nothing of the walk up to the page's end.                    *)
WalkFits(c) ==
    /\ srv # "ended" => run[c].walk \subseteq srvset
    /\ run[c].stage = "pull" =>
          /\ \A e \in run[c].walk : run[c].anchor < e /\ e <= net[c].msg.cur => e \in store[c]
          /\ Got(c, "OK") =>
                \A e \in run[c].walk : e > net[c].msg.cur =>
                    net[c].page # {} /\ (e <= Max(net[c].page) => e \in net[c].page)
    /\ run[c].stage = "reprobe" => \A e \in run[c].walk : run[c].anchor < e => e \in store[c]

(* A Sync nobody disturbs: past its first PROBE the vault is registered;   *)
(* its second round pulls everything from the start, then pushes the rest  *)
(* page by page; its third finds the sets equal, or the vault ended.       *)
CalmFits(c) ==
    /\ \/ run[c].stage \in {"pull", "reprobe", "push"}
       \/ run[c].stage = "probe" /\ (run[c].round >= 1 \/ Got(c, "DIFFER"))
       \/ run[c].stage = "register" /\ Got(c, "OK")
       => srv # "none"
    /\ run[c].round >= 1 =>
          /\ run[c].stage \in {"register", "probe", "pull", "reprobe", "push"}
          /\ Got(c, "UNKNOWN_VAULT") => srv = "ended"
          /\ run[c].stage = "pull" => run[c].anchor = 0 /\ run[c].walk = srvset
          /\ run[c].stage = "reprobe" => run[c].anchor = 0 /\ srvset \subseteq store[c]
          /\ run[c].stage = "push" =>
                /\ srvset \subseteq store[c]
                /\ net[c].msg.es = Page(store[c], net[c].msg.cur) /\ net[c].msg.es # {}
                /\ \A e \in store[c] : e <= net[c].msg.cur => e \in srvset
                /\ Got(c, "OK") => net[c].msg.es \subseteq srvset
    /\ run[c].round >= 2 =>
          /\ run[c].stage \in {"register", "probe"}
          /\ srv = "ended" \/ (srv = "live" /\ store[c] = srvset)
          /\ run[c].stage = "probe" => net[c].msg.es = store[c] /\ ~Got(c, "DIFFER")

ChurnFits(c) == Track /\ c \notin churn => CalmFits(c)

Fits(c) == StageFits(c) /\ TakenFits(c) /\ EphFits(c) /\ WalkFits(c) /\ ChurnFits(c)

IndInv ==
    /\ Types
    /\ srv # "live" => srvset = {}
    /\ \A c \in Client : Fits(c)

(* A Syncing client is one that is neither idle nor in Drop; the set holds *)
(* every client of churn.                                                  *)
LEMMA SyncingFacts ==
    ASSUME IndInv
    PROVE  /\ \A c \in Client : c \in Syncing <=> run[c].stage \notin {"idle", "drop"}
           /\ churn \subseteq Syncing
BY DEF IndInv, Types, Fits, StageFits, Syncing

(* The forms a request takes.                                              *)
LEMMA NetForms ==
    ASSUME NEW n \in NetState
    PROVE  /\ n.st \in {"none", "sent", "answered"}
           /\ n.st # "none" => n.msg \in Message
           /\ n.st = "answered" => n.status \in StatusNames /\ n.page \in SUBSET Entry
BY DEF NetState

(* The requests and answers of the model have their types.                 *)
LEMMA NetMade ==
    /\ Quiet \in NetState /\ Quiet.st = "none"
    /\ \A m \in Message : Sent(m) \in NetState /\ Sent(m).st = "sent" /\ Sent(m).msg = m
    /\ \A m \in Message, s \in StatusNames, p \in SUBSET Entry :
          LET a == Answered(m, s, p)
          IN  a \in NetState /\ a.st = "answered" /\ a.msg = m /\ a.status = s /\ a.page = p
BY DEF NetState, Quiet, Sent, Answered

(* The messages of the model have their types.                             *)
LEMMA MsgMade ==
    ASSUME NEW op \in {"register", "probe", "pull", "push", "drop"}, NEW es \in SUBSET Entry,
           NEW cur \in 0..MaxEntry
    PROVE  /\ Msg(op, es, cur) \in Message
           /\ Msg(op, es, cur).op = op /\ Msg(op, es, cur).es = es /\ Msg(op, es, cur).cur = cur
BY DEF Message, Msg

(* The run outside a Sync.                                                 *)
LEMMA IdleMade ==
    /\ Idle \in RunState /\ Idle.stage = "idle" /\ Idle.round = 0 /\ Idle.anchor = 0
    /\ Idle.walk = {} /\ Idle.taken = <<>>
BY SyncConstants DEF Idle, RunState, StageNames

(* The fields of a run.                                                    *)
LEMMA RunForms ==
    ASSUME NEW r \in RunState
    PROVE  /\ r.stage \in StageNames /\ r.round \in 0..(MaxRounds - 1) /\ r.anchor \in 0..MaxEntry
           /\ r.walk \in SUBSET Entry /\ r.taken \in Seq(Entry) /\ r.todo \in Seq(Entry)
BY DEF RunState

(* A message's fields.                                                     *)
LEMMA MsgForms ==
    ASSUME NEW m \in Message
    PROVE  /\ m.op \in {"register", "probe", "pull", "push", "drop"}
           /\ m.es \in SUBSET Entry /\ m.cur \in 0..MaxEntry
BY DEF Message

(* What a sequence of entries holds, when it is joined or extended.        *)
LEMMA SetFacts ==
    ASSUME NEW s \in Seq(Entry), NEW t \in Seq(Entry), NEW e \in Entry
    PROVE  /\ ToSet(s) \in SUBSET Entry
           /\ ToSet(s \o t) = ToSet(s) \cup ToSet(t)
           /\ ToSet(Append(s, e)) = ToSet(s) \cup {e}
           /\ ToSet(<<>>) = {}
<1>1. ToSet(s \o t) = ToSet(s) \cup ToSet(t)
  <2>1. ASSUME NEW x \in ToSet(s \o t) PROVE x \in ToSet(s) \cup ToSet(t)
    BY DEF ToSet
  <2>2. ASSUME NEW x \in ToSet(s) PROVE x \in ToSet(s \o t)
    BY DEF ToSet
  <2>3. ASSUME NEW x \in ToSet(t) PROVE x \in ToSet(s \o t)
    <3>1. PICK i \in DOMAIN t : t[i] = x
      BY DEF ToSet
    <3>2. Len(s) + i \in DOMAIN (s \o t) /\ (s \o t)[Len(s) + i] = x
      BY <3>1
    <3>3. QED
      BY <3>2 DEF ToSet
  <2>4. QED
    BY <2>1, <2>2, <2>3
<1>2. ToSet(Append(s, e)) = ToSet(s) \cup {e}
  <2>1. ASSUME NEW x \in ToSet(Append(s, e)) PROVE x \in ToSet(s) \cup {e}
    BY DEF ToSet
  <2>2. ASSUME NEW x \in ToSet(s) PROVE x \in ToSet(Append(s, e))
    BY DEF ToSet
  <2>3. e \in ToSet(Append(s, e))
    <3>1. Len(s) + 1 \in DOMAIN Append(s, e) /\ Append(s, e)[Len(s) + 1] = e
      OBVIOUS
    <3>2. QED
      BY <3>1 DEF ToSet
  <2>4. QED
    BY <2>1, <2>2, <2>3
<1>3. ToSet(<<>>) = {} /\ ToSet(s) \in SUBSET Entry
  BY DEF ToSet
<1>4. QED
  BY <1>1, <1>2, <1>3

-----------------------------------------------------------------------------
(* The shapes of a step.                                                   *)

(* A step of client c leaves the server and the other clients alone.       *)
Alone(c) ==
    /\ UNCHANGED server
    /\ \A d \in Client \ {c} :
          /\ run'[d] = run[d] /\ net'[d] = net[d] /\ store'[d] = store[d] /\ putting'[d] = putting[d]
          /\ recent'[d] = recent[d] /\ reg'[d] = reg[d] /\ ever'[d] = ever[d] /\ fresh'[d] = fresh[d]
          /\ d \in churn' <=> d \in churn

(* Such a step keeps the invariant if it keeps the types and c's part.     *)
LEMMA AloneKeeps ==
    ASSUME IndInv, NEW c \in Client, Alone(c), Types', Fits(c)'
    PROVE  IndInv'
<1>1. ASSUME NEW d \in Client, d # c
      PROVE  Fits(d)'
  <2>1. Fits(d)
    BY <1>1 DEF IndInv
  <2>2. /\ run'[d] = run[d] /\ net'[d] = net[d] /\ store'[d] = store[d] /\ putting'[d] = putting[d]
        /\ recent'[d] = recent[d] /\ reg'[d] = reg[d] /\ ever'[d] = ever[d] /\ fresh'[d] = fresh[d]
        /\ d \in churn' <=> d \in churn
        /\ srv' = srv /\ srvset' = srvset
    BY <1>1 DEF Alone, server
  <2>3. StageFits(d)'
    BY <2>1, <2>2 DEF Fits, StageFits
  <2>4. TakenFits(d)'
    BY <2>1, <2>2 DEF Fits, TakenFits, Got
  <2>5. EphFits(d)'
    BY <2>1, <2>2 DEF Fits, EphFits
  <2>6. WalkFits(d)'
    BY <2>1, <2>2 DEF Fits, WalkFits, Got
  <2>7. ChurnFits(d)'
    BY <2>1, <2>2 DEF Fits, ChurnFits, CalmFits, Got
  <2>8. QED
    BY <2>3, <2>4, <2>5, <2>6, <2>7 DEF Fits
<1>2. (srv # "live" => srvset = {})'
  BY DEF IndInv, Alone, server
<1>3. QED
  BY <1>1, <1>2 DEF IndInv

(* What a client's next request leaves as it is.                           *)
Sends(c, r, m) ==
    /\ r \in RunState /\ m \in Message
    /\ r.taken = run[c].taken
    /\ r.stage \notin {"idle", "begin", "drop"}
    /\ m.op = OpOf(r.stage)
    /\ r.stage \in {"probe", "reprobe"} => m.es = store[c]
    /\ r.stage = "push" => m.es # {}
    /\ Ask(c, r, m)
    /\ UNCHANGED <<server, putting, lastTs, ended, stray, fresh>>

(* A client sends its next request: the rest is what the request promises. *)
LEMMA SendsKeeps ==
    ASSUME IndInv, NEW c \in Client, NEW r, NEW m, Sends(c, r, m),
           NEW S \in SUBSET Entry, store[c] \subseteq S, store' = [store EXCEPT ![c] = S],
           NEW b \in BOOLEAN, NEW v \in BOOLEAN,
           reg' = [reg EXCEPT ![c] = b], ever' = [ever EXCEPT ![c] = v],
           EphFits(c)', WalkFits(c)', ChurnFits(c)'
    PROVE  IndInv'
<1>1. Types /\ Fits(c)
  BY DEF IndInv
<1>2. /\ run' = [run EXCEPT ![c] = r] /\ net' = [net EXCEPT ![c] = Sent(m)]
      /\ recent' = recent /\ churn' = churn /\ r \in RunState /\ m \in Message
      /\ srv' = srv /\ srvset' = srvset /\ putting' = putting /\ lastTs' = lastTs
      /\ ended' = ended /\ stray' = stray /\ fresh' = fresh
  BY DEF Sends, Ask, server
<1>3. Types'
  BY <1>1, <1>2, NetMade DEF Types
<1>4. Alone(c)
  BY <1>1, <1>2 DEF Alone, Types, server
<1>5. /\ run'[c] = r /\ net'[c] = Sent(m) /\ store'[c] = S
      /\ Sent(m).st = "sent" /\ Sent(m).msg = m
  BY <1>1, <1>2, NetMade DEF Types
<1>6. StageFits(c)'
  BY <1>1, <1>2, <1>5 DEF Sends, StageFits, Fits
<1>7. TakenFits(c)'
  BY <1>1, <1>2, <1>5 DEF Sends, TakenFits, Fits, Got
<1>8. QED
  BY <1>3, <1>4, <1>6, <1>7, AloneKeeps DEF Fits

(* A Sync or Drop returns: what it took is back in recent, or the server   *)
(* has it.                                                                 *)
LEMMA FinishKeeps ==
    ASSUME IndInv, NEW c \in Client, NEW what, Finish(c, what),
           what = "ok" => fresh[c] \subseteq ToSet(recent[c]),
           UNCHANGED <<server, store, putting, lastTs, ended, fresh>>, stray' \subseteq Message,
           NEW b \in BOOLEAN, reg' = [reg EXCEPT ![c] = b], ever' = ever, Ephemeral /\ ever[c] => b
    PROVE  IndInv'
<1>1. Types /\ Fits(c)
  BY DEF IndInv
<1> DEFINE q == IF what = "ok" THEN recent[c] ELSE run[c].taken \o recent[c]
<1>2. /\ run' = [run EXCEPT ![c] = Idle] /\ net' = [net EXCEPT ![c] = Quiet]
      /\ churn' = churn \ {c}
      /\ recent' = IF what = "ok" THEN recent ELSE [recent EXCEPT ![c] = run[c].taken \o @]
      /\ srv' = srv /\ srvset' = srvset /\ store' = store /\ putting' = putting
      /\ lastTs' = lastTs /\ ended' = ended /\ fresh' = fresh
  BY DEF Finish, server
<1>3. recent[c] \in Seq(Entry) /\ run[c].taken \in Seq(Entry) /\ q \in Seq(Entry)
  <2>1. recent[c] \in Seq(Entry) /\ run[c].taken \in Seq(Entry)
    BY <1>1, RunForms DEF Types
  <2>2. QED
    BY <2>1
<1>4. recent' = [recent EXCEPT ![c] = q]
  BY <1>1, <1>2 DEF Types
<1>5. ToSet(q) \subseteq store[c] /\ fresh[c] \subseteq ToSet(q)
  <2>1. ToSet(q) = IF what = "ok" THEN ToSet(recent[c]) ELSE ToSet(run[c].taken) \cup ToSet(recent[c])
    <3>1. CASE Entry = {}
      <4>1. recent[c] = <<>> /\ run[c].taken = <<>>
        BY <1>3, <3>1
      <4>2. QED
        BY <4>1 DEF ToSet
    <3>2. CASE Entry # {}
      BY <1>3, <3>2, SetFacts
    <3>3. QED
      BY <3>1, <3>2
  <2>2. QED
    BY <1>1, <2>1 DEF Fits, TakenFits
<1> HIDE DEF q
<1>6. Types'
  BY <1>1, <1>2, <1>3, <1>4, NetMade, IdleMade DEF Types
<1>7. Alone(c)
  BY <1>1, <1>2, <1>4 DEF Alone, Types, server
<1>8. /\ run'[c] = Idle /\ net'[c] = Quiet /\ recent'[c] = q /\ c \notin churn' /\ Quiet.st = "none"
      /\ reg'[c] = b
  BY <1>1, <1>2, <1>4, NetMade DEF Types
<1>9. StageFits(c)'
  BY <1>8, IdleMade DEF StageFits
<1>10. TakenFits(c)'
  <2>1. ToSet(Idle.taken) = {}
    BY IdleMade DEF ToSet
  <2>2. QED
    BY <1>1, <1>2, <1>5, <1>8, <2>1, IdleMade DEF Fits, TakenFits, Got
<1>11. EphFits(c)'
  BY <1>8 DEF EphFits
<1>12. WalkFits(c)'
  BY <1>8, IdleMade DEF WalkFits
<1>13. ChurnFits(c)'
  BY <1>8, IdleMade DEF ChurnFits, CalmFits
<1>14. QED
  BY <1>6, <1>7, <1>9, <1>10, <1>11, <1>12, <1>13, AloneKeeps DEF Fits

-----------------------------------------------------------------------------
(* Rounds.                                                                 *)

(* A request that opens a round r, or goes on with its fast pushes.        *)
Opens(c, r, q, m) ==
    /\ Sends(c, q, m)
    /\ q.round = r.round /\ q.anchor = r.anchor /\ q.walk = r.walk
    /\ q.stage \in {"register", "fast", "probe"}

(* The frame of the steps that send one.                                   *)
Frame == UNCHANGED <<server, putting, lastTs, ended, stray, fresh>>

(* The PROBE of a round.                                                   *)
LEMMA ProbeOpens ==
    ASSUME IndInv, NEW c \in Client, NEW r \in RunState, r.taken = run[c].taken,
           NEW stage \in {"probe", "reprobe"}, Probe(c, r, stage), Frame
    PROVE  /\ Sends(c, [r EXCEPT !.stage = stage], Msg("probe", store[c], 0))
           /\ [r EXCEPT !.stage = stage].stage = stage
           /\ [r EXCEPT !.stage = stage].round = r.round
           /\ [r EXCEPT !.stage = stage].anchor = r.anchor
           /\ [r EXCEPT !.stage = stage].walk = r.walk
<1> DEFINE q == [r EXCEPT !.stage = stage]
<1>1. /\ q \in RunState /\ q.stage = stage /\ q.round = r.round /\ q.anchor = r.anchor
      /\ q.walk = r.walk /\ q.taken = r.taken
  BY DEF RunState, StageNames
<1>2. store[c] \in SUBSET Entry /\ 0 \in 0..MaxEntry
  BY SyncConstants DEF IndInv, Types
<1>3. /\ Msg("probe", store[c], 0) \in Message
      /\ Msg("probe", store[c], 0).op = "probe" /\ Msg("probe", store[c], 0).es = store[c]
  BY <1>2, MsgMade
<1> HIDE DEF q
<1>4. Ask(c, q, Msg("probe", store[c], 0))
  BY DEF Probe, q
<1>5. Sends(c, q, Msg("probe", store[c], 0))
  BY <1>1, <1>3, <1>4 DEF Sends, OpOf, Frame
<1>6. QED
  BY <1>1, <1>5 DEF q

(* A batch of the fast push, or the PROBE after the last one.              *)
LEMMA PushFastOpens ==
    ASSUME IndInv, NEW c \in Client, NEW r \in RunState, r.taken = run[c].taken,
           PushFast(c, r), Frame
    PROVE  \E q, m : Opens(c, r, q, m) /\ q.stage # "register"
<1>1. CASE r.todo = <<>>
  <2>1. Probe(c, r, "probe")
    BY <1>1 DEF PushFast
  <2>2. QED
    BY <2>1, ProbeOpens DEF Opens
<1>2. CASE r.todo # <<>>
  <2> DEFINE n == IF Len(r.todo) < PageSize THEN Len(r.todo) ELSE PageSize
             q == [r EXCEPT !.stage = "fast", !.todo = SubSeq(@, n + 1, Len(@))]
             es == ToSet(SubSeq(r.todo, 1, n))
  <2>1. Ask(c, q, Msg("push", es, 0))
    BY <1>2 DEF PushFast
  <2>2. r.todo \in Seq(Entry)
    BY RunForms
  <2>3. n \in Nat /\ n <= Len(r.todo)
    BY <2>2, SyncConstants
  <2>4. SubSeq(r.todo, 1, n) \in Seq(Entry) /\ SubSeq(r.todo, n + 1, Len(r.todo)) \in Seq(Entry)
    <3> HIDE DEF n
    <3>1. QED
      BY <2>2, <2>3
  <2> HIDE DEF n
  <2>5. /\ q \in RunState /\ q.stage = "fast" /\ q.round = r.round /\ q.anchor = r.anchor
        /\ q.walk = r.walk /\ q.taken = r.taken
    BY <2>4 DEF RunState, StageNames
  <2>6. es \in SUBSET Entry /\ 0 \in 0..MaxEntry
    BY <2>4, SyncConstants DEF ToSet
  <2> HIDE DEF q, es
  <2>7. Msg("push", es, 0) \in Message /\ Msg("push", es, 0).op = "push"
    BY <2>6, MsgMade
  <2>8. Sends(c, q, Msg("push", es, 0))
    BY <2>1, <2>5, <2>7 DEF Sends, OpOf, Frame
  <2>9. QED
    BY <2>5, <2>8 DEF Opens
<1>3. QED
  BY <1>1, <1>2

(* A round after its REGISTER: only the first pushes what was taken.       *)
LEMMA AfterRegisterOpens ==
    ASSUME IndInv, NEW c \in Client, NEW r \in RunState, r.taken = run[c].taken,
           AfterRegister(c, r), Frame
    PROVE  \E q, m : Opens(c, r, q, m) /\ q.stage # "register" /\ (r.round # 0 => q.stage = "probe")
<1>1. CASE r.round = 0
  <2> DEFINE s == [r EXCEPT !.todo = r.taken]
  <2>1. PushFast(c, s)
    BY <1>1 DEF AfterRegister
  <2>2. /\ s \in RunState /\ s.round = r.round /\ s.anchor = r.anchor /\ s.walk = r.walk
        /\ s.taken = r.taken
    BY DEF RunState
  <2> HIDE DEF s
  <2>3. PICK q, m : Opens(c, s, q, m) /\ q.stage # "register"
    BY <2>1, <2>2, PushFastOpens
  <2>4. QED
    BY <1>1, <2>2, <2>3 DEF Opens
<1>2. CASE r.round # 0
  <2>1. Probe(c, r, "probe")
    BY <1>2 DEF AfterRegister
  <2>2. QED
    BY <2>1, ProbeOpens DEF Opens
<1>3. QED
  BY <1>1, <1>2

(* A round from its start: a keyed client that is not registered registers *)
(* first.                                                                  *)
LEMMA StartRoundOpens ==
    ASSUME IndInv, NEW c \in Client, NEW r \in RunState, r.taken = run[c].taken,
           NEW registered \in BOOLEAN, StartRound(c, r, registered), Frame
    PROVE  \E q, m :
              /\ Opens(c, r, q, m)
              /\ q.stage = "register" <=> ~registered /\ c \in Keyed
              /\ r.round # 0 => q.stage # "fast"
<1>1. CASE ~registered /\ c \in Keyed
  <2> DEFINE q == [r EXCEPT !.stage = "register"]
  <2>1. Ask(c, q, Msg("register", {}, 0))
    BY <1>1 DEF StartRound
  <2>2. /\ q \in RunState /\ q.stage = "register" /\ q.round = r.round /\ q.anchor = r.anchor
        /\ q.walk = r.walk /\ q.taken = r.taken
    BY DEF RunState, StageNames
  <2>3. {} \in SUBSET Entry /\ 0 \in 0..MaxEntry
    BY SyncConstants
  <2>4. Msg("register", {}, 0) \in Message /\ Msg("register", {}, 0).op = "register"
    BY <2>3, MsgMade
  <2> HIDE DEF q
  <2>5. Sends(c, q, Msg("register", {}, 0))
    BY <2>1, <2>2, <2>4 DEF Sends, OpOf, Frame
  <2>6. QED
    BY <1>1, <2>2, <2>5 DEF Opens
<1>2. CASE ~(~registered /\ c \in Keyed)
  <2>1. AfterRegister(c, r)
    BY <1>2 DEF StartRound
  <2>2. QED
    BY <1>2, <2>1, AfterRegisterOpens
<1>3. QED
  BY <1>1, <1>2

(* Opening a round keeps the invariant: a client that registered an        *)
(* ephemeral vault does not register, and a Sync nobody disturbed is in    *)
(* its third round only with equal sets or an ended vault.                 *)
LEMMA OpensKeeps ==
    ASSUME IndInv, NEW c \in Client, NEW r \in RunState, NEW q, NEW m, Opens(c, r, q, m),
           UNCHANGED store,
           NEW b \in BOOLEAN, NEW v \in BOOLEAN,
           reg' = [reg EXCEPT ![c] = b], ever' = [ever EXCEPT ![c] = v],
           Ephemeral /\ v => b /\ q.stage # "register",
           srv # "ended" => r.walk \subseteq srvset,
           r.round # 0 /\ Track /\ c \notin churn =>
              /\ q.stage # "fast"
              /\ q.stage = "probe" => srv # "none"
              /\ r.round # 1 => srv = "ended" \/ (srv = "live" /\ store[c] = srvset)
    PROVE  IndInv'
<1>1. Types /\ Fits(c) /\ store[c] \in SUBSET Entry
  BY DEF IndInv, Types
<1>2. /\ run' = [run EXCEPT ![c] = q] /\ net' = [net EXCEPT ![c] = Sent(m)]
      /\ churn' = churn /\ q \in RunState /\ m \in Message /\ srv' = srv /\ srvset' = srvset
      /\ q.round = r.round /\ q.walk = r.walk
      /\ q.stage \in {"register", "fast", "probe"} /\ m.op = OpOf(q.stage)
      /\ q.stage = "probe" => m.es = store[c]
  BY DEF Opens, Sends, Ask, server
<1>3. /\ run'[c] = q /\ net'[c] = Sent(m) /\ store'[c] = store[c] /\ reg'[c] = b /\ ever'[c] = v
      /\ Sent(m).st = "sent" /\ Sent(m).msg = m
      /\ net'[c].st = "sent"
  BY <1>1, <1>2, NetMade DEF Types
<1>4. EphFits(c)'
  BY <1>2, <1>3 DEF EphFits, OpOf
<1>5. WalkFits(c)'
  BY <1>2, <1>3 DEF WalkFits
<1>6. ~Got(c, "OK")' /\ ~Got(c, "DIFFER")' /\ ~Got(c, "UNKNOWN_VAULT")'
  BY <1>3 DEF Got
<1>7. r.round \in Nat
  BY RunForms, SyncConstants
<1>8. ASSUME Track, c \notin churn
      PROVE  CalmFits(c)'
  <2>1. r.round >= 1 <=> r.round # 0
    BY <1>7
  <2>2. r.round >= 2 <=> r.round # 0 /\ r.round # 1
    BY <1>7
  <2>3. QED
    BY <1>2, <1>3, <1>6, <1>8, <2>1, <2>2 DEF CalmFits
<1>9. ChurnFits(c)'
  BY <1>2, <1>8 DEF ChurnFits
<1>10. store' = [store EXCEPT ![c] = store[c]]
  BY <1>1 DEF Types
<1>11. QED
  BY <1>1, <1>4, <1>5, <1>9, <1>10, SendsKeeps DEF Opens

(* The next round, or ErrSyncStuck when there is none.                     *)
LEMMA NextRoundKeeps ==
    ASSUME IndInv, NEW c \in Client, NEW registered \in BOOLEAN, NextRound(c, registered), Frame,
           UNCHANGED <<store, ever>>, reg' = [reg EXCEPT ![c] = registered],
           Ephemeral /\ ever[c] => registered,
           Track /\ c \notin churn =>
              /\ srv # "none" \/ (~registered /\ c \in Keyed)
              /\ run[c].round >= 1 => srv = "ended" \/ (srv = "live" /\ store[c] = srvset)
    PROVE  IndInv'
<1>1. Types /\ run[c] \in RunState /\ ever[c] \in BOOLEAN /\ ever' = [ever EXCEPT ![c] = ever[c]]
  BY DEF IndInv, Types
<1>2. run[c].round \in 0..(MaxRounds - 1)
  BY <1>1, RunForms
<1>3. CASE run[c].round + 1 = MaxRounds
  <2>1. Finish(c, "stuck")
    BY <1>3 DEF NextRound
  <2>2. stray' \subseteq Message
    BY <1>1 DEF Types, Frame
  <2>3. UNCHANGED <<server, store, putting, lastTs, ended, fresh>> /\ ever' = ever
    BY DEF Frame
  <2>4. QED
    BY <2>1, <2>2, <2>3, FinishKeeps
<1>4. CASE run[c].round + 1 # MaxRounds
  <2> DEFINE r == [run[c] EXCEPT !.round = @ + 1, !.anchor = 0, !.walk = {}]
  <2>1. StartRound(c, r, registered)
    BY <1>4 DEF NextRound
  <2>2. run[c].round + 1 \in 0..(MaxRounds - 1) /\ 0 \in 0..MaxEntry
    BY <1>2, <1>4, SyncConstants
  <2>3. r \in RunState /\ r.round = run[c].round + 1 /\ r.walk = {} /\ r.taken = run[c].taken
    BY <1>1, <2>2 DEF RunState
  <2> HIDE DEF r
  <2>4. PICK q, m :
           /\ Opens(c, r, q, m)
           /\ q.stage = "register" <=> ~registered /\ c \in Keyed
           /\ r.round # 0 => q.stage # "fast"
    BY <2>1, <2>3, StartRoundOpens
  <2>5. r.round # 1 => run[c].round >= 1
    BY <1>2, <2>3, SyncConstants
  <2>6. q.stage = "probe" => ~(~registered /\ c \in Keyed)
    BY <2>4
  <2>7. Ephemeral /\ ever[c] => registered /\ q.stage # "register"
    BY <2>4
  <2>8. UNCHANGED store
    OBVIOUS
  <2>9. QED
    BY <1>1, <2>3, <2>4, <2>5, <2>6, <2>7, <2>8, OpensKeeps
<1>5. QED
  BY <1>3, <1>4

(* The next batch of a push walk after cur, or the next round: when the    *)
(* walk began with the server's set in the store, and what the store has   *)
(* up to cur is the server's, its end finds the sets equal.                *)
LEMMA PushWalkKeeps ==
    ASSUME IndInv, NEW c \in Client, NEW cur \in 0..MaxEntry, PushWalk(c, cur, reg[c]), Frame,
           UNCHANGED <<store, reg, ever>>,
           Track /\ c \notin churn =>
              /\ srv # "none"
              /\ run[c].round >= 1 =>
                    /\ run[c].round < 2
                    /\ srvset \subseteq store[c] /\ \A e \in store[c] : e <= cur => e \in srvset
    PROVE  IndInv'
<1>1. /\ Types /\ Fits(c) /\ run[c] \in RunState /\ ever[c] \in BOOLEAN /\ reg[c] \in BOOLEAN
      /\ ever' = [ever EXCEPT ![c] = ever[c]] /\ reg' = [reg EXCEPT ![c] = reg[c]]
      /\ store[c] \in SUBSET Entry /\ store' = [store EXCEPT ![c] = store[c]]
  BY DEF IndInv, Types
<1> DEFINE batch == Page(store[c], cur)
<1>2. batch \in SUBSET Entry /\ (batch = {} => \A e \in store[c] : e <= cur)
  BY <1>1, PageFacts
<1> HIDE DEF batch
<1>3. CASE batch = {}
  <2>1. NextRound(c, reg[c])
    BY <1>3 DEF PushWalk, batch
  <2>2. ASSUME Track, c \notin churn, run[c].round >= 1
        PROVE  srv = "ended" \/ (srv = "live" /\ store[c] = srvset)
    <3>1. store[c] = srvset
      BY <1>2, <1>3, <2>2
    <3>2. srv \in {"none", "live", "ended"}
      BY <1>1 DEF Types
    <3>3. QED
      BY <2>2, <3>1, <3>2
  <2>3. Ephemeral /\ ever[c] => reg[c]
    BY <1>1 DEF Fits, EphFits
  <2>4. UNCHANGED <<store, ever>>
    OBVIOUS
  <2>5. QED
    BY <1>1, <2>1, <2>2, <2>3, <2>4, NextRoundKeeps
<1>4. CASE batch # {}
  <2> DEFINE q == [run[c] EXCEPT !.stage = "push", !.anchor = 0, !.walk = {}]
             m == Msg("push", batch, cur)
  <2>1. Ask(c, q, m)
    BY <1>4 DEF PushWalk, batch
  <2>2. 0 \in 0..MaxEntry
    BY SyncConstants
  <2>3. /\ q \in RunState /\ q.stage = "push" /\ q.round = run[c].round /\ q.walk = {}
        /\ q.taken = run[c].taken
    BY <1>1, <2>2 DEF RunState, StageNames
  <2>4. m \in Message /\ m.op = "push" /\ m.es = batch /\ m.cur = cur
    BY <1>2, MsgMade
  <2> HIDE DEF q, m
  <2>5. Sends(c, q, m)
    BY <1>4, <2>1, <2>3, <2>4 DEF Sends, OpOf, Frame
  <2>6. /\ run'[c] = q /\ net'[c] = Sent(m) /\ store'[c] = store[c] /\ churn' = churn
        /\ Sent(m).st = "sent" /\ Sent(m).msg = m /\ net'[c].st = "sent"
        /\ reg'[c] = reg[c] /\ ever'[c] = ever[c] /\ srv' = srv /\ srvset' = srvset
    BY <1>1, <2>1, <2>4, NetMade DEF Types, Ask, Frame, server
  <2>7. EphFits(c)'
    BY <1>1, <2>4, <2>6 DEF Fits, EphFits
  <2>8. WalkFits(c)'
    BY <2>3, <2>6 DEF WalkFits
  <2>9. ~Got(c, "OK")' /\ ~Got(c, "DIFFER")' /\ ~Got(c, "UNKNOWN_VAULT")'
    BY <2>6 DEF Got
  <2>10. ChurnFits(c)'
    <3>1. run[c].round \in Nat
      BY <1>1, RunForms, SyncConstants
    <3>2. QED
      BY <1>4, <2>3, <2>4, <2>6, <2>9, <3>1 DEF ChurnFits, CalmFits, batch
  <2>11. QED
    BY <1>1, <2>5, <2>7, <2>8, <2>10, SendsKeeps
<1>5. QED
  BY <1>3, <1>4

-----------------------------------------------------------------------------
(* The steps of a client.                                                  *)

(* A Put adds to the store and disturbs the client's own Sync only.        *)
LEMMA PutKeeps ==
    ASSUME IndInv, NEW c \in Client, NEW e \in Entry, Put(c, e)
    PROVE  IndInv'
<1>1. Types /\ Fits(c)
  BY DEF IndInv
<1>2. /\ store' = [store EXCEPT ![c] = @ \cup {e}] /\ putting' = [putting EXCEPT ![c] = {e}]
      /\ lastTs' = [lastTs EXCEPT ![c] = e] /\ churn' = churn \cup Tracked({c} \cap Syncing)
      /\ srv' = srv /\ srvset' = srvset /\ recent' = recent /\ reg' = reg /\ ever' = ever
      /\ ended' = ended /\ run' = run /\ net' = net /\ stray' = stray /\ fresh' = fresh
      /\ putting[c] = {}
  BY DEF Put, server, belief
<1>3. Tracked({c} \cap Syncing) \subseteq {c} /\ (Track => Tracked({c} \cap Syncing) = {c} \cap Syncing)
  BY DEF Tracked
<1>4. e \in 0..MaxEntry
  BY SyncConstants DEF Entry
<1>5. Types'
  BY <1>1, <1>2, <1>3, <1>4 DEF Types
<1>6. Alone(c)
  BY <1>1, <1>2, <1>3 DEF Alone, Types, server
<1>7. store'[c] = store[c] \cup {e} /\ putting'[c] = {e}
  BY <1>1, <1>2 DEF Types
<1>8. StageFits(c)'
  BY <1>1, <1>2, <1>3, SyncingFacts DEF Fits, StageFits, Tracked
<1>9. TakenFits(c)'
  BY <1>1, <1>2, <1>7 DEF Fits, TakenFits, Got
<1>10. EphFits(c)'
  BY <1>1, <1>2 DEF Fits, EphFits
<1>11. WalkFits(c)'
  BY <1>1, <1>2, <1>7 DEF Fits, WalkFits, Got
<1>12. ChurnFits(c)'
  <2>1. SUFFICES ASSUME Track, c \notin churn'
                 PROVE  CalmFits(c)'
    BY DEF ChurnFits
  <2>2. c \notin churn /\ run[c].stage \in {"idle", "drop"}
    BY <1>2, <1>3, <2>1, SyncingFacts
  <2>3. run[c].round \in Nat /\ ~(run[c].round >= 1)
    BY <1>1, <2>1, <2>2, RunForms, SyncConstants DEF Fits, ChurnFits, CalmFits, Types
  <2>4. ~(run[c].round >= 2)
    BY <2>3
  <2>5. QED
    BY <1>2, <2>2, <2>3, <2>4 DEF CalmFits
<1>13. QED
  BY <1>5, <1>6, <1>8, <1>9, <1>10, <1>11, <1>12, AloneKeeps DEF Fits

(* The append to recent.                                                   *)
LEMMA RecordKeeps ==
    ASSUME IndInv, NEW c \in Client, Record(c)
    PROVE  IndInv'
<1>1. Types /\ Fits(c)
  BY DEF IndInv
<1>2. PICK e \in putting[c] : recent' = [recent EXCEPT ![c] = Append(@, e)]
  BY DEF Record
<1>3. /\ putting' = [putting EXCEPT ![c] = {}]
      /\ fresh' = [fresh EXCEPT ![c] = @ \cup Tracked(putting[c] \ srvset)]
      /\ srv' = srv /\ srvset' = srvset /\ store' = store /\ lastTs' = lastTs /\ reg' = reg
      /\ ever' = ever /\ ended' = ended /\ run' = run /\ net' = net /\ stray' = stray
      /\ churn' = churn
  BY DEF Record, server, belief
<1>4. e \in Entry /\ putting[c] = {e} /\ e \in store[c]
  BY <1>1, <1>2 DEF Types, Fits, TakenFits
<1>5. Tracked(putting[c] \ srvset) \subseteq {e}
  BY <1>4 DEF Tracked
<1>6. recent[c] \in Seq(Entry) /\ Append(recent[c], e) \in Seq(Entry)
  <2>1. recent[c] \in Seq(Entry)
    BY <1>1 DEF Types
  <2>2. QED
    BY <1>4, <2>1
<1>7. recent' = [recent EXCEPT ![c] = Append(recent[c], e)]
  BY <1>1, <1>2 DEF Types
<1>8. ToSet(Append(recent[c], e)) = ToSet(recent[c]) \cup {e}
  BY <1>4, <1>6, SetFacts
<1>9. Types'
  BY <1>1, <1>3, <1>4, <1>5, <1>6, <1>7 DEF Types
<1>10. Alone(c)
  BY <1>1, <1>3, <1>7 DEF Alone, Types, server
<1>11. /\ putting'[c] = {} /\ fresh'[c] = fresh[c] \cup Tracked(putting[c] \ srvset)
       /\ ToSet(recent'[c]) = ToSet(recent[c]) \cup {e}
  BY <1>1, <1>3, <1>7, <1>8 DEF Types
<1>12. StageFits(c)'
  BY <1>1, <1>3 DEF Fits, StageFits
<1>13. TakenFits(c)'
  BY <1>1, <1>3, <1>4, <1>5, <1>11 DEF Fits, TakenFits, Got
<1>14. EphFits(c)'
  BY <1>1, <1>3 DEF Fits, EphFits
<1>15. WalkFits(c)'
  BY <1>1, <1>3 DEF Fits, WalkFits, Got
<1>16. ChurnFits(c)'
  BY <1>1, <1>3 DEF Fits, ChurnFits, CalmFits, Got
<1>17. QED
  BY <1>9, <1>10, <1>12, <1>13, <1>14, <1>15, <1>16, AloneKeeps DEF Fits

(* A Sync takes the recent entries.                                        *)
LEMMA SyncBeginsKeeps ==
    ASSUME IndInv, NEW c \in Client, SyncBegins(c)
    PROVE  IndInv'
<1>1. Types /\ Fits(c) /\ recent[c] \in Seq(Entry)
  BY DEF IndInv, Types
<1> DEFINE r == [Idle EXCEPT !.stage = "begin", !.taken = recent[c]]
<1>2. /\ r \in RunState /\ r.stage = "begin" /\ r.round = 0 /\ r.walk = {} /\ r.taken = recent[c]
  BY <1>1, IdleMade DEF RunState, StageNames
<1>3. /\ run' = [run EXCEPT ![c] = r] /\ recent' = [recent EXCEPT ![c] = <<>>]
      /\ srv' = srv /\ srvset' = srvset /\ store' = store /\ lastTs' = lastTs /\ reg' = reg
      /\ ever' = ever /\ ended' = ended /\ net' = net /\ stray' = stray /\ churn' = churn
      /\ fresh' = fresh /\ putting' = putting /\ run[c].stage = "idle"
  BY DEF SyncBegins, server, belief, history
<1> HIDE DEF r
<1>4. <<>> \in Seq(Entry) /\ ToSet(<<>>) = {}
  BY DEF ToSet
<1>5. Types'
  BY <1>1, <1>2, <1>3, <1>4 DEF Types
<1>6. Alone(c)
  BY <1>1, <1>3 DEF Alone, Types, server
<1>7. run'[c] = r /\ recent'[c] = <<>> /\ run[c].taken = <<>> /\ net[c].st = "none"
  BY <1>1, <1>3 DEF Types, Fits, StageFits
<1>8. StageFits(c)'
  BY <1>2, <1>3, <1>7 DEF StageFits
<1>9. TakenFits(c)'
  BY <1>1, <1>2, <1>3, <1>4, <1>7 DEF Fits, TakenFits
<1>10. EphFits(c)'
  BY <1>1, <1>3 DEF Fits, EphFits
<1>11. WalkFits(c)'
  BY <1>2, <1>3, <1>7 DEF WalkFits
<1>12. ChurnFits(c)'
  BY <1>2, <1>7 DEF ChurnFits, CalmFits
<1>13. QED
  BY <1>5, <1>6, <1>8, <1>9, <1>10, <1>11, <1>12, AloneKeeps DEF Fits

(* The first round of a Sync.                                              *)
LEMMA FirstRoundKeeps ==
    ASSUME IndInv, NEW c \in Client, FirstRound(c)
    PROVE  IndInv'
<1>1. Types /\ Fits(c) /\ run[c] \in RunState /\ ever[c] \in BOOLEAN /\ reg[c] \in BOOLEAN
  BY DEF IndInv, Types
<1>2. Frame /\ StartRound(c, run[c], reg[c]) /\ UNCHANGED <<store, reg, ever>> /\ run[c].stage = "begin"
  BY DEF FirstRound, Frame, belief
<1>3. PICK q, m :
         /\ Opens(c, run[c], q, m)
         /\ q.stage = "register" <=> ~reg[c] /\ c \in Keyed
         /\ run[c].round # 0 => q.stage # "fast"
  BY <1>1, <1>2, StartRoundOpens
<1>4. ever' = [ever EXCEPT ![c] = ever[c]] /\ reg' = [reg EXCEPT ![c] = reg[c]]
  BY <1>1, <1>2 DEF Types
<1>5. Track /\ c \notin churn => run[c].round = 0
  <2>1. run[c].round \in Nat
    BY <1>1, RunForms, SyncConstants
  <2>2. QED
    BY <1>1, <1>2, <2>1 DEF Fits, ChurnFits, CalmFits
<1>6. Ephemeral /\ ever[c] => reg[c] /\ q.stage # "register"
  BY <1>1, <1>3 DEF Fits, EphFits
<1>7. srv # "ended" => run[c].walk \subseteq srvset
  BY <1>1 DEF Fits, WalkFits
<1>8. QED
  BY <1>1, <1>2, <1>3, <1>4, <1>5, <1>6, <1>7, OpensKeeps

(* A Drop, on an idle client.                                              *)
LEMMA DropBeginsKeeps ==
    ASSUME IndInv, NEW c \in Client, DropBegins(c)
    PROVE  IndInv'
<1>1. Types /\ Fits(c)
  BY DEF IndInv, Types
<1> DEFINE r == [Idle EXCEPT !.stage = "drop"]
           m == Msg("drop", {}, 0)
<1>2. r \in RunState /\ r.stage = "drop" /\ r.round = 0 /\ r.walk = {} /\ r.taken = <<>>
  BY IdleMade DEF RunState, StageNames
<1>3. m \in Message /\ m.op = "drop"
  BY MsgMade, SyncConstants
<1>4. /\ run' = [run EXCEPT ![c] = r] /\ net' = [net EXCEPT ![c] = Sent(m)]
      /\ srv' = srv /\ srvset' = srvset /\ store' = store /\ lastTs' = lastTs /\ reg' = reg
      /\ ever' = ever /\ ended' = ended /\ stray' = stray /\ churn' = churn
      /\ fresh' = fresh /\ putting' = putting /\ recent' = recent /\ run[c].stage = "idle"
  BY DEF DropBegins, Ask, server, belief
<1> HIDE DEF r, m
<1>5. Types'
  BY <1>1, <1>2, <1>3, <1>4, NetMade DEF Types
<1>6. Alone(c)
  BY <1>1, <1>4 DEF Alone, Types, server
<1>7. /\ run'[c] = r /\ net'[c] = Sent(m) /\ Sent(m).st = "sent" /\ Sent(m).msg = m
      /\ run[c].taken = <<>> /\ c \notin churn
  BY <1>1, <1>3, <1>4, NetMade DEF Types, Fits, StageFits
<1>8. StageFits(c)'
  BY <1>2, <1>3, <1>4, <1>7 DEF StageFits, OpOf
<1>9. TakenFits(c)'
  BY <1>1, <1>2, <1>4, <1>7 DEF Fits, TakenFits
<1>10. EphFits(c)'
  BY <1>1, <1>3, <1>4, <1>7 DEF Fits, EphFits
<1>11. WalkFits(c)'
  BY <1>2, <1>4, <1>7 DEF WalkFits
<1>12. ChurnFits(c)'
  BY <1>2, <1>7 DEF ChurnFits, CalmFits
<1>13. QED
  BY <1>5, <1>6, <1>8, <1>9, <1>10, <1>11, <1>12, AloneKeeps DEF Fits

(* An answer to REGISTER.                                                  *)
LEMMA ReceiveRegisterKeeps ==
    ASSUME IndInv, NEW c \in Client, ReceiveRegister(c)
    PROVE  IndInv'
<1>1. Types /\ Fits(c) /\ run[c] \in RunState /\ ever[c] \in BOOLEAN /\ reg[c] \in BOOLEAN
  BY DEF IndInv, Types
<1>2. /\ Frame /\ net[c].st = "answered" /\ run[c].stage = "register" /\ stray' = stray
      /\ UNCHANGED <<server, store, putting, lastTs, ended, fresh>>
  BY DEF ReceiveRegister, Frame, Has
<1>3. CASE Status(c, "OK")
  <2>1. /\ AfterRegister(c, run[c])
        /\ reg' = [reg EXCEPT ![c] = TRUE] /\ ever' = [ever EXCEPT ![c] = TRUE]
    BY <1>3 DEF ReceiveRegister
  <2>2. PICK q, m : /\ Opens(c, run[c], q, m)
                    /\ q.stage # "register" /\ (run[c].round # 0 => q.stage = "probe")
    BY <1>1, <1>2, <2>1, AfterRegisterOpens
  <2>3. run[c].round \in Nat
    BY <1>1, RunForms, SyncConstants
  <2>4. Got(c, "OK")
    BY <1>2, <1>3 DEF Got, Status
  <2>5. Track /\ c \notin churn => srv # "none"
    BY <1>1, <1>2, <2>4 DEF Fits, ChurnFits, CalmFits
  <2>6. run[c].round # 0 /\ run[c].round # 1 /\ Track /\ c \notin churn =>
            srv = "ended" \/ (srv = "live" /\ store[c] = srvset)
    BY <1>1, <2>3 DEF Fits, ChurnFits, CalmFits
  <2>7. srv # "ended" => run[c].walk \subseteq srvset
    BY <1>1 DEF Fits, WalkFits
  <2>8. UNCHANGED store
    BY <1>2
  <2>9. QED
    BY <1>1, <2>1, <2>2, <2>5, <2>6, <2>7, <2>8, OpensKeeps
<1>4. CASE ~Status(c, "OK")
  <2>1. Finish(c, "rejected") /\ reg' = reg /\ ever' = ever
    BY <1>4 DEF ReceiveRegister
  <2>2. reg' = [reg EXCEPT ![c] = reg[c]]
    BY <1>1, <2>1 DEF Types
  <2>3. Ephemeral /\ ever[c] => reg[c]
    BY <1>1 DEF Fits, EphFits
  <2>4. stray' \subseteq Message
    BY <1>1, <1>2 DEF Types
  <2>5. QED
    BY <1>1, <1>2, <2>1, <2>2, <2>3, <2>4, FinishKeeps
<1>5. QED
  BY <1>3, <1>4

(* UNKNOWN_VAULT, at any stage.                                            *)
LEMMA ReceiveUnknownKeeps ==
    ASSUME IndInv, NEW c \in Client, ReceiveUnknown(c)
    PROVE  IndInv'
<1>1. /\ Types /\ Fits(c) /\ run[c] \in RunState /\ ever[c] \in BOOLEAN /\ reg[c] \in BOOLEAN
      /\ ended[c] \in BOOLEAN
  BY DEF IndInv, Types
<1>2. /\ Frame /\ net[c].st = "answered" /\ stray' = stray /\ ever' = ever
      /\ UNCHANGED <<server, store, putting, lastTs, ended, fresh>>
  BY DEF ReceiveUnknown, Frame, Has
<1>3. Got(c, "UNKNOWN_VAULT")
  BY <1>2 DEF ReceiveUnknown, Got, Status
<1>4. stray' \subseteq Message
  BY <1>1, <1>2 DEF Types
<1>5. Ephemeral /\ ever[c] => reg[c]
  BY <1>1 DEF Fits, EphFits
<1>6. ASSUME NEW what, what # "ok", Finish(c, what), reg' = reg
      PROVE  IndInv'
  <2>1. reg' = [reg EXCEPT ![c] = reg[c]]
    BY <1>1, <1>6 DEF Types
  <2>2. QED
    BY <1>1, <1>2, <1>4, <1>5, <1>6, <2>1, FinishKeeps
<1>7. CASE ended[c] \/ (Ephemeral /\ ever[c])
  <2>1. Finish(c, "ended") /\ reg' = reg
    BY <1>7 DEF ReceiveUnknown
  <2>2. QED
    BY <1>6, <2>1
<1>8. CASE ~(ended[c] \/ (Ephemeral /\ ever[c])) /\ c \notin Keyed
  <2>1. Finish(c, "nokey") /\ reg' = reg
    BY <1>8 DEF ReceiveUnknown
  <2>2. QED
    BY <1>6, <2>1
<1>9. CASE ~(ended[c] \/ (Ephemeral /\ ever[c])) /\ c \in Keyed
  <2>1. reg' = [reg EXCEPT ![c] = FALSE] /\ NextRound(c, FALSE)
    BY <1>9 DEF ReceiveUnknown
  <2>2. Track /\ c \notin churn /\ run[c].round >= 1 => srv = "ended"
    BY <1>1, <1>3 DEF Fits, ChurnFits, CalmFits
  <2>3. UNCHANGED <<store, ever>>
    BY <1>2
  <2>4. QED
    BY <1>2, <1>9, <2>1, <2>2, <2>3, NextRoundKeeps
<1>10. QED
  BY <1>7, <1>8, <1>9

(* The anchor of a walk; only a first round looks back one window.         *)
LEMMA AnchorFacts ==
    ASSUME IndInv, NEW c \in Client, NEW round \in Nat
    PROVE  Anchor(c, round) \in 0..MaxEntry /\ (round # 0 => Anchor(c, round) = 0)
<1>1. store[c] \in SUBSET Entry
  BY DEF IndInv, Types
<1>2. store[c] # {} => Max(store[c]) \in 1..MaxEntry
  BY <1>1, MaxFacts DEF Entry
<1>3. CASE round = 0 /\ store[c] # {} /\ Max(store[c]) > Window
  BY <1>2, <1>3, SyncConstants DEF Anchor
<1>4. CASE ~(round = 0 /\ store[c] # {} /\ Max(store[c]) > Window)
  BY <1>4, SyncConstants DEF Anchor
<1>5. QED
  BY <1>3, <1>4

(* An answer to PROBE: in sync, or on to the pull, or to the push.         *)
LEMMA ReceiveProbeKeeps ==
    ASSUME IndInv, NEW c \in Client, ReceiveProbe(c)
    PROVE  IndInv'
<1>1. /\ Types /\ Fits(c) /\ run[c] \in RunState /\ ever[c] \in BOOLEAN /\ reg[c] \in BOOLEAN
      /\ store[c] \in SUBSET Entry /\ srvset \in SUBSET Entry
  BY DEF IndInv, Types
<1>2. /\ Frame /\ net[c].st = "answered" /\ stray' = stray /\ ever' = ever /\ reg' = reg
      /\ UNCHANGED <<server, store, putting, lastTs, ended, fresh>>
      /\ run[c].stage \in {"probe", "reprobe"} /\ srv' = srv /\ srvset' = srvset
  BY DEF ReceiveProbe, Frame, Has, belief, server
<1>3. reg' = [reg EXCEPT ![c] = reg[c]] /\ ever' = [ever EXCEPT ![c] = ever[c]]
  BY <1>1, <1>2 DEF Types
<1>4. run[c].round \in Nat /\ run[c].anchor \in 0..MaxEntry
  BY <1>1, RunForms, SyncConstants
<1>5. CASE Status(c, "OK") /\ Finish(c, "ok")
  <2>1. fresh[c] \subseteq ToSet(recent[c])
    BY <1>1, <1>2, <1>5 DEF Fits, TakenFits, Got, Status
  <2>2. Ephemeral /\ ever[c] => reg[c]
    BY <1>1 DEF Fits, EphFits
  <2>3. stray' \subseteq Message
    BY <1>1, <1>2 DEF Types
  <2>4. QED
    BY <1>1, <1>2, <1>3, <1>5, <2>1, <2>2, <2>3, FinishKeeps
<1>6. ASSUME Status(c, "DIFFER"), run[c].stage = "probe", NEW from, from = Anchor(c, run[c].round),
             Ask(c, [run[c] EXCEPT !.stage = "pull", !.anchor = from, !.walk = Tracked(srvset)],
                 Msg("pull", {}, from))
      PROVE  IndInv'
  <2> DEFINE q == [run[c] EXCEPT !.stage = "pull", !.anchor = from, !.walk = Tracked(srvset)]
             m == Msg("pull", {}, from)
  <2>1. from \in 0..MaxEntry /\ (run[c].round # 0 => from = 0)
    BY <1>4, <1>6, AnchorFacts
  <2>2. Tracked(srvset) \in SUBSET Entry /\ Tracked(srvset) \subseteq srvset
        /\ (Track => Tracked(srvset) = srvset)
    BY <1>1 DEF Tracked
  <2>3. /\ q \in RunState /\ q.stage = "pull" /\ q.round = run[c].round /\ q.walk = Tracked(srvset)
        /\ q.taken = run[c].taken /\ q.anchor = from
    BY <1>1, <2>1, <2>2 DEF RunState, StageNames
  <2>4. m \in Message /\ m.op = "pull" /\ m.cur = from
    BY <2>1, MsgMade
  <2>5. Ask(c, q, m)
    BY <1>6
  <2> HIDE DEF q, m
  <2>6. Sends(c, q, m)
    BY <1>2, <2>3, <2>4, <2>5 DEF Sends, OpOf, Frame
  <2>7. /\ run'[c] = q /\ net'[c] = Sent(m) /\ store'[c] = store[c] /\ churn' = churn
        /\ Sent(m).st = "sent" /\ Sent(m).msg = m /\ net'[c].st = "sent"
        /\ reg'[c] = reg[c] /\ ever'[c] = ever[c]
    BY <1>1, <1>2, <2>4, <2>5, NetMade DEF Types, Ask
  <2>8. EphFits(c)'
    BY <1>1, <2>4, <2>7 DEF Fits, EphFits
  <2>9. ~Got(c, "OK")' /\ ~Got(c, "DIFFER")' /\ ~Got(c, "UNKNOWN_VAULT")'
    BY <2>7 DEF Got
  <2>10. WalkFits(c)'
    <3>1. \A e \in q.walk : e \in Nat
      BY <2>2, <2>3, SyncConstants DEF Entry
    <3>2. from \in Nat
      BY <2>1, SyncConstants
    <3>3. \A e \in q.walk : ~(from < e /\ e <= from)
      BY <3>1, <3>2
    <3>4. QED
      BY <1>2, <2>2, <2>3, <2>4, <2>7, <2>9, <3>3 DEF WalkFits
  <2>11. ChurnFits(c)'
    <3>1. SUFFICES ASSUME Track, c \notin churn PROVE CalmFits(c)'
      BY <2>7 DEF ChurnFits
    <3>2. Got(c, "DIFFER") /\ CalmFits(c)
      BY <1>1, <1>2, <1>6, <3>1 DEF Got, Status, Fits, ChurnFits
    <3>3. srv # "none" /\ ~(run[c].round >= 2)
      BY <1>6, <3>2 DEF CalmFits
    <3>4. run[c].round >= 1 => run[c].round # 0
      BY <1>4
    <3>5. QED
      BY <1>2, <2>1, <2>2, <2>3, <2>7, <2>9, <3>1, <3>3, <3>4 DEF CalmFits
  <2>12. store' = [store EXCEPT ![c] = store[c]]
    BY <1>1, <1>2 DEF Types
  <2>13. QED
    BY <1>1, <1>3, <2>6, <2>8, <2>10, <2>11, <2>12, SendsKeeps
<1>7. CASE Status(c, "DIFFER") /\ run[c].stage = "reprobe" /\ PushWalk(c, run[c].anchor, reg[c])
  <2>1. ASSUME Track, c \notin churn
        PROVE  /\ srv # "none"
               /\ run[c].round >= 1 =>
                     /\ run[c].round < 2
                     /\ srvset \subseteq store[c]
                     /\ \A e \in store[c] : e <= run[c].anchor => e \in srvset
    <3>1. CalmFits(c)
      BY <1>1, <2>1 DEF Fits, ChurnFits
    <3>2. run[c].round >= 1 => run[c].anchor = 0 /\ srvset \subseteq store[c]
      BY <1>7, <3>1 DEF CalmFits
    <3>3. srv # "none" /\ ~(run[c].round >= 2)
      BY <1>7, <3>1 DEF CalmFits
    <3>4. \A e \in store[c] : ~(e <= 0)
      BY <1>1, SyncConstants DEF Entry
    <3>5. QED
      BY <1>4, <3>2, <3>3, <3>4
  <2>2. UNCHANGED <<store, reg, ever>>
    BY <1>2
  <2>3. QED
    BY <1>2, <1>4, <1>7, <2>1, <2>2, PushWalkKeeps
<1>8. QED
  BY <1>5, <1>6, <1>7 DEF ReceiveProbe

(* A page: stored, and the walk goes on from its end, or is over.          *)
LEMMA ReceivePullKeeps ==
    ASSUME IndInv, NEW c \in Client, ReceivePull(c)
    PROVE  IndInv'
<1> DEFINE page == net[c].page
           cur == net[c].msg.cur
           S == store[c] \cup page
<1>1. /\ Types /\ Fits(c) /\ run[c] \in RunState /\ ever[c] \in BOOLEAN /\ reg[c] \in BOOLEAN
      /\ store[c] \in SUBSET Entry /\ srvset \in SUBSET Entry /\ net[c] \in NetState
  BY DEF IndInv, Types
<1>2. /\ Frame /\ net[c].st = "answered" /\ stray' = stray /\ ever' = ever /\ reg' = reg
      /\ run[c].stage = "pull" /\ srv' = srv /\ srvset' = srvset
      /\ store' = [store EXCEPT ![c] = S] /\ Got(c, "OK")
  BY <1>1 DEF ReceivePull, Frame, Has, belief, server, Got, Status, Types
<1>3. reg' = [reg EXCEPT ![c] = reg[c]] /\ ever' = [ever EXCEPT ![c] = ever[c]]
  BY <1>1, <1>2 DEF Types
<1>4. page \in SUBSET Entry /\ cur \in 0..MaxEntry /\ S \in SUBSET Entry /\ store[c] \subseteq S
  <2>1. page \in SUBSET Entry /\ net[c].msg \in Message
    BY <1>1, <1>2, NetForms
  <2>2. QED
    BY <1>1, <2>1, MsgForms
<1>5. \A e \in Entry : e \in Nat
  BY SyncConstants DEF Entry
<1>6. run[c].anchor \in Nat /\ cur \in Nat /\ run[c].round \in Nat /\ run[c].walk \in SUBSET Entry
  BY <1>1, <1>4, RunForms, SyncConstants
<1>7. /\ \A e \in run[c].walk : run[c].anchor < e /\ e <= cur => e \in store[c]
      /\ \A e \in run[c].walk : e > cur => page # {} /\ (e <= Max(page) => e \in page)
      /\ srv # "ended" => run[c].walk \subseteq srvset
  BY <1>1, <1>2 DEF Fits, WalkFits
<1>8. CASE page = {}
  <2> DEFINE q == [run[c] EXCEPT !.stage = "reprobe"]
             m == Msg("probe", store[c], 0)
  <2>1. Probe(c, run[c], "reprobe")
    BY <1>8 DEF ReceivePull
  <2>2. /\ Sends(c, q, m) /\ q.stage = "reprobe" /\ q.round = run[c].round
        /\ q.anchor = run[c].anchor /\ q.walk = run[c].walk
    BY <1>1, <1>2, <2>1, ProbeOpens
  <2>3. m \in Message /\ m.op = "probe"
    BY <1>1, MsgMade, SyncConstants
  <2> HIDE DEF q, m
  <2>4. /\ run'[c] = q /\ net'[c] = Sent(m) /\ store'[c] = store[c] /\ churn' = churn
        /\ Sent(m).st = "sent" /\ Sent(m).msg = m /\ net'[c].st = "sent"
        /\ reg'[c] = reg[c] /\ ever'[c] = ever[c]
    BY <1>1, <1>2, <1>8, <2>2, <2>3, NetMade DEF Types, Ask, Sends
  <2>5. EphFits(c)'
    BY <1>1, <2>3, <2>4 DEF Fits, EphFits
  <2>6. ~Got(c, "OK")' /\ ~Got(c, "DIFFER")' /\ ~Got(c, "UNKNOWN_VAULT")'
    BY <2>4 DEF Got
  <2>7. \A e \in run[c].walk : run[c].anchor < e => e \in store[c]
    BY <1>5, <1>6, <1>7, <1>8
  <2>8. WalkFits(c)'
    BY <1>2, <1>7, <2>2, <2>4, <2>7 DEF WalkFits
  <2>9. ChurnFits(c)'
    <3>1. SUFFICES ASSUME Track, c \notin churn PROVE CalmFits(c)'
      BY <2>4 DEF ChurnFits
    <3>2. CalmFits(c)
      BY <1>1, <3>1 DEF Fits, ChurnFits
    <3>3. srv # "none" /\ ~(run[c].round >= 2)
      BY <1>2, <3>2 DEF CalmFits
    <3>4. run[c].round >= 1 => run[c].anchor = 0 /\ run[c].walk = srvset
      BY <1>2, <3>2 DEF CalmFits
    <3>5. \A e \in srvset : 0 < e
      BY <1>1, SyncConstants DEF Entry
    <3>6. run[c].round >= 1 => srvset \subseteq store[c]
      BY <2>7, <3>4, <3>5
    <3>7. QED
      BY <1>2, <2>2, <2>4, <2>6, <3>3, <3>4, <3>6 DEF CalmFits
  <2>10. QED
    BY <1>1, <1>2, <1>3, <1>4, <2>2, <2>5, <2>8, <2>9, SendsKeeps
<1>9. CASE page # {}
  <2> DEFINE r == run[c]
             m == Msg("pull", {}, PageEnd(page))
  <2>1. Ask(c, r, m)
    BY <1>9 DEF ReceivePull
  <2>2. Max(page) \in page /\ Max(page) \in 0..MaxEntry
    BY <1>4, <1>9, MaxFacts, SyncConstants DEF Entry
  <2>3. m \in Message /\ m.op = "pull" /\ m.cur = Max(page)
    BY <2>2, MsgMade DEF PageEnd
  <2> HIDE DEF m
  <2>4. Sends(c, r, m)
    BY <1>1, <1>2, <2>1, <2>3 DEF Sends, OpOf, Frame
  <2>5. /\ run'[c] = r /\ net'[c] = Sent(m) /\ store'[c] = S /\ churn' = churn
        /\ Sent(m).st = "sent" /\ Sent(m).msg = m /\ net'[c].st = "sent"
        /\ reg'[c] = reg[c] /\ ever'[c] = ever[c]
    BY <1>1, <1>2, <2>1, <2>3, NetMade DEF Types, Ask
  <2>6. EphFits(c)'
    BY <1>1, <2>3, <2>5 DEF Fits, EphFits
  <2>7. ~Got(c, "OK")' /\ ~Got(c, "DIFFER")' /\ ~Got(c, "UNKNOWN_VAULT")'
    BY <2>5 DEF Got
  <2>8. WalkFits(c)'
    <3>1. \A e \in run[c].walk : run[c].anchor < e /\ e <= Max(page) => e \in S
      <4>1. SUFFICES ASSUME NEW e \in run[c].walk, run[c].anchor < e, e <= Max(page)
                     PROVE  e \in store[c] \/ e \in page
        OBVIOUS
      <4>2. e \in Nat
        BY <1>5, <1>6
      <4>3. CASE e <= cur
        BY <1>7, <4>1, <4>3
      <4>4. CASE e > cur
        BY <1>7, <4>1, <4>4
      <4>5. QED
        BY <1>6, <4>2, <4>3, <4>4
    <3>2. QED
      BY <1>2, <1>7, <2>3, <2>5, <2>7, <3>1 DEF WalkFits
  <2>9. ChurnFits(c)'
    <3>1. SUFFICES ASSUME Track, c \notin churn PROVE CalmFits(c)'
      BY <2>5 DEF ChurnFits
    <3>2. CalmFits(c)
      BY <1>1, <3>1 DEF Fits, ChurnFits
    <3>3. srv # "none" /\ ~(run[c].round >= 2)
      BY <1>2, <3>2 DEF CalmFits
    <3>4. run[c].round >= 1 => run[c].anchor = 0 /\ run[c].walk = srvset
      BY <1>2, <3>2 DEF CalmFits
    <3>5. QED
      BY <1>2, <2>5, <2>7, <3>3, <3>4 DEF CalmFits
  <2>10. QED
    BY <1>1, <1>2, <1>3, <1>4, <2>4, <2>6, <2>8, <2>9, SendsKeeps
<1>10. QED
  BY <1>8, <1>9

(* An answer to PUSH: the walk goes on after the batch.                    *)
LEMMA ReceivePushKeeps ==
    ASSUME IndInv, NEW c \in Client, ReceivePush(c)
    PROVE  IndInv'
<1> DEFINE es == net[c].msg.es
           cur == net[c].msg.cur
<1>1. /\ Types /\ Fits(c) /\ run[c] \in RunState /\ ever[c] \in BOOLEAN /\ reg[c] \in BOOLEAN
      /\ store[c] \in SUBSET Entry /\ srvset \in SUBSET Entry /\ net[c] \in NetState
  BY DEF IndInv, Types
<1>2. /\ Frame /\ net[c].st = "answered" /\ stray' = stray /\ ever' = ever /\ reg' = reg
      /\ UNCHANGED <<server, store, putting, lastTs, ended, fresh>>
  BY DEF ReceivePush, Frame, Has, belief
<1>3. reg' = [reg EXCEPT ![c] = reg[c]] /\ ever' = [ever EXCEPT ![c] = ever[c]]
  BY <1>1, <1>2 DEF Types
<1>4. run[c].round \in Nat
  BY <1>1, RunForms, SyncConstants
<1>5. es \in SUBSET Entry /\ cur \in 0..MaxEntry
  BY <1>1, <1>2, NetForms, MsgForms
<1>6. Ephemeral /\ ever[c] => reg[c]
  BY <1>1 DEF Fits, EphFits
<1>7. CASE Status(c, "OK") /\ run[c].stage = "fast" /\ PushFast(c, run[c])
  <2>1. PICK q, m : Opens(c, run[c], q, m) /\ q.stage # "register"
    BY <1>1, <1>2, <1>7, PushFastOpens
  <2>2. Track /\ c \notin churn => run[c].round = 0
    BY <1>1, <1>4, <1>7 DEF Fits, ChurnFits, CalmFits
  <2>3. srv # "ended" => run[c].walk \subseteq srvset
    BY <1>1 DEF Fits, WalkFits
  <2>4. UNCHANGED store
    BY <1>2
  <2>5. QED
    BY <1>1, <1>3, <1>6, <2>1, <2>2, <2>3, <2>4, OpensKeeps
<1>8. CASE Status(c, "OK") /\ run[c].stage = "push" /\ PushWalk(c, PageEnd(es), reg[c])
  <2>1. es # {}
    BY <1>1, <1>8 DEF Fits, StageFits
  <2>2. PageEnd(es) = Max(es) /\ Max(es) \in es /\ Max(es) \in 0..MaxEntry
    BY <1>5, <2>1, MaxFacts, SyncConstants DEF Entry, PageEnd
  <2>3. ASSUME Track, c \notin churn
        PROVE  /\ srv # "none"
               /\ run[c].round >= 1 =>
                     /\ run[c].round < 2
                     /\ srvset \subseteq store[c]
                     /\ \A e \in store[c] : e <= Max(es) => e \in srvset
    <3>1. CalmFits(c) /\ Got(c, "OK")
      BY <1>1, <1>2, <1>8, <2>3 DEF Fits, ChurnFits, Got, Status
    <3>2. srv # "none" /\ ~(run[c].round >= 2)
      BY <1>8, <3>1 DEF CalmFits
    <3>3. ASSUME run[c].round >= 1
          PROVE  srvset \subseteq store[c] /\ \A e \in store[c] : e <= Max(es) => e \in srvset
      <4>1. /\ srvset \subseteq store[c] /\ es = Page(store[c], cur) /\ es \subseteq srvset
            /\ \A e \in store[c] : e <= cur => e \in srvset
        BY <1>8, <3>1, <3>3 DEF CalmFits
      <4>2. \A e \in store[c] : cur < e /\ e <= Max(es) => e \in es
        BY <1>1, <1>5, <2>2, <4>1, PageFacts
      <4>3. cur \in Nat /\ \A e \in store[c] : e \in Nat
        BY <1>1, <1>5, SyncConstants DEF Entry
      <4>4. QED
        BY <4>1, <4>2, <4>3
    <3>4. QED
      BY <1>4, <3>2, <3>3
  <2>4. UNCHANGED <<store, reg, ever>>
    BY <1>2
  <2>5. QED
    BY <1>2, <1>8, <2>2, <2>3, <2>4, PushWalkKeeps
<1>9. CASE Status(c, "BAD_REQUEST") /\ Finish(c, "refused")
  <2>1. stray' \subseteq Message
    BY <1>1, <1>2 DEF Types
  <2>2. QED
    BY <1>1, <1>2, <1>3, <1>6, <1>9, <2>1, FinishKeeps
<1>10. QED
  BY <1>7, <1>8, <1>9 DEF ReceivePush

(* Drop's answer.                                                          *)
LEMMA ReceiveDropKeeps ==
    ASSUME IndInv, NEW c \in Client, ReceiveDrop(c)
    PROVE  IndInv'
<1>1. Types /\ Fits(c)
  BY DEF IndInv
<1>2. /\ run' = [run EXCEPT ![c] = Idle] /\ net' = [net EXCEPT ![c] = Quiet]
      /\ ended' = IF Status(c, "OK") THEN [ended EXCEPT ![c] = TRUE] ELSE ended
      /\ srv' = srv /\ srvset' = srvset /\ store' = store /\ lastTs' = lastTs /\ reg' = reg
      /\ ever' = ever /\ stray' = stray /\ churn' = churn /\ recent' = recent
      /\ fresh' = fresh /\ putting' = putting /\ run[c].stage = "drop"
  BY DEF ReceiveDrop, Has, server, local, history
<1>3. Types'
  BY <1>1, <1>2, NetMade, IdleMade DEF Types
<1>4. Alone(c)
  BY <1>1, <1>2 DEF Alone, Types, server
<1>5. /\ run'[c] = Idle /\ net'[c] = Quiet /\ Quiet.st = "none" /\ run[c].taken = <<>>
      /\ c \notin churn
  BY <1>1, <1>2, NetMade DEF Types, Fits, StageFits
<1>6. StageFits(c)'
  BY <1>2, <1>5, IdleMade DEF StageFits
<1>7. TakenFits(c)'
  BY <1>1, <1>2, <1>5, IdleMade DEF Fits, TakenFits
<1>8. EphFits(c)'
  BY <1>1, <1>2, <1>5 DEF Fits, EphFits
<1>9. WalkFits(c)'
  BY <1>2, <1>5, IdleMade DEF WalkFits
<1>10. ChurnFits(c)'
  BY <1>5, IdleMade DEF ChurnFits, CalmFits
<1>11. QED
  BY <1>3, <1>4, <1>6, <1>7, <1>8, <1>9, <1>10, AloneKeeps DEF Fits

(* A request fails.                                                        *)
LEMMA TransportFailsKeeps ==
    ASSUME IndInv, NEW c \in Client, TransportFails(c)
    PROVE  IndInv'
<1>1. Types /\ Fits(c) /\ reg[c] \in BOOLEAN /\ net[c] \in NetState
  BY DEF IndInv, Types
<1>2. /\ Finish(c, "failed") /\ ever' = ever /\ reg' = reg
      /\ UNCHANGED <<server, store, putting, lastTs, ended, fresh>>
  BY DEF TransportFails, belief
<1>3. stray' \subseteq Message
  <2>1. PICK m : m = net[c].msg
    OBVIOUS
  <2>2. m \in Message
    BY <1>1, <2>1, NetForms DEF TransportFails
  <2>3. \A S \in SUBSET m.es : [m EXCEPT !.es = S] \in Message
    BY <2>2 DEF Message
  <2>4. stray' = stray \/ \E S \in SUBSET m.es : stray' = stray \cup {[m EXCEPT !.es = S]}
    BY <2>1 DEF TransportFails
  <2>5. QED
    BY <1>1, <2>3, <2>4 DEF Types
<1>4. reg' = [reg EXCEPT ![c] = reg[c]]
  BY <1>1, <1>2 DEF Types
<1>5. Ephemeral /\ ever[c] => reg[c]
  BY <1>1 DEF Fits, EphFits
<1>6. QED
  BY <1>1, <1>2, <1>3, <1>4, <1>5, FinishKeeps

(* A client starts again.                                                  *)
LEMMA RestartKeeps ==
    ASSUME IndInv, NEW c \in Client, Restart(c)
    PROVE  IndInv'
<1>1. Types /\ Fits(c)
  BY DEF IndInv
<1>2. /\ run' = [run EXCEPT ![c] = Idle] /\ net' = [net EXCEPT ![c] = Quiet]
      /\ putting' = [putting EXCEPT ![c] = {}] /\ recent' = [recent EXCEPT ![c] = <<>>]
      /\ lastTs' = [lastTs EXCEPT ![c] = 0] /\ reg' = [reg EXCEPT ![c] = c \in Believers]
      /\ ever' = [ever EXCEPT ![c] = FALSE] /\ ended' = [ended EXCEPT ![c] = FALSE]
      /\ fresh' = [fresh EXCEPT ![c] = {}] /\ churn' = churn \ {c}
      /\ srv' = srv /\ srvset' = srvset /\ stray' = stray
  BY DEF Restart, server
<1>3. PICK S \in SUBSET Entry : store' = [store EXCEPT ![c] = @ \cup S]
  <2>1. PICK page : page = IF net[c].st = "answered" THEN net[c].page ELSE {}
    OBVIOUS
  <2>2. page \in SUBSET Entry
    BY <1>1, <2>1, NetForms DEF Types
  <2>3. PICK n \in 0..MaxEntry : store' = [store EXCEPT ![c] = @ \cup {e \in page : e <= n}]
    BY <2>1 DEF Restart
  <2>4. {e \in page : e <= n} \in SUBSET Entry
    BY <2>2
  <2>5. QED
    BY <2>3, <2>4
<1>4. 0 \in 0..MaxEntry /\ <<>> \in Seq(Entry) /\ ToSet(<<>>) = {}
  BY SyncConstants DEF ToSet
<1>5. Types'
  <2>1. (c \in Believers) \in BOOLEAN
    OBVIOUS
  <2>2. reg' \in [Client -> BOOLEAN] /\ ever' \in [Client -> BOOLEAN] /\ ended' \in [Client -> BOOLEAN]
    BY <1>1, <1>2, <2>1 DEF Types
  <2>3. QED
    BY <1>1, <1>2, <1>3, <1>4, <2>2, NetMade, IdleMade DEF Types
<1>6. Alone(c)
  BY <1>1, <1>2, <1>3 DEF Alone, Types, server
<1>7. /\ run'[c] = Idle /\ net'[c] = Quiet /\ Quiet.st = "none" /\ c \notin churn'
      /\ recent'[c] = <<>> /\ putting'[c] = {} /\ fresh'[c] = {}
  BY <1>1, <1>2, NetMade DEF Types
<1>8. ever'[c] = FALSE
  BY <1>1, <1>2 DEF Types
<1>9. StageFits(c)'
  BY <1>2, <1>7, IdleMade DEF StageFits
<1>10. TakenFits(c)'
  BY <1>2, <1>4, <1>7, IdleMade DEF TakenFits
<1>11. EphFits(c)'
  BY <1>8 DEF EphFits
<1>12. WalkFits(c)'
  BY <1>2, <1>7, IdleMade DEF WalkFits
<1>13. ChurnFits(c)'
  BY <1>7, IdleMade DEF ChurnFits, CalmFits
<1>14. QED
  BY <1>5, <1>6, <1>9, <1>10, <1>11, <1>12, <1>13, AloneKeeps DEF Fits

-----------------------------------------------------------------------------
(* The steps of the server.                                                *)

(* What the server does with any request: a vault once registered is there *)
(* or has ended, an ended one stays so, and until it ends it loses no      *)
(* entry.                                                                  *)
Serves ==
    /\ srv' \in {"none", "live", "ended"} /\ srvset' \in SUBSET Entry
    /\ srv' # "live" => srvset' = {}
    /\ srv # "none" => srv' # "none"
    /\ srv = "ended" => srv' = "ended"
    /\ srv' # "ended" => srvset \subseteq srvset'
    /\ fresh' = [c \in Client |-> fresh[c] \ srvset']

(* Every request is served so.                                             *)
LEMMA ApplyServes ==
    ASSUME IndInv, NEW m \in Message, Apply(m)
    PROVE  /\ Serves /\ StatusOf(m) \in StatusNames
           /\ m.op = "register" => StatusOf(m) \in {"OK", "BAD_AUTH"} /\ (StatusOf(m) = "OK" => srv' = "live")
           /\ m.op # "register" => (StatusOf(m) = "UNKNOWN_VAULT" <=> srv # "live")
           /\ m.op = "probe" => /\ StatusOf(m) = "OK" => srv = "live" /\ m.es = srvset
                                /\ StatusOf(m) = "DIFFER" => srv = "live" /\ m.es # srvset
                                /\ StatusOf(m) \in {"OK", "DIFFER", "UNKNOWN_VAULT"}
           /\ m.op \notin {"push", "drop"} => srvset' = srvset
           /\ m.op \notin {"register", "drop"} => srv' = srv
           /\ m.op = "push" => srvset' = (IF StatusOf(m) = "OK" THEN srvset \cup m.es ELSE srvset)
           /\ m.op \in {"pull", "push", "drop"} => StatusOf(m) \in {"OK", "UNKNOWN_VAULT"}
<1>1. /\ srv \in {"none", "live", "ended"} /\ srvset \in SUBSET Entry /\ (srv # "live" => srvset = {})
  BY DEF IndInv, Types
<1>2. m.op \in {"register", "probe", "pull", "push", "drop"} /\ m.es \in SUBSET Entry
  BY MsgForms
<1>3. /\ srv' = CASE m.op = "register" /\ StatusOf(m) = "OK" -> "live"
                  [] m.op = "drop" /\ StatusOf(m) = "OK" -> "ended"
                  [] OTHER -> srv
      /\ srvset' = CASE m.op = "push" /\ StatusOf(m) = "OK" -> srvset \cup m.es
                     [] m.op = "drop" /\ StatusOf(m) = "OK" -> {}
                     [] OTHER -> srvset
      /\ fresh' = [c \in Client |-> fresh[c] \ srvset']
  BY DEF Apply
<1>4. CASE m.op = "register"
  <2>1. StatusOf(m) = IF srv = "ended" THEN "BAD_AUTH" ELSE "OK"
    BY <1>4 DEF StatusOf
  <2>2. srvset' = srvset /\ srv' = IF srv = "ended" THEN srv ELSE "live"
    BY <1>3, <1>4, <2>1
  <2>3. QED
    BY <1>1, <1>3, <1>4, <2>1, <2>2 DEF Serves, StatusNames
<1>5. CASE m.op = "probe"
  <2>1. StatusOf(m) = IF srv # "live" THEN "UNKNOWN_VAULT" ELSE IF m.es = srvset THEN "OK" ELSE "DIFFER"
    BY <1>5 DEF StatusOf
  <2>2. srvset' = srvset /\ srv' = srv
    BY <1>3, <1>5
  <2>3. QED
    BY <1>1, <1>3, <1>5, <2>1, <2>2 DEF Serves, StatusNames
<1>6. CASE m.op = "pull"
  <2>1. StatusOf(m) = IF srv # "live" THEN "UNKNOWN_VAULT" ELSE "OK"
    BY <1>6 DEF StatusOf
  <2>2. srvset' = srvset /\ srv' = srv
    BY <1>3, <1>6
  <2>3. QED
    BY <1>1, <1>3, <1>6, <2>1, <2>2 DEF Serves, StatusNames
<1>7. CASE m.op = "push"
  <2>1. StatusOf(m) = IF srv # "live" THEN "UNKNOWN_VAULT" ELSE "OK"
    BY <1>7 DEF StatusOf
  <2>2. srvset' = (IF srv # "live" THEN srvset ELSE srvset \cup m.es) /\ srv' = srv
    BY <1>3, <1>7, <2>1
  <2>3. QED
    BY <1>1, <1>2, <1>3, <1>7, <2>1, <2>2 DEF Serves, StatusNames
<1>8. CASE m.op = "drop"
  <2>1. StatusOf(m) = IF srv # "live" THEN "UNKNOWN_VAULT" ELSE "OK"
    BY <1>8 DEF StatusOf
  <2>2. /\ srvset' = (IF srv # "live" THEN srvset ELSE {})
        /\ srv' = (IF srv # "live" THEN srv ELSE "ended")
    BY <1>3, <1>8, <2>1
  <2>3. QED
    BY <1>1, <1>3, <1>8, <2>1, <2>2 DEF Serves, StatusNames
<1>9. QED
  BY <1>2, <1>4, <1>5, <1>6, <1>7, <1>8

(* A client that is not syncing promises nothing of the server.            *)
LEMMA RestCalm ==
    ASSUME IndInv, NEW d \in Client, Track, d \notin churn, d \notin Syncing,
           run'[d].stage = run[d].stage, run'[d].round = run[d].round
    PROVE  CalmFits(d)'
<1>1. Fits(d) /\ run[d] \in RunState /\ run[d].stage \in {"idle", "drop"}
  BY SyncingFacts DEF IndInv, Types
<1>2. run[d].round \in Nat /\ ~(run[d].round >= 1)
  BY <1>1, RunForms, SyncConstants DEF Fits, ChurnFits, CalmFits
<1>3. ~(run[d].round >= 2)
  BY <1>2
<1>4. QED
  BY <1>1, <1>2, <1>3 DEF CalmFits

(* A client that the server does not answer keeps its part.                *)
LEMMA ServesKeeps ==
    ASSUME IndInv, Serves, NEW d \in Client,
           UNCHANGED <<store, putting, recent, reg, ever, run>>, net'[d] = net[d],
           Track => churn \subseteq churn', churn' \subseteq churn \cup Syncing,
           Track /\ srvset' # srvset /\ d \in Syncing => d \in churn'
    PROVE  Fits(d)'
<1>1. Fits(d) /\ srv \in {"none", "live", "ended"}
  BY DEF IndInv, Types
<1>2. /\ store' = store /\ putting' = putting /\ recent' = recent /\ reg' = reg /\ ever' = ever
      /\ run' = run /\ fresh'[d] \subseteq fresh[d]
  BY DEF Serves
<1>3. StageFits(d)'
  BY <1>1, <1>2, SyncingFacts DEF Fits, StageFits
<1>4. TakenFits(d)'
  BY <1>1, <1>2 DEF Fits, TakenFits, Got
<1>5. EphFits(d)'
  BY <1>1, <1>2 DEF Fits, EphFits
<1>6. WalkFits(d)'
  BY <1>1, <1>2 DEF Fits, WalkFits, Got, Serves
<1>7. ChurnFits(d)'
  <2>1. SUFFICES ASSUME Track, d \notin churn' PROVE CalmFits(d)'
    BY DEF ChurnFits
  <2>2. d \notin churn
    BY <2>1
  <2>3. CASE d \notin Syncing
    BY <1>2, <2>1, <2>2, <2>3, RestCalm
  <2>4. CASE d \in Syncing
    <3>1. srvset' = srvset /\ CalmFits(d)
      BY <1>1, <2>1, <2>2, <2>4 DEF Fits, ChurnFits
    <3>2. QED
      BY <1>1, <1>2, <3>1 DEF CalmFits, Got, Serves
  <2>5. QED
    BY <2>3, <2>4
<1>8. QED
  BY <1>3, <1>4, <1>5, <1>6, <1>7 DEF Fits

(* A request is answered.                                                  *)
LEMMA AnswerKeeps ==
    ASSUME IndInv, NEW c \in Client, Answer(c)
    PROVE  IndInv'
<1> DEFINE m == net[c].msg
           page == IF m.op = "pull" THEN Page(srvset, m.cur) ELSE {}
           a == Answered(m, StatusOf(m), page)
<1>1. /\ Types /\ Fits(c) /\ run[c] \in RunState /\ net[c] \in NetState /\ srvset \in SUBSET Entry
      /\ store[c] \in SUBSET Entry /\ srv \in {"none", "live", "ended"}
  BY DEF IndInv, Types
<1>2. /\ net[c].st = "sent" /\ Apply(m) /\ net' = [net EXCEPT ![c] = a]
      /\ churn' = IF srvset' # srvset THEN churn \cup Tracked(Syncing \ {c}) ELSE churn
      /\ store' = store /\ putting' = putting /\ recent' = recent /\ lastTs' = lastTs
      /\ reg' = reg /\ ever' = ever /\ ended' = ended /\ run' = run /\ stray' = stray
  BY DEF Answer, local, belief
<1>3. m \in Message
  BY <1>1, <1>2, NetForms
<1>4. /\ Serves /\ StatusOf(m) \in StatusNames
      /\ m.op = "register" => StatusOf(m) \in {"OK", "BAD_AUTH"} /\ (StatusOf(m) = "OK" => srv' = "live")
      /\ m.op # "register" => (StatusOf(m) = "UNKNOWN_VAULT" <=> srv # "live")
      /\ m.op = "probe" => /\ StatusOf(m) = "OK" => srv = "live" /\ m.es = srvset
                           /\ StatusOf(m) = "DIFFER" => srv = "live" /\ m.es # srvset
                           /\ StatusOf(m) \in {"OK", "DIFFER", "UNKNOWN_VAULT"}
      /\ m.op \notin {"push", "drop"} => srvset' = srvset
      /\ m.op \notin {"register", "drop"} => srv' = srv
      /\ m.op = "push" => srvset' = (IF StatusOf(m) = "OK" THEN srvset \cup m.es ELSE srvset)
      /\ m.op \in {"pull", "push", "drop"} => StatusOf(m) \in {"OK", "UNKNOWN_VAULT"}
  BY <1>2, <1>3, ApplyServes
<1>5. m.es \in SUBSET Entry /\ m.cur \in 0..MaxEntry
  BY <1>3, MsgForms
<1>6. page \in SUBSET Entry
  BY <1>1, <1>5, PageFacts
<1> HIDE DEF page
<1>7. a \in NetState /\ a.st = "answered" /\ a.msg = m /\ a.status = StatusOf(m) /\ a.page = page
  BY <1>3, <1>4, <1>6, NetMade
<1> HIDE DEF a
<1>8. net'[c] = a
  BY <1>1, <1>2 DEF Types
<1>9. /\ Tracked(Syncing \ {c}) \subseteq Syncing \ {c} /\ Syncing \subseteq Client
      /\ Track => Tracked(Syncing \ {c}) = Syncing \ {c}
  BY DEF Tracked, Syncing
<1>10. churn \subseteq churn' /\ churn' \subseteq churn \cup (Syncing \ {c})
  BY <1>2, <1>9
<1>11. Types'
  BY <1>1, <1>2, <1>4, <1>7, <1>9, <1>10 DEF Types, Serves
<1>12. ASSUME NEW d \in Client, d # c
       PROVE  Fits(d)'
  <2>1. net'[d] = net[d]
    BY <1>1, <1>2, <1>12 DEF Types
  <2>2. Track /\ srvset' # srvset /\ d \in Syncing => d \in churn'
    BY <1>2, <1>9, <1>12
  <2>3. QED
    BY <1>2, <1>4, <1>10, <1>12, <2>1, <2>2, ServesKeeps
<1>13. c \in churn' <=> c \in churn
  BY <1>10
<1>14. fresh'[c] = fresh[c] \ srvset'
  BY <1>4 DEF Serves
<1>15. StageFits(c) /\ TakenFits(c) /\ EphFits(c) /\ WalkFits(c) /\ ChurnFits(c)
  BY <1>1 DEF Fits
<1>16. m.op = OpOf(run[c].stage) /\ run[c].stage \notin {"idle", "begin"} /\ run[c].stage \in StageNames
  BY <1>1, <1>2, <1>15, RunForms DEF StageFits
<1>17. StageFits(c)'
  BY <1>2, <1>7, <1>8, <1>13, <1>15 DEF StageFits
<1>18. TakenFits(c)'
  <2>1. ASSUME run[c].stage \in {"probe", "reprobe"}, StatusOf(m) = "OK"
        PROVE  fresh'[c] \subseteq ToSet(recent[c])
    <3>1. m.op = "probe"
      BY <1>16, <2>1 DEF OpOf
    <3>2. ToSet(run[c].taken) \subseteq srvset /\ srvset' = srvset
      BY <1>4, <1>15, <2>1, <3>1 DEF TakenFits
    <3>3. QED
      BY <1>14, <1>15, <3>2 DEF TakenFits
  <2>2. QED
    BY <1>2, <1>7, <1>8, <1>14, <1>15, <2>1 DEF TakenFits, Got
<1>19. EphFits(c)'
  BY <1>2, <1>7, <1>8, <1>15 DEF EphFits
<1>20. WalkFits(c)'
  <2>1. srv' # "ended" => run[c].walk \subseteq srvset'
    BY <1>4, <1>15 DEF WalkFits, Serves
  <2>2. ASSUME run[c].stage = "pull", StatusOf(m) = "OK", NEW e \in run[c].walk, e > m.cur
        PROVE  page # {} /\ (e <= Max(page) => e \in page)
    <3>1. m.op = "pull"
      BY <1>16, <2>2 DEF OpOf
    <3>2. page = Page(srvset, m.cur) /\ srv = "live"
      BY <1>4, <2>2, <3>1 DEF page
    <3>3. e \in srvset
      BY <1>15, <2>2, <3>2 DEF WalkFits
    <3>4. e \in Nat /\ m.cur \in Nat
      BY <1>1, <1>5, <3>3, SyncConstants DEF Entry
    <3>5. page # {}
      BY <1>1, <1>5, <2>2, <3>2, <3>3, <3>4, PageFacts
    <3>6. Max(page) \in page
      BY <1>6, <3>5, MaxFacts
    <3>7. QED
      BY <1>1, <1>5, <2>2, <3>2, <3>3, <3>4, <3>5, <3>6, PageFacts
  <2>3. QED
    BY <1>2, <1>7, <1>8, <1>15, <2>1, <2>2 DEF WalkFits, Got
<1>21. ChurnFits(c)'
  <2>1. SUFFICES ASSUME Track, c \notin churn PROVE CalmFits(c)'
    BY <1>13 DEF ChurnFits
  <2>2. CalmFits(c) /\ run[c].round \in Nat
    BY <1>1, <1>15, <2>1, RunForms, SyncConstants DEF ChurnFits
  <2>3. /\ run'[c] = run[c] /\ store'[c] = store[c] /\ net'[c].st = "answered" /\ net'[c].msg = m
        /\ net'[c].status = StatusOf(m)
    BY <1>2, <1>7, <1>8
  <2>4. \A s : Got(c, s)' <=> StatusOf(m) = s
    BY <2>3 DEF Got
  <2>5. CASE run[c].stage = "register"
    <3>1. m.op = "register"
      BY <1>16, <2>5 DEF OpOf
    <3>2. srvset' = srvset /\ StatusOf(m) \in {"OK", "BAD_AUTH"} /\ (StatusOf(m) = "OK" => srv' = "live")
      BY <1>4, <3>1
    <3>3. run[c].round >= 2 => srv' = "ended" \/ (srv' = "live" /\ store[c] = srvset')
      BY <1>4, <2>2, <3>2 DEF CalmFits, Serves
    <3>4. QED
      BY <2>3, <2>4, <2>5, <3>2, <3>3 DEF CalmFits
  <2>6. CASE run[c].stage \in {"fast", "drop"}
    <3>1. ~(run[c].round >= 1) /\ ~(run[c].round >= 2)
      BY <2>2, <2>6 DEF CalmFits
    <3>2. QED
      BY <2>3, <2>6, <3>1 DEF CalmFits
  <2>7. CASE run[c].stage \in {"probe", "reprobe"}
    <3>1. m.op = "probe"
      BY <1>16, <2>7 DEF OpOf
    <3>2. srvset' = srvset /\ srv' = srv /\ (StatusOf(m) = "UNKNOWN_VAULT" <=> srv # "live")
          /\ (StatusOf(m) = "DIFFER" => srv = "live" /\ m.es # srvset)
      BY <1>4, <3>1
    <3>3. run[c].stage = "probe" /\ run[c].round >= 2 => StatusOf(m) # "DIFFER"
      BY <2>2, <3>2 DEF CalmFits
    <3>4. run[c].stage = "reprobe" \/ run[c].round >= 1 => srv # "none"
      BY <2>2, <2>7 DEF CalmFits
    <3>5. run[c].round >= 1 /\ StatusOf(m) = "UNKNOWN_VAULT" => srv = "ended"
      BY <1>1, <3>2, <3>4
    <3>6. QED
      BY <2>2, <2>3, <2>4, <2>7, <3>2, <3>3, <3>4, <3>5 DEF CalmFits
  <2>8. CASE run[c].stage = "pull"
    <3>1. m.op = "pull"
      BY <1>16, <2>8 DEF OpOf
    <3>2. srvset' = srvset /\ srv' = srv /\ (StatusOf(m) = "UNKNOWN_VAULT" <=> srv # "live")
      BY <1>4, <3>1
    <3>3. srv # "none"
      BY <2>2, <2>8 DEF CalmFits
    <3>4. StatusOf(m) = "UNKNOWN_VAULT" => srv = "ended"
      BY <1>1, <3>2, <3>3
    <3>5. QED
      BY <2>2, <2>3, <2>4, <2>8, <3>2, <3>3, <3>4 DEF CalmFits
  <2>9. CASE run[c].stage = "push"
    <3>1. m.op = "push"
      BY <1>16, <2>9 DEF OpOf
    <3>2. /\ srv' = srv /\ (StatusOf(m) = "UNKNOWN_VAULT" <=> srv # "live")
          /\ srvset' = (IF StatusOf(m) = "OK" THEN srvset \cup m.es ELSE srvset)
      BY <1>4, <3>1
    <3>3. srv # "none" /\ ~(run[c].round >= 2)
      BY <2>2, <2>9 DEF CalmFits
    <3>4. StatusOf(m) = "UNKNOWN_VAULT" => srv = "ended"
      BY <1>1, <3>2, <3>3
    <3>5. ASSUME run[c].round >= 1
          PROVE  /\ srvset' \subseteq store[c]
                 /\ m.es = Page(store[c], m.cur) /\ m.es # {}
                 /\ \A e \in store[c] : e <= m.cur => e \in srvset'
                 /\ StatusOf(m) = "OK" => m.es \subseteq srvset'
      <4>1. /\ srvset \subseteq store[c] /\ m.es = Page(store[c], m.cur) /\ m.es # {}
            /\ \A e \in store[c] : e <= m.cur => e \in srvset
        BY <2>2, <2>9, <3>5 DEF CalmFits
      <4>2. m.es \subseteq store[c]
        BY <1>1, <1>5, <4>1, PageFacts
      <4>3. QED
        BY <3>2, <4>1, <4>2
    <3>6. QED
      BY <2>2, <2>3, <2>4, <2>9, <3>2, <3>3, <3>4, <3>5 DEF CalmFits
  <2>10. QED
    BY <1>16, <2>5, <2>6, <2>7, <2>8, <2>9 DEF StageNames
<1>22. Fits(c)'
  BY <1>17, <1>18, <1>19, <1>20, <1>21 DEF Fits
<1>23. QED
  BY <1>4, <1>11, <1>12, <1>22 DEF IndInv, Serves

(* A push is refused.                                                      *)
LEMMA RefuseKeeps ==
    ASSUME IndInv, NEW c \in Client, Refuse(c)
    PROVE  IndInv'
<1> DEFINE m == net[c].msg
           a == Answered(m, "BAD_REQUEST", {})
<1>1. Types /\ Fits(c) /\ net[c] \in NetState
  BY DEF IndInv, Types
<1>2. /\ net[c].st = "sent" /\ m.op = "push" /\ net' = [net EXCEPT ![c] = a]
      /\ srv' = srv /\ srvset' = srvset /\ store' = store /\ putting' = putting
      /\ recent' = recent /\ lastTs' = lastTs /\ reg' = reg /\ ever' = ever /\ ended' = ended
      /\ run' = run /\ stray' = stray /\ fresh' = fresh /\ churn' = churn
  BY DEF Refuse, server, local, belief, history
<1>3. m \in Message
  BY <1>1, <1>2, NetForms
<1>4. a \in NetState /\ a.st = "answered" /\ a.msg = m /\ a.status = "BAD_REQUEST"
  BY <1>3, NetMade DEF StatusNames
<1> HIDE DEF a
<1>5. Types'
  BY <1>1, <1>2, <1>4 DEF Types
<1>6. Alone(c)
  BY <1>1, <1>2 DEF Alone, Types, server
<1>7. net'[c] = a /\ run'[c] = run[c]
  BY <1>1, <1>2 DEF Types
<1>8. ~Got(c, "OK")' /\ ~Got(c, "DIFFER")' /\ ~Got(c, "UNKNOWN_VAULT")'
  BY <1>4, <1>7 DEF Got
<1>9. ~Got(c, "OK") /\ ~Got(c, "DIFFER") /\ ~Got(c, "UNKNOWN_VAULT")
  BY <1>2 DEF Got
<1>10. StageFits(c)'
  BY <1>1, <1>2, <1>4, <1>7 DEF Fits, StageFits
<1>11. TakenFits(c)'
  BY <1>1, <1>2, <1>4, <1>7, <1>8 DEF Fits, TakenFits
<1>12. EphFits(c)'
  BY <1>1, <1>2, <1>4, <1>7 DEF Fits, EphFits
<1>13. WalkFits(c)'
  BY <1>1, <1>2, <1>4, <1>7, <1>8 DEF Fits, WalkFits
<1>14. ChurnFits(c)'
  BY <1>1, <1>2, <1>4, <1>7, <1>8, <1>9 DEF Fits, ChurnFits, CalmFits
<1>15. QED
  BY <1>5, <1>6, <1>10, <1>11, <1>12, <1>13, <1>14, AloneKeeps DEF Fits

(* A stray request arrives.                                                *)
LEMMA AnswerStrayKeeps ==
    ASSUME IndInv, NEW m \in stray, AnswerStray(m)
    PROVE  IndInv'
<1>1. Types /\ m \in Message
  BY DEF IndInv, Types
<1>2. /\ Apply(m) /\ stray' = stray \ {m}
      /\ churn' = IF server' # server THEN Tracked(Syncing) ELSE churn
      /\ store' = store /\ putting' = putting /\ recent' = recent /\ lastTs' = lastTs
      /\ reg' = reg /\ ever' = ever /\ ended' = ended /\ run' = run /\ net' = net
  BY DEF AnswerStray, local, belief
<1>3. Serves
  BY <1>1, <1>2, ApplyServes
<1>4. Tracked(Syncing) \subseteq Syncing /\ Syncing \subseteq Client /\ (Track => Tracked(Syncing) = Syncing)
  BY DEF Tracked, Syncing
<1>5. (Track => churn \subseteq churn') /\ churn' \subseteq churn \cup Syncing
  BY <1>2, <1>4, SyncingFacts
<1>6. Types'
  BY <1>1, <1>2, <1>3, <1>4, <1>5 DEF Types, Serves
<1>7. Track /\ srvset' # srvset => Syncing \subseteq churn'
  BY <1>2, <1>4 DEF server
<1>8. ASSUME NEW d \in Client PROVE Fits(d)'
  BY <1>2, <1>3, <1>5, <1>7, <1>8, ServesKeeps
<1>9. QED
  BY <1>3, <1>6, <1>8 DEF IndInv, Serves

(* The vault is lost: every Sync that runs is disturbed, and no walk is on *)
(* a set that is still there.                                              *)
LEMMA LostKeeps ==
    ASSUME IndInv, srv' \in {"none", "ended"}, srvset' = {}, churn' = Tracked(Syncing),
           run' = [c \in Client |-> [run[c] EXCEPT !.walk = {}]],
           UNCHANGED <<local, belief, net, stray, fresh>>
    PROVE  IndInv'
<1>1. Types
  BY DEF IndInv
<1>2. /\ store' = store /\ putting' = putting /\ recent' = recent /\ lastTs' = lastTs
      /\ reg' = reg /\ ever' = ever /\ ended' = ended /\ net' = net /\ stray' = stray /\ fresh' = fresh
  BY DEF local, belief
<1>3. Tracked(Syncing) \subseteq Syncing /\ Syncing \subseteq Client /\ (Track => Tracked(Syncing) = Syncing)
  BY DEF Tracked, Syncing
<1>4. ASSUME NEW d \in Client
      PROVE  /\ run'[d] \in RunState /\ run'[d].stage = run[d].stage /\ run'[d].round = run[d].round
             /\ run'[d].anchor = run[d].anchor /\ run'[d].walk = {} /\ run'[d].taken = run[d].taken
  <2>1. run[d] \in RunState /\ run'[d] = [run[d] EXCEPT !.walk = {}]
    BY <1>1, <1>4 DEF Types
  <2>2. QED
    BY <2>1 DEF RunState
<1>5. run' \in [Client -> RunState]
  BY <1>4
<1>6. Types'
  BY <1>1, <1>2, <1>3, <1>5 DEF Types
<1>7. ASSUME NEW d \in Client
      PROVE  Fits(d)'
  <2>1. Fits(d)
    BY <1>7 DEF IndInv
  <2>2. StageFits(d)'
    BY <1>2, <1>3, <1>4, <1>7, <2>1, SyncingFacts DEF Fits, StageFits
  <2>3. TakenFits(d)'
    BY <1>2, <1>4, <1>7, <2>1 DEF Fits, TakenFits, Got
  <2>4. EphFits(d)'
    BY <1>2, <2>1 DEF Fits, EphFits
  <2>5. WalkFits(d)'
    BY <1>4, <1>7 DEF WalkFits
  <2>6. ChurnFits(d)'
    <3>1. SUFFICES ASSUME Track, d \notin churn' PROVE CalmFits(d)'
      BY DEF ChurnFits
    <3>2. d \notin Syncing /\ d \notin churn
      BY <1>3, <3>1, SyncingFacts
    <3>3. QED
      BY <1>4, <1>7, <3>1, <3>2, RestCalm
  <2>7. QED
    BY <2>2, <2>3, <2>4, <2>5, <2>6 DEF Fits
<1>8. QED
  BY <1>6, <1>7 DEF IndInv

-----------------------------------------------------------------------------
(* The theorems.                                                           *)

(* The initial states satisfy the invariant.                               *)
LEMMA InitInv ==
    ASSUME Init
    PROVE  IndInv
<1>1. <<>> \in Seq(Entry) /\ ToSet(<<>>) = {} /\ 0 \in 0..MaxEntry
  BY SyncConstants DEF ToSet
<1>2. reg \in [Client -> BOOLEAN] /\ ever \in [Client -> BOOLEAN] /\ ended \in [Client -> BOOLEAN]
  BY DEF Init
<1>3. Types
  BY <1>1, <1>2, IdleMade, NetMade DEF Init, Types
<1>4. ASSUME NEW c \in Client PROVE Fits(c)
  <2>1. /\ run[c] = Idle /\ net[c] = Quiet /\ Quiet.st = "none" /\ recent[c] = <<>>
        /\ putting[c] = {} /\ store[c] = {} /\ fresh[c] = {} /\ churn = {} /\ srvset = {}
    BY <1>4, NetMade DEF Init
  <2>2. StageFits(c)
    BY <2>1, IdleMade DEF StageFits
  <2>3. TakenFits(c)
    BY <1>1, <2>1, IdleMade DEF TakenFits
  <2>4. EphFits(c)
    BY <1>4 DEF EphFits, Init
  <2>5. WalkFits(c)
    BY <2>1, IdleMade DEF WalkFits
  <2>6. ChurnFits(c)
    BY <2>1, IdleMade DEF ChurnFits, CalmFits
  <2>7. QED
    BY <2>2, <2>3, <2>4, <2>5, <2>6 DEF Fits
<1>5. QED
  BY <1>3, <1>4 DEF Init, IndInv

(* Every step keeps it.                                                    *)
LEMMA InvStep ==
    ASSUME IndInv, [Next]_vars
    PROVE  IndInv'
<1>1. CASE UNCHANGED vars
  <2>1. /\ srv' = srv /\ srvset' = srvset /\ store' = store /\ putting' = putting
        /\ recent' = recent /\ lastTs' = lastTs /\ reg' = reg /\ ever' = ever /\ ended' = ended
        /\ run' = run /\ net' = net /\ stray' = stray /\ fresh' = fresh /\ churn' = churn
    BY <1>1 DEF vars, server, local, belief, history
  <2>2. Types'
    BY <2>1 DEF IndInv, Types
  <2>3. ASSUME NEW c \in Client PROVE Fits(c)'
    <3>1. Fits(c)
      BY <2>3 DEF IndInv
    <3>2. StageFits(c)' /\ TakenFits(c)' /\ EphFits(c)' /\ WalkFits(c)'
      BY <2>1, <3>1 DEF Fits, StageFits, TakenFits, EphFits, WalkFits, Got
    <3>3. ChurnFits(c)'
      BY <2>1, <3>1 DEF Fits, ChurnFits, CalmFits, Got
    <3>4. QED
      BY <3>2, <3>3 DEF Fits
  <2>4. QED
    BY <2>1, <2>2, <2>3 DEF IndInv
<1>2. ASSUME NEW c \in Client, NEW e \in Entry, Put(c, e) PROVE IndInv'
  BY <1>2, PutKeeps
<1>3. ASSUME NEW c \in Client, Record(c) PROVE IndInv'
  BY <1>3, RecordKeeps
<1>4. ASSUME NEW c \in Client, SyncBegins(c) PROVE IndInv'
  BY <1>4, SyncBeginsKeeps
<1>5. ASSUME NEW c \in Client, FirstRound(c) PROVE IndInv'
  BY <1>5, FirstRoundKeeps
<1>6. ASSUME NEW c \in Client, DropBegins(c) PROVE IndInv'
  BY <1>6, DropBeginsKeeps
<1>7. ASSUME NEW c \in Client, Receive(c) PROVE IndInv'
  BY <1>7, ReceiveRegisterKeeps, ReceiveUnknownKeeps, ReceiveProbeKeeps, ReceivePullKeeps,
     ReceivePushKeeps, ReceiveDropKeeps DEF Receive
<1>8. ASSUME NEW c \in Client, Answer(c) PROVE IndInv'
  BY <1>8, AnswerKeeps
<1>9. ASSUME NEW c \in Client, Refuse(c) PROVE IndInv'
  BY <1>9, RefuseKeeps
<1>10. ASSUME NEW c \in Client, TransportFails(c) PROVE IndInv'
  BY <1>10, TransportFailsKeeps
<1>11. ASSUME NEW c \in Client, Restart(c) PROVE IndInv'
  BY <1>11, RestartKeeps
<1>12. ASSUME NEW m \in stray, AnswerStray(m) PROVE IndInv'
  BY <1>12, AnswerStrayKeeps
<1>13. CASE Expire
  BY <1>13, LostKeeps DEF Expire
<1>14. CASE Forget
  BY <1>14, LostKeeps DEF Forget
<1>15. QED
  BY <1>1, <1>2, <1>3, <1>4, <1>5, <1>6, <1>7, <1>8, <1>9, <1>10, <1>11, <1>12, <1>13, <1>14 DEF Next

(* Sync's inductive invariant holds of every behaviour.                    *)
THEOREM Invariance == Spec => []IndInv
<1>1. Init => IndInv
  BY InitInv
<1>2. IndInv /\ [Next]_vars => IndInv'
  BY InvStep
<1>3. QED
  BY <1>1, <1>2, PTL DEF Spec

(* Client.Sync and Drop keep their fields typed, and a client waits on the *)
(* transport exactly from a request to its answer.                         *)
THEOREM TypeCorrect == Spec => []TypeOK
<1>1. IndInv => TypeOK
  <2>1. SUFFICES ASSUME IndInv PROVE TypeOK
    OBVIOUS
  <2>2. Types
    BY <2>1 DEF IndInv
  <2>3. ASSUME NEW c \in Client
        PROVE  /\ run[c].stage \in {"idle", "register", "begin", "fast", "probe", "pull", "reprobe",
                                     "push", "drop"}
               /\ run[c].round \in 0..(MaxRounds - 1)
               /\ run[c].anchor \in 0..MaxEntry
               /\ (run[c].stage \in {"idle", "begin"}) <=> (net[c].st = "none")
               /\ net[c].st # "none" => net[c].msg \in Message
    <3>1. run[c] \in RunState /\ net[c] \in NetState /\ StageFits(c)
      BY <2>1, <2>2, <2>3 DEF Types, IndInv, Fits
    <3>2. QED
      BY <3>1, RunForms, NetForms DEF StageNames, StageFits
  <2>4. QED
    BY <2>2, <2>3 DEF Types, TypeOK
<1>2. QED
  BY <1>1, Invariance, PTL

(* A failed Sync loses nothing: an entry whose Put returned and that the   *)
(* server never had is in recent whenever no Sync runs (Client.Sync's      *)
(* deferred restore of recent).                                            *)
THEOREM FailedSyncLosesNothing == Spec => []RecentCovers
<1>1. ASSUME IndInv, NEW c \in Client, run[c].stage = "idle"
      PROVE  fresh[c] \subseteq ToSet(recent[c])
  <2>1. TakenFits(c) /\ run[c].taken = <<>>
    BY <1>1 DEF IndInv, Fits, StageFits
  <2>2. ToSet(<<>>) = {}
    BY DEF ToSet
  <2>3. QED
    BY <2>1, <2>2 DEF TakenFits
<1>2. TypeOK /\ IndInv => RecentCovers
  BY <1>1 DEF RecentCovers
<1>3. QED
  BY <1>2, Invariance, TypeCorrect, PTL

(* pullFrom leaves out nothing of the set the server had when the walk     *)
(* began, from the anchor on, for any page size and number of pages.       *)
THEOREM PullLeavesNothing == Spec => []PullWalkComplete
<1>1. IndInv => PullWalkComplete
  BY DEF IndInv, Fits, WalkFits, PullWalkComplete
<1>2. QED
  BY <1>1, Invariance, PTL

(* unknownVault: a client that registered an ephemeral vault never sends   *)
(* REGISTER for it again.                                                  *)
THEOREM RegistersOnce == Spec => []EphemeralOnce
<1>1. IndInv => EphemeralOnce
  BY DEF IndInv, Fits, EphFits, EphemeralOnce
<1>2. QED
  BY <1>1, Invariance, PTL

(* Client.Sync gets past the third round's PROBE, and so can give up with  *)
(* ErrSyncStuck, only if another hand changed a set while it ran: true for *)
(* any look-back window, page size, number of rounds and entries.  Track   *)
(* makes the model keep the histories the statement reads.                 *)
THEOREM UndisturbedSyncEnds ==
    ASSUME Track
    PROVE  Spec => []StuckNeedsChurn
<1>1. IndInv => StuckNeedsChurn
  BY DEF IndInv, Fits, ChurnFits, CalmFits, StuckNeedsChurn
<1>2. QED
  BY <1>1, Invariance, PTL
=============================================================================
