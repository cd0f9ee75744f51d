--------------------------- MODULE KvServe_proofs ---------------------------
(***************************************************************************)
(* Proofs about WAITs, by themselves (Wait) and inside kvserve (KvServe),  *)
(* for any number of requests in flight and any entries.                   *)
(***************************************************************************)
EXTENDS KvServe, TLAPS

(* The inductive invariant of the WAITs: their types, and NoLostWakeup.    *)
WaitInv == WaitTypeOK /\ NoLostWakeup

(* A server that has just started holds no WAIT.                           *)
LEMMA WaitInitInv == WaitInit => WaitInv
<1>1. SUFFICES ASSUME WaitInit PROVE WaitInv
  OBVIOUS
<1>2. NoRequest \in Request
  BY DEF NoRequest, Request
<1>3. WaitTypeOK
  BY <1>1, <1>2 DEF WaitInit, WaitTypeOK
<1>4. NoLostWakeup
  BY <1>1 DEF WaitInit, NoLostWakeup
<1>5. QED
  BY <1>3, <1>4 DEF WaitInv

(* A WAIT that arrives is not listening yet.                               *)
LEMMA ArriveInv ==
    ASSUME WaitInv, NEW r \in Req, NEW want \in SUBSET Entry, NEW done \in BOOLEAN,
           Arrive(r, want, done)
    PROVE  WaitInv'
<1>1. r \notin listening
  BY DEF WaitInv, NoLostWakeup, Arrive, At
<1>2. WaitTypeOK'
  BY DEF WaitInv, WaitTypeOK, Arrive, vault, Request
<1>3. NoLostWakeup'
  BY <1>1 DEF WaitInv, WaitTypeOK, NoLostWakeup, Arrive, At, vault, Request
<1>4. QED
  BY <1>2, <1>3 DEF WaitInv

(* handleWait: what it compared under the lock still holds when it sleeps. *)
LEMMA HandlerInv ==
    ASSUME WaitInv, NEW r \in Req, Handler(r) \/ WaitTimeout(r)
    PROVE  WaitInv'
<1> USE DEF WaitInv, WaitTypeOK, NoLostWakeup, At, Goto, Respond, vault, NoRequest, Request
<1>1. CASE WaitEnter(r)
  BY <1>1 DEF WaitEnter
<1>2. CASE WaitWake(r)
  BY <1>2 DEF WaitWake
<1>3. CASE WaitAnswer(r)
  BY <1>3 DEF WaitAnswer
<1>4. CASE WaitTimeout(r)
  BY <1>4 DEF WaitTimeout
<1>5. QED
  BY <1>1, <1>2, <1>3, <1>4 DEF Handler

(* A closed connection moves no WAIT.                                      *)
LEMMA DisconnectInv ==
    ASSUME WaitInv, NEW r \in Req, Disconnect(r)
    PROVE  WaitInv'
BY DEF WaitInv, WaitTypeOK, NoLostWakeup, At, Disconnect, vault

(* Whatever changes the set or ends the vault closes the channel.          *)
LEMMA ChangeInv ==
    ASSUME WaitInv,
           \/ \E es \in SUBSET Entry : AddEntries(es)
           \/ EndVault \/ Drain \/ Close
    PROVE  WaitInv'
<1> USE DEF WaitInv, WaitTypeOK, NoLostWakeup, At, Notify, vault
<1>1. ASSUME NEW es \in SUBSET Entry, AddEntries(es) PROVE WaitInv'
  BY <1>1 DEF AddEntries
<1>2. CASE EndVault
  BY <1>2 DEF EndVault
<1>3. CASE Drain
  BY <1>3 DEF Drain
<1>4. CASE Close
  BY <1>4 DEF Close
<1>5. QED
  BY <1>1, <1>2, <1>3, <1>4

(* A step that leaves the WAITs alone leaves the invariant alone.          *)
LEMMA WaitStutter ==
    ASSUME WaitInv, UNCHANGED waitVars
    PROVE  WaitInv'
BY DEF WaitInv, WaitTypeOK, NoLostWakeup, At, waitVars, vault

(* No wake-up is lost, by the server alone: the comparison, the channel    *)
(* handleWait took and notifyLocked fit together.                          *)
THEOREM WaitSafe == WaitSpec => []NoLostWakeup
<1>1. WaitInv /\ [WaitNext]_waitVars => WaitInv'
  <2>1. SUFFICES ASSUME WaitInv, [WaitNext]_waitVars PROVE WaitInv'
    OBVIOUS
  <2>2. ASSUME NEW r \in Req, NEW want \in SUBSET Entry, Arrive(r, want, FALSE)
        PROVE  WaitInv'
    BY <2>1, <2>2, ArriveInv
  <2>3. ASSUME NEW r \in Req, Handler(r) \/ WaitTimeout(r) PROVE WaitInv'
    BY <2>1, <2>3, HandlerInv
  <2>4. ASSUME NEW r \in Req, Disconnect(r) PROVE WaitInv'
    BY <2>1, <2>4, DisconnectInv
  <2>5. QED
    BY <2>1, <2>2, <2>3, <2>4, ChangeInv, WaitStutter DEF WaitNext
<1>2. WaitInv => NoLostWakeup
  BY DEF WaitInv
<1>3. QED
  BY <1>1, <1>2, WaitInitInv, PTL DEF WaitSpec

-----------------------------------------------------------------------------
(* The inductive invariant of kvserve: that of its WAITs, and that Serve   *)
(* leaves Shutdown without an error only when nothing is in flight.        *)
DrainedInv == phase \in {"close", "returned"} /\ first = "nil" => InFlight = {}
ServeInv == WaitInv /\ sig \in BOOLEAN /\ DrainedInv

(* Steps of Serve that leave the requests alone.                           *)
LEMMA ServeStepInv ==
    ASSUME ServeInv, ServeStep \/ GraceExpires \/ ListenerFails
    PROVE  ServeInv'
<1> USE DEF ServeInv, DrainedInv, InFlight, At
<1>1. CASE InstallSignals
  BY <1>1, WaitStutter DEF InstallSignals, waitVars
<1>2. CASE Listen
  BY <1>2, WaitStutter DEF Listen, waitVars
<1>3. CASE NotifyReady
  BY <1>3, WaitStutter DEF NotifyReady, waitVars
<1>4. CASE Select
  BY <1>4, WaitStutter DEF Select, waitVars
<1>5. CASE ShutdownBegins
  BY <1>5, WaitStutter DEF ShutdownBegins, waitVars
<1>6. CASE ShutdownReturns
  BY <1>6, WaitStutter DEF ShutdownReturns, waitVars
<1>7. CASE CallClose
  <2>1. WaitInv'
    BY <1>7, ChangeInv DEF CallClose
  <2>2. QED
    BY <1>7, <2>1 DEF CallClose, Close, FirstError
<1>8. CASE GraceExpires
  BY <1>8, WaitStutter DEF GraceExpires, FirstError, waitVars
<1>9. CASE ListenerFails
  BY <1>9, WaitStutter DEF ListenerFails, waitVars
<1>10. QED
  BY <1>1, <1>2, <1>3, <1>4, <1>5, <1>6, <1>7, <1>8, <1>9 DEF ServeStep

(* Config.Drain and signals.                                               *)
LEMMA InterruptInv ==
    ASSUME ServeInv, RunDrain \/ Signal
    PROVE  ServeInv'
<1> USE DEF ServeInv, DrainedInv, InFlight, At
<1>1. CASE RunDrain
  <2>1. WaitInv'
    BY <1>1, ChangeInv DEF RunDrain
  <2>2. QED
    BY <1>1, <2>1 DEF RunDrain, Drain
<1>2. CASE Signal
  <2>1. WaitInv'
    BY <1>2 DEF Signal, WaitInv, WaitTypeOK, NoLostWakeup, vault
  <2>2. QED
    BY <1>2, <2>1 DEF Signal
<1>3. QED
  BY <1>1, <1>2

(* Requests come before Shutdown returns, and only ever leave after.       *)
LEMMA RequestInv ==
    ASSUME ServeInv, NEW r \in Req,
           ArriveWait(r) \/ ArriveSlow(r) \/ FinishSlow(r) \/ Handle(r) \/ TimeOut(r) \/ Hangup(r)
    PROVE  ServeInv'
<1> USE DEF ServeInv, DrainedInv, InFlight
<1>1. CASE ArriveWait(r)
  <2>1. WaitInv'
    BY <1>1, ArriveInv DEF ArriveWait
  <2>2. QED
    BY <1>1, <2>1 DEF ArriveWait, Accepts
<1>2. CASE ArriveSlow(r)
  <2>1. r \notin listening
    BY <1>2 DEF ArriveSlow, WaitInv, NoLostWakeup, At
  <2>2. WaitInv'
    BY <1>2, <2>1 DEF ArriveSlow, WaitInv, WaitTypeOK, NoLostWakeup, At, Goto, vault, Request
  <2>3. QED
    BY <1>2, <2>2 DEF ArriveSlow, Accepts
<1>3. CASE FinishSlow(r)
  <2>1. r \notin listening
    BY <1>3 DEF FinishSlow, WaitInv, NoLostWakeup, At
  <2>2. WaitInv'
    BY <1>3, <2>1 DEF FinishSlow, WaitInv, WaitTypeOK, NoLostWakeup, At, Respond, vault, NoRequest, Request
  <2>3. QED
    BY <1>3, <2>2 DEF FinishSlow, Running, serveVars, At
<1>4. CASE Handle(r)
  <2>1. WaitInv'
    BY <1>4, HandlerInv DEF Handle
  <2>2. ~At(r, "none")
    BY <1>4 DEF Handle, Handler, WaitEnter, WaitWake, WaitAnswer, At
  <2>3. QED
    BY <1>4, <2>1, <2>2 DEF Handle, Running, serveVars
<1>5. CASE TimeOut(r)
  <2>1. WaitInv'
    BY <1>5, HandlerInv DEF TimeOut
  <2>2. QED
    BY <1>5, <2>1 DEF TimeOut, WaitTimeout, Running, serveVars, At
<1>6. CASE Hangup(r)
  <2>1. WaitInv'
    BY <1>6, DisconnectInv DEF Hangup
  <2>2. QED
    BY <1>6, <2>1 DEF Hangup, Disconnect, Running, serveVars, At
<1>7. QED
  BY <1>1, <1>2, <1>3, <1>4, <1>5, <1>6

(* A PUSH, or the end of the vault, leaves the requests alone.             *)
LEMMA PushInv ==
    ASSUME ServeInv, Push \/ End
    PROVE  ServeInv'
<1>1. WaitInv'
  BY ChangeInv DEF ServeInv, Push, End
<1>2. QED
  BY <1>1 DEF ServeInv, DrainedInv, InFlight, At, Push, End, AddEntries, EndVault, serveVars

(* The invariant of kvserve is inductive.                                  *)
LEMMA ServeInvariant == Spec => []ServeInv
<1>1. Init => ServeInv
  BY WaitInitInv DEF Init, ServeInv, DrainedInv
<1>2. ServeInv /\ [Next]_vars => ServeInv'
  <2>1. SUFFICES ASSUME ServeInv, [Next]_vars PROVE ServeInv'
    OBVIOUS
  <2>2. CASE UNCHANGED vars
    <3>1. WaitInv'
      BY <2>1, <2>2, WaitStutter DEF ServeInv, vars
    <3>2. QED
      BY <2>1, <2>2, <3>1 DEF ServeInv, DrainedInv, InFlight, At, vars, waitVars, serveVars
  <2>3. QED
    BY <2>1, <2>2, ServeStepInv, InterruptInv, RequestInv, PushInv DEF Next
<1>3. QED
  BY <1>1, <1>2, PTL DEF Spec

(* No wake-up is lost in kvserve either: neither a signal, Drain, the      *)
(* grace nor Close disturbs what handleWait relies on.                     *)
THEOREM ServeWaitSafe == Spec => []NoLostWakeup
<1>1. ServeInv => NoLostWakeup
  BY DEF ServeInv, WaitInv
<1>2. QED
  BY <1>1, ServeInvariant, PTL

(* When Serve returns nil, every request was answered before Config.Close  *)
(* closed the stores.                                                      *)
THEOREM ServeDrained == Spec => []NilMeansDrained
<1>1. ServeInv => NilMeansDrained
  BY DEF ServeInv, DrainedInv, NilMeansDrained
<1>2. QED
  BY <1>1, ServeInvariant, PTL
=============================================================================
