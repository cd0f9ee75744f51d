-------------------------------- MODULE Wait --------------------------------
(***************************************************************************)
(* kv/server: WAITs held open on one vault (handleWait), the writers that  *)
(* wake them (notifyLocked), and Drain and Close.                          *)
(*                                                                         *)
(* A WAIT reads the vault's set and the channel "changed" under the vault  *)
(* lock, lets the lock go, and sleeps on the channel.  notifyLocked closes *)
(* the channel and puts a fresh one in its place, so a channel is known by *)
(* the WAITs that sleep on it: listening are those that hold the one not   *)
(* yet closed.  Set hashes compare sets (DESIGN.t, the set hash), so a set *)
(* stands for its own hash.                                                *)
(***************************************************************************)
EXTENDS Naturals, FiniteSets

CONSTANTS
    Req,        \* requests in flight at once
    Entry       \* entries

ASSUME WaitConstants == Req # {} /\ IsFiniteSet(Req)

VARIABLES
    set,        \* the entries of the vault's store
    gone,       \* vaultState.gone
    stClosed,   \* vaultState.closed
    closing,    \* the channel Server.closing is closed
    listening,  \* WAITs that hold the present vaultState.changed
    cancelled,  \* requests whose context is done
    req         \* each request: where it is, and the set a WAIT asked about

vault == <<set, gone, stClosed>>
waitVars == <<vault, closing, listening, cancelled, req>>

NoRequest == [pc |-> "none", want |-> {}]
Request == [pc : {"none", "enter", "held", "woken", "busy"}, want : SUBSET Entry]

WaitTypeOK ==
    /\ set \in SUBSET Entry
    /\ gone \in BOOLEAN
    /\ stClosed \in BOOLEAN
    /\ closing \in BOOLEAN
    /\ listening \in SUBSET Req
    /\ cancelled \in SUBSET Req
    /\ req \in [Req -> Request]

WaitInit ==
    /\ set = {}
    /\ gone = FALSE
    /\ stClosed = FALSE
    /\ closing = FALSE
    /\ listening = {}
    /\ cancelled = {}
    /\ req = [r \in Req |-> NoRequest]

At(r, pc) == req[r].pc = pc
Goto(r, pc) == req' = [req EXCEPT ![r].pc = pc]
Respond(r) ==
    /\ req' = [req EXCEPT ![r] = NoRequest]
    /\ cancelled' = cancelled \ {r}

(* A WAIT arrives with the hash of the client's set; its context may be    *)
(* done already, when the server's own is.                                 *)
Arrive(r, want, done) ==
    /\ At(r, "none")
    /\ req' = [req EXCEPT ![r] = [pc |-> "enter", want |-> want]]
    /\ cancelled' = IF done THEN cancelled \cup {r} ELSE cancelled
    /\ UNCHANGED <<vault, closing, listening>>

(* Mutation of WaitEnter: the channel is read after the lock is let go.    *)
WaitEnterLate(r) ==
    \/ /\ At(r, "enter")
       /\ IF gone \/ stClosed \/ set # req[r].want
          THEN Respond(r)
          ELSE Goto(r, "busy") /\ UNCHANGED cancelled
       /\ UNCHANGED <<vault, closing, listening>>
    \/ /\ At(r, "busy")
       /\ Goto(r, "held")
       /\ listening' = listening \cup {r}
       /\ UNCHANGED <<vault, closing, cancelled>>

(* handleWait up to its select, under the vault lock: UNKNOWN_VAULT, OK of *)
(* a closed server or DIFFER at once, else the present channel is taken.   *)
WaitEnter(r) ==
    /\ At(r, "enter")
    /\ IF gone \/ stClosed \/ set # req[r].want
       THEN Respond(r) /\ UNCHANGED listening
       ELSE /\ Goto(r, "held")
            /\ listening' = listening \cup {r}
            /\ UNCHANGED cancelled
    /\ UNCHANGED <<vault, closing>>

(* Mutation of WaitWake: the select leaves out the request's context.      *)
WaitWakeNoContext(r) ==
    /\ At(r, "held")
    /\ r \notin listening \/ closing
    /\ Goto(r, "woken")
    /\ listening' = listening \ {r}
    /\ UNCHANGED <<vault, closing, cancelled>>

(* The select: the channel, Server.closing or the context ...              *)
WaitWake(r) ==
    /\ At(r, "held")
    /\ r \notin listening \/ closing \/ r \in cancelled
    /\ Goto(r, "woken")
    /\ listening' = listening \ {r}
    /\ UNCHANGED <<vault, closing, cancelled>>

(* ... or WaitMaxMs.                                                       *)
WaitTimeout(r) ==
    /\ At(r, "held")
    /\ Goto(r, "woken")
    /\ listening' = listening \ {r}
    /\ UNCHANGED <<vault, closing, cancelled>>

(* handleWait after the select: an answer in every case.                   *)
WaitAnswer(r) ==
    /\ At(r, "woken")
    /\ Respond(r)
    /\ UNCHANGED <<vault, closing, listening>>

(* The connection closes: net/http ends the request's context.             *)
Disconnect(r) ==
    /\ ~At(r, "none")
    /\ cancelled' = cancelled \cup {r}
    /\ UNCHANGED <<vault, closing, listening, req>>

-----------------------------------------------------------------------------
Notify == listening' = {}

(* addValidatedLocked, of a PUSH or AddEntries: a closed store refuses.    *)
AddEntries(es) ==
    /\ ~gone /\ ~stClosed
    /\ set' = set \cup es
    /\ IF set' # set THEN Notify ELSE UNCHANGED listening
    /\ UNCHANGED <<gone, stClosed, closing, cancelled, req>>

(* endLocked, by expiry, a DROP or the owner.                              *)
EndVault ==
    /\ ~gone
    /\ gone' = TRUE
    /\ Notify
    /\ UNCHANGED <<set, stClosed, closing, cancelled, req>>

Drain ==
    /\ closing' = TRUE
    /\ UNCHANGED <<vault, listening, cancelled, req>>

(* Server.Close: Drain, then every store is closed; a vault that has ended *)
(* is not in the map any more.                                             *)
Close ==
    /\ closing' = TRUE
    /\ stClosed' = (stClosed \/ ~gone)
    /\ UNCHANGED <<set, gone, listening, cancelled, req>>

Handler(r) == WaitEnter(r) \/ WaitWake(r) \/ WaitAnswer(r)

WaitNext ==
    \/ \E r \in Req :
          \/ \E want \in SUBSET Entry : Arrive(r, want, FALSE)
          \/ Handler(r) \/ WaitTimeout(r) \/ Disconnect(r)
    \/ \E es \in SUBSET Entry : AddEntries(es)
    \/ EndVault \/ Drain \/ Close

WaitSpec == WaitInit /\ [][WaitNext]_waitVars

-----------------------------------------------------------------------------
(* No wake-up is lost.  A WAIT that sleeps on the present channel asked    *)
(* about the set the vault has now, and the vault has not ended: whatever  *)
(* changed between its comparison and its sleep closed its channel.        *)
NoLostWakeup ==
    \A r \in listening : At(r, "held") /\ req[r].want = set /\ ~gone
=============================================================================
