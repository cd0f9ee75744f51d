------------------------------- MODULE KvServe -------------------------------
(***************************************************************************)
(* kvserve: kiosk.Serve around kv/server.  The goroutine of Serve binds,   *)
(* announces READY, waits for a signal or for the listener to fail, shuts  *)
(* the http.Server down within ShutdownGrace and calls Config.Close; the   *)
(* WAITs of module Wait and other requests are in flight meanwhile.        *)
(*                                                                         *)
(* The http.Server is external: Shutdown closes the listener, runs         *)
(* Config.Drain on a goroutine of its own (RegisterOnShutdown) and returns *)
(* once no request is in flight, or at the end of the grace.  Until then a *)
(* connection accepted earlier may still bring a request.                  *)
(***************************************************************************)
EXTENDS Wait

VARIABLES
    phase,      \* where Serve is
    sig,        \* its context is done: SIGINT, SIGTERM or the caller's
    listener,   \* "none", "open", "failed" or "closed"
    drain,      \* Config.Drain: "no", "due" or "done"
    status,     \* the last line sent to the service manager
    first,      \* the error Serve will return: its first
    conns       \* during Shutdown, connections that may bring a last request

serveVars == <<phase, sig, listener, drain, status, first, conns>>
vars == <<waitVars, serveVars>>

Phases == {"signals", "listen", "ready", "select", "stopping", "shutdown",
           "close", "killed", "returned", "refused"}

KvServeTypeOK ==
    /\ WaitTypeOK
    /\ phase \in Phases
    /\ sig \in BOOLEAN
    /\ listener \in {"none", "open", "failed", "closed"}
    /\ drain \in {"no", "due", "done"}
    /\ status \in {"none", "READY", "STOPPING"}
    /\ first \in {"nil", "serve", "shutdown", "close"}
    /\ conns \in SUBSET Req

Init ==
    /\ WaitInit
    /\ phase = "signals"
    /\ sig = FALSE
    /\ listener = "none"
    /\ drain = "no"
    /\ status = "none"
    /\ first = "nil"
    /\ conns = {}

Running == phase \notin {"killed", "returned", "refused"}
InFlight == {r \in Req : ~At(r, "none")}

-----------------------------------------------------------------------------
(* A signal: before the handler is installed it kills the process; after,  *)
(* it ends the context of Serve and, through BaseContext, of every request.*)
Signal ==
    /\ Running
    /\ ~sig
    /\ sig' = TRUE
    /\ IF phase = "signals"
       THEN phase' = "killed" /\ UNCHANGED cancelled
       ELSE cancelled' = cancelled \cup InFlight /\ UNCHANGED phase
    /\ UNCHANGED <<vault, closing, listening, req, listener, drain, status, first, conns>>

(* signal.NotifyContext, before the listener exists.                       *)
InstallSignals ==
    /\ phase = "signals"
    /\ phase' = "listen"
    /\ UNCHANGED <<waitVars, sig, listener, drain, status, first, conns>>

(* Mutation of Listen: a signal already received keeps Serve from binding, *)
(* and it returns without Config.Close.                                    *)
ListenOrLeave ==
    /\ phase = "listen"
    /\ IF sig
       THEN phase' = "returned" /\ UNCHANGED listener
       ELSE phase' = "ready" /\ listener' = "open"
    /\ UNCHANGED <<waitVars, sig, drain, status, first, conns>>

(* net.Listen; a failure to bind is returned, and nothing is closed.       *)
Listen ==
    /\ phase = "listen"
    /\ \/ phase' = "ready" /\ listener' = "open"
       \/ phase' = "refused" /\ UNCHANGED listener
    /\ UNCHANGED <<waitVars, sig, drain, status, first, conns>>

NotifyReady ==
    /\ phase = "ready"
    /\ status' = "READY"
    /\ phase' = "select"
    /\ UNCHANGED <<waitVars, sig, listener, drain, first, conns>>

(* The select: the context is done, or srv.Serve returned.                 *)
Select ==
    /\ phase = "select"
    /\ \/ sig /\ UNCHANGED first
       \/ listener = "failed" /\ first' = "serve"
    /\ status' = "STOPPING"
    /\ phase' = "stopping"
    /\ UNCHANGED <<waitVars, sig, listener, drain, conns>>

(* srv.Shutdown begins.                                                    *)
ShutdownBegins ==
    /\ phase = "stopping"
    /\ phase' = "shutdown"
    /\ listener' = "closed"
    /\ drain' = "due"
    /\ conns' \in SUBSET {r \in Req : At(r, "none")}
    /\ UNCHANGED <<waitVars, sig, status, first>>

(* Mutation of RunDrain: Config.Drain is never registered.                 *)
RunDrainUnset ==
    /\ drain = "due" /\ Running
    /\ drain' = "done"
    /\ UNCHANGED <<waitVars, phase, sig, listener, status, first, conns>>

RunDrain ==
    /\ drain = "due" /\ Running
    /\ drain' = "done"
    /\ Drain
    /\ UNCHANGED <<phase, sig, listener, status, first, conns>>

(* It returns when it finds no request in flight ...                       *)
ShutdownReturns ==
    /\ phase = "shutdown"
    /\ InFlight = {}
    /\ phase' = "close"
    /\ UNCHANGED <<waitVars, sig, listener, drain, status, first, conns>>

FirstError(e) == first' = IF first = "nil" THEN e ELSE first

(* Mutation of GraceExpires: the error of Shutdown is not looked at.       *)
GraceExpiresQuietly ==
    /\ phase = "shutdown"
    /\ InFlight # {}
    /\ phase' = "close"
    /\ UNCHANGED <<waitVars, sig, listener, drain, status, first, conns>>

(* ... or, with an error, when ShutdownGrace has passed; the requests go   *)
(* on.                                                                     *)
GraceExpires ==
    /\ phase = "shutdown"
    /\ InFlight # {}
    /\ phase' = "close"
    /\ FirstError("shutdown")
    /\ UNCHANGED <<waitVars, sig, listener, drain, status, conns>>

(* Config.Close, whatever Shutdown said; then Serve returns and kvserve    *)
(* exits.                                                                  *)
CallClose ==
    /\ phase = "close"
    /\ Close
    /\ UNCHANGED first \/ FirstError("close")
    /\ phase' = "returned"
    /\ UNCHANGED <<sig, listener, drain, status, conns>>

ListenerFails ==
    /\ phase \in {"ready", "select"}
    /\ listener = "open"
    /\ listener' = "failed"
    /\ UNCHANGED <<waitVars, phase, sig, drain, status, first, conns>>

-----------------------------------------------------------------------------
(* Requests: accepted while the listener was open, served by srv.Serve.    *)
Accepts(r) ==
    /\ phase \in {"select", "stopping"} \/ (phase = "shutdown" /\ r \in conns)
    /\ conns' = conns \ {r}
    /\ UNCHANGED <<phase, sig, listener, drain, status, first>>

ArriveWait(r) ==
    /\ Accepts(r)
    /\ \E want \in SUBSET Entry : Arrive(r, want, sig)

ArriveSlow(r) ==
    /\ Accepts(r) /\ At(r, "none")
    /\ Goto(r, "busy")
    /\ UNCHANGED <<vault, closing, listening, cancelled>>

FinishSlow(r) ==
    /\ At(r, "busy") /\ Running
    /\ Respond(r)
    /\ UNCHANGED <<vault, closing, listening, serveVars>>

Handle(r) == Running /\ Handler(r) /\ UNCHANGED serveVars

(* A PUSH, or what ends the vault, is a request too, served in one step.   *)
Serving == phase \in {"select", "stopping", "shutdown", "close"}

Push ==
    /\ Serving
    /\ \E es \in SUBSET Entry : AddEntries(es)
    /\ UNCHANGED serveVars

TimeOut(r) == Running /\ WaitTimeout(r) /\ UNCHANGED serveVars
End == Serving /\ EndVault /\ UNCHANGED serveVars
Hangup(r) == Running /\ Disconnect(r) /\ UNCHANGED serveVars

ServeStep ==
    \/ InstallSignals \/ Listen \/ NotifyReady \/ Select
    \/ ShutdownBegins \/ ShutdownReturns \/ CallClose

Next ==
    \/ ServeStep \/ RunDrain \/ GraceExpires \/ Signal \/ ListenerFails
    \/ \E r \in Req :
          ArriveWait(r) \/ ArriveSlow(r) \/ FinishSlow(r) \/ Handle(r) \/ TimeOut(r) \/ Hangup(r)
    \/ Push \/ End

Spec == Init /\ [][Next]_vars

(* Goroutines run.  Timers are not counted on, neither WaitMaxMs nor the   *)
(* grace, but for what only the grace can do: cut off a request that takes *)
(* as long as it likes.                                                    *)
CutOff == GraceExpires /\ \E r \in Req : At(r, "busy")

FairSpec ==
    /\ Spec
    /\ WF_vars(ServeStep) /\ WF_vars(RunDrain) /\ WF_vars(CutOff)
    /\ \A r \in Req : WF_vars(Handle(r))

-----------------------------------------------------------------------------
(* Serve returning nil means that every request was answered before the   *)
(* stores were closed: a request cut off by the grace is reported.         *)
NilMeansDrained == phase = "returned" /\ first = "nil" => InFlight = {}

(* A held WAIT is answered once the set differs, the vault ends, the       *)
(* server drains or its context ends, without waiting for WaitMaxMs.       *)
WakeAnswers ==
    \A r \in Req :
        At(r, "held") /\ (set # req[r].want \/ gone \/ closing \/ r \in cancelled)
            ~> ~At(r, "held") \/ ~Running

(* DESIGN.t: "A stop does not wait out the WAITs".  Once a signal arrives  *)
(* or the listener fails, Serve returns with the stores closed, and only a *)
(* request of another kind makes it wait for a timer: held WAITs are       *)
(* answered, also those that arrive late.                                  *)
StopsWithoutTimers ==
    phase = "select" /\ (sig \/ listener = "failed")
        ~> phase = "returned" /\ (stClosed \/ gone)

(* A signal at any moment after the handler is installed, in the startup   *)
(* window too, leads to an orderly stop: the listener closed, the stores   *)
(* closed, the service manager told; requests that never finish delay it   *)
(* by the grace at most.                                                   *)
SignalStops ==
    sig /\ phase \notin {"signals", "killed"}
        ~> \/ phase = "refused"
           \/ /\ phase = "returned" /\ status = "STOPPING"
              /\ listener = "closed" /\ (stClosed \/ gone)
=============================================================================
