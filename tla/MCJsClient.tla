----------------------------- MODULE MCJsClient -----------------------------
EXTENDS JsClient, TLC

CONSTANTS t1, t2

MCKeyOf == [e \in Entry |-> "k"]
(* Syncs beside another tab that writes and dies; one tab that drops its   *)
(* vault; reads beside writes of both tabs; a database deleted under a tab. *)
MCPages ==
    {t1 :> {"open", "put", "sync", "close"} @@ t2 :> {"open", "put", "kill"},
     t1 :> {"open", "put", "sync", "drop", "kill"} @@ t2 :> {},
     t1 :> {"open", "put", "read", "wait"} @@ t2 :> {"open", "put", "kill"},
     t1 :> {"open", "put", "sync"} @@ t2 :> {"destroy", "open"}}
=============================================================================
