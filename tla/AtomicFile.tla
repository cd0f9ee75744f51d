----------------------------- MODULE AtomicFile -----------------------------
(***************************************************************************)
(* What the users of durable rely on, seen from outside: a file that is    *)
(* replaced whole, one version after another.  Version 0 is the absent     *)
(* file.  A call that returns nil has made its version, or a later one,    *)
(* permanent; one that fails may have replaced the file or not, and then a *)
(* power loss may bring an earlier version back, though none from before   *)
(* an acknowledged one.  Durable is shown to implement this module;        *)
(* VaultServer and KvCommand take these outcomes for their files.          *)
(***************************************************************************)
EXTENDS Naturals

VARIABLES
    version,    \* what a reader finds
    fallback,   \* the versions that a power loss may leave
    acked,      \* the latest version a call returned nil for
    created     \* CreateFile calls that returned nil

vars == <<version, fallback, acked, created>>

TypeOK ==
    /\ version \in Nat
    /\ fallback \in SUBSET Nat
    /\ acked \in Nat
    /\ created \in {0, 1}

Init ==
    /\ version = 0
    /\ fallback = {0}
    /\ acked = 0
    /\ created = 0

(* The file is replaced by a version newer than any it may have been.      *)
Replace ==
    /\ version' \in Nat
    /\ \A m \in fallback : m < version'
    /\ fallback' = fallback \cup {version'}
    /\ UNCHANGED <<acked, created>>

(* What is there is made permanent, and a call that wrote it, or an older  *)
(* version that it overtook, returns nil: the only CreateFile to do so, if *)
(* it is one.                                                              *)
Confirm ==
    /\ fallback' = {version}
    /\ acked' \in acked..version
    /\ created' = created \/ (created = 0 /\ created' = 1)
    /\ UNCHANGED version

PowerLoss ==
    /\ version' \in fallback
    /\ fallback' = {version'}
    /\ UNCHANGED <<acked, created>>

Next == Replace \/ Confirm \/ PowerLoss

Spec == Init /\ [][Next]_vars
=============================================================================
