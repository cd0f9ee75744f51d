------------------------------ MODULE EntrySet ------------------------------
(***************************************************************************)
(* What kv/store promises of a durable Store, seen from outside: a set of  *)
(* entries that Add grows, that an Add which returned nil never loses, and *)
(* that never shows an entry nobody offered.  A call that failed, or that  *)
(* a crash interrupted, leaves its entries undecided: the next open may or *)
(* may not show them.  LogStore is shown to implement this module.         *)
(***************************************************************************)

CONSTANT Entry      \* the entries a vault may hold

VARIABLES
    offered,        \* entries some Add was called with
    committed,      \* entries some Add returned nil for, having written them
    shown,          \* the set the open store shows; {} while it is closed
    isOpen          \* some process has the store open

vars == <<offered, committed, shown, isOpen>>

TypeOK ==
    /\ offered \in SUBSET Entry
    /\ committed \in SUBSET Entry
    /\ shown \in SUBSET Entry
    /\ isOpen \in BOOLEAN

Init ==
    /\ offered = {}
    /\ committed = {}
    /\ shown = {}
    /\ isOpen = FALSE

Open ==
    /\ ~isOpen
    /\ isOpen' = TRUE
    /\ \E S \in SUBSET offered : committed \subseteq S /\ shown' = S
    /\ UNCHANGED <<offered, committed>>

(* A call begins: from here a crash may leave its entries in the store.    *)
Offer ==
    /\ isOpen
    /\ \E S \in SUBSET Entry : offered' = offered \cup S
    /\ UNCHANGED <<committed, shown, isOpen>>

Commit ==
    /\ isOpen
    /\ \E S \in SUBSET offered :
          /\ committed' = committed \cup S
          /\ shown' = shown \cup S
    /\ UNCHANGED <<offered, isOpen>>

(* Close, or the process or the machine dying.                             *)
Shut ==
    /\ isOpen
    /\ isOpen' = FALSE
    /\ shown' = {}
    /\ UNCHANGED <<offered, committed>>

Next == Open \/ Offer \/ Commit \/ Shut

Spec == Init /\ [][Next]_vars
=============================================================================
