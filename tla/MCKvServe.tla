------------------------------ MODULE MCKvServe ------------------------------
(* Instances of KvServe for TLC.                                           *)
EXTENDS KvServe
=============================================================================
