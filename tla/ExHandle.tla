------------------------------ MODULE ExHandle ------------------------------
(***************************************************************************)
(* The threads that use a handle table (ex/handle.c) and where each of them  *)
(* is: what the modules of the table's parts share.                         *)
(***************************************************************************)
EXTENDS Integers, FiniteSets

CONSTANTS Threads, NULL

VARIABLE pc     \* the next step of each thread

Goto(t, label) == pc' = [pc EXCEPT ![t] = label]
=============================================================================
