------------------------------ MODULE EventLog ------------------------------
(***************************************************************************)
(* What the worker and the server together promise of a log whose entries  *)
(* are made in one process and recorded by another.  A bounded buffer      *)
(* keeps the newest entries waiting, reading them does not remove them,    *)
(* and only a restart of the process that makes them empties the buffer.   *)
(***************************************************************************)
EXTENDS Naturals, FiniteSets

CONSTANTS
    Capacity,    \* entries the buffer holds
    Bound        \* entries ever made, a bound for the model checker

VARIABLES
    running,     \* the process that makes the entries runs
    logged,      \* how many entries were made; they are numbered from 1
    waiting,     \* the entries in the buffer
    recorded     \* the entries in the database

vars == <<running, logged, waiting, recorded>>

Init ==
    /\ running = TRUE
    /\ logged = 0
    /\ waiting = {}
    /\ recorded = {}

(* A deque of maxlen n: the entries with fewer than n newer ones. *)
Newest(entries, n) ==
    { e \in entries : Cardinality({f \in entries : f > e}) < n }

Log ==
    /\ running /\ logged < Bound
    /\ logged' = logged + 1
    /\ waiting' = Newest(waiting \cup {logged'}, Capacity)
    /\ UNCHANGED <<running, recorded>>

(* Entries read some time ago are recorded, for good. *)
Record ==
    /\ \E entries \in SUBSET (1..logged) : recorded' = recorded \cup entries
    /\ UNCHANGED <<running, logged, waiting>>

(* Stopping or starting the process empties the buffer; nothing else does. *)
Restart ==
    /\ running' = ~ running
    /\ waiting' = {}
    /\ UNCHANGED <<logged, recorded>>

Next == Log \/ Record \/ Restart

SafeSpec == Init /\ [][Next]_vars

(* An entry is recorded, unless newer ones or a restart push it out first. *)
Delivered == \A e \in 1..Bound : e \in waiting ~> e \in recorded \/ e \notin waiting

Spec == SafeSpec /\ Delivered
=============================================================================
