------------------------------ MODULE QueryPlan ------------------------------
(***************************************************************************)
(* What the merging module promises for one query: the works of the query    *)
(* form a plan; the table of a scan work collects the rows the CSDs find and *)
(* is finished when it has them all; a merging work derives its table from   *)
(* the finished tables it reads; the query is answered, once, with the       *)
(* finished table of the last work.  Nothing is said of threads, locks,      *)
(* queues or batches.                                                        *)
(***************************************************************************)
EXTENDS Naturals

CONSTANTS PlanWorks,   \* the works of the query
          Inputs,      \* [PlanWorks -> the works it reads]: {} for a scan
          RowsFound,   \* [scan works -> the rows that the CSDs find]
          Cut,         \* the merging works with a limit clause
          LastWork     \* the work whose table answers the query

VARIABLES table,       \* the rows of each table so far
          finished,    \* the works whose table is finished
          answered,    \* has the query been answered?
          reply        \* the rows it was answered with

planVars == <<table, finished, answered, reply>>

PlanInit ==
  /\ table = [w \in PlanWorks |-> {}]
  /\ finished = {}
  /\ answered = FALSE
  /\ reply = {}

Collect(w) ==
  /\ Inputs[w] = {}
  /\ w \notin finished
  /\ \E new \in SUBSET (RowsFound[w] \ table[w]) :
       /\ new # {}
       /\ table' = [table EXCEPT ![w] = @ \cup new]
  /\ UNCHANGED <<finished, answered, reply>>

Finish(w) ==
  /\ Inputs[w] = {}
  /\ w \notin finished
  /\ table[w] = RowsFound[w]
  /\ finished' = finished \cup {w}
  /\ UNCHANGED <<table, answered, reply>>

Derive(w) ==
  LET input == UNION {table[v] : v \in Inputs[w]}
  IN  /\ Inputs[w] # {}
      /\ w \notin finished
      /\ Inputs[w] \subseteq finished
      /\ \E kept \in SUBSET input :
           /\ w \in Cut \/ kept = input
           /\ table' = [table EXCEPT ![w] = kept]
      /\ finished' = finished \cup {w}
      /\ UNCHANGED <<answered, reply>>

Reply ==
  /\ ~ answered
  /\ LastWork \in finished
  /\ answered' = TRUE
  /\ reply' = table[LastWork]
  /\ UNCHANGED <<table, finished>>

PlanNext == (\E w \in PlanWorks : Collect(w) \/ Finish(w) \/ Derive(w)) \/ Reply

PlanSpec == PlanInit /\ [][PlanNext]_planVars /\ WF_planVars(PlanNext)
==============================================================================
