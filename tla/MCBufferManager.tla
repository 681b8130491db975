--------------------------- MODULE MCBufferManager ---------------------------
(* A join of two scanned tables: the left one is read whole, the right one    *)
(* streamed.  The left table comes in two results, the right one in two, one   *)
(* of them without rows; a batch is two rows, so the right table is seen in    *)
(* one pass or in two, depending on when the join looks at it.                 *)
EXTENDS BufferManager
CONSTANTS left, right, join, client, noWork, l1, l2, r1, r2

MCWork == {left, right, join}
MCWhole == join :> left
MCStreamed == join :> right
MCLimit == join :> [offset |-> 0, length |-> 0]
MCResult == {l1, l2, r1, r2}
MCWorkOf == l1 :> left @@ l2 :> left @@ r1 :> right @@ r2 :> right
MCBlocks == l1 :> {1, 2} @@ l2 :> {3} @@ r1 :> {4} @@ r2 :> {5, 6}
MCRowCount == l1 :> 1 @@ l2 :> 0 @@ r1 :> 2 @@ r2 :> 1
MCScanned == l1 :> 1 @@ l2 :> 2 @@ r1 :> 4 @@ r2 :> 8

\* A smaller instance, for the runs with spurious wakeups.
SmallResult == {l1, l2, r1}
SmallWorkOf == l1 :> left @@ l2 :> left @@ r1 :> right
SmallBlocks == l1 :> {1, 2} @@ l2 :> {3} @@ r1 :> {4}
SmallRowCount == l1 :> 1 @@ l2 :> 1 @@ r1 :> 3
SmallScanned == l1 :> 1 @@ l2 :> 2 @@ r1 :> 4

\* The runs are of plans that the theorems of BufferManager_proofs are about.
ASSUME PlanIsRead == LeadsToFinal /\ ReadsOnce
==============================================================================
