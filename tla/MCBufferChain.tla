---------------------------- MODULE MCBufferChain ----------------------------
(* One scanned table in two results, a merging work over it, and one over    *)
(* that, whose table answers the query: a wait that passes along.  The first    *)
(* limit clause is longer than its table, the second one is not.               *)
EXTENDS BufferManager
CONSTANTS s, mid, top, client, noWork, s1, s2

ChainWork == {s, mid, top}
ChainWhole == mid :> s @@ top :> mid
ChainStreamed == mid :> noWork @@ top :> noWork
ChainLimit == mid :> [offset |-> 1, length |-> 4] @@ top :> [offset |-> 1, length |-> 3]
ChainResult == {s1, s2}
ChainWorkOf == [r \in ChainResult |-> s]
ChainBlocks == s1 :> {1, 2} @@ s2 :> {3}
ChainRowCount == s1 :> 2 @@ s2 :> 1
ChainScanned == s1 :> 1 @@ s2 :> 2

\* The runs are of plans that the theorems of BufferManager_proofs are about.
ASSUME PlanIsRead == LeadsToFinal /\ ReadsOnce
==============================================================================
