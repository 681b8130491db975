--------------------------- MODULE SnippetScheduler ---------------------------
(***************************************************************************)
(* The Snippet Scheduler of the offloading module                            *)
(* (src/offloading_module/snippet_scheduler.{h,cc}) with the part of the      *)
(* Snippet Manager that splits a snippet by CSD (snippet_manager.cc:4-19);     *)
(* SnippetMessage is what it makes of each part.                              *)
(*                                                                           *)
(* Scan snippets arrive over gRPC and queue up; one thread takes them, picks   *)
(* for every SST one of the CSDs that hold a replica, with the algorithm set   *)
(* at that moment (DCS, DSI, DFA or AUTO), and sends a message to every CSD    *)
(* picked.  Metrics of the CSDs and requests to change the algorithm come in   *)
(* at any time, between any two looks at a score.                              *)
(*                                                                           *)
(* An SST is its position in the snippet's sst_info.  The score of a CSD is a  *)
(* natural number; the quotients by a penalty are compared as fractions.       *)
(***************************************************************************)
EXTENDS SnippetMessage

CONSTANTS
  Csd, NoCsd,       \* the CSDs, and the empty string
  Snippet,          \* scan snippets
  SstInfo,          \* [Snippet -> sequence of SSTs, as SnippetMessage has them]
  Schema,           \* [column -> its type and length]
  Projections,      \* [Snippet -> sequence of projections]
  Score,            \* the scores a metric may carry
  Algorithm,        \* the algorithms that may be set
  FirstAlgorithm,   \* the one set at the start: "dcs" in the code
  SstUpperBound,    \* SST_UPPER_BOUND, 16 in the code
  BlockUpperBound,  \* BLOCK_UPPER_BOUND, 10000 in the code
  MaxUpdates        \* bound: metrics and algorithm changes in a behaviour

ASSUME SchedulerAssumption ==
  /\ NoCsd \notin Csd
  /\ \A s \in Snippet : \A i \in DOMAIN SstInfo[s] :
       /\ SstInfo[s][i].csds \in Seq(Csd) \ {<<>>}
       /\ IsInjective(SstInfo[s][i].csds)
       /\ SstInfo[s][i].blocks \in Nat
  /\ Score \subseteq Nat /\ Score # {}
  /\ FirstAlgorithm \in Algorithm
  /\ Algorithm \subseteq {"dcs", "dsi", "dfa", "auto"}
  /\ {SstUpperBound, BlockUpperBound, MaxUpdates} \subseteq Nat

ASSUME ProjectionAssumption ==
  \A s \in Snippet : /\ Projections[s] \in Seq(Range(Projections[s]))
                     /\ \A p \in Range(Projections[s]) : WellFormed(Schema, p)

VARIABLES
  queue,       \* SnippetQueue_
  accepted,    \* the snippets received
  algorithm,   \* SCHEDULING_ALGORITHM
  score,       \* analysis_score in CSDStatusManager_
  updates,     \* how many metrics and changes so far
  current,     \* the snippet being scheduled
  pc,          \* the scheduler thread: "pop", "choose", a method, "setup" or stuck
  method,      \* the method last chosen for `current'
  sst, csd,    \* loop indices over SSTs and replicas, from 1
  penalty,     \* csd_penalty_map, 0 for an absent key
  selected,    \* selected_csd
  bestcsd,     \* the CSD picked for each SST so far
  sent,        \* the messages to the CSDs
  done         \* history: the snippets that have been set up

choice == <<method, sst, csd, penalty, selected, bestcsd>>
vars == <<queue, accepted, algorithm, score, updates, current, pc, choice, sent, done>>

Ssts(s) == 1..Len(SstInfo[s])
Replicas(s, i) == SstInfo[s][i].csds

Init ==
  /\ queue = <<>>
  /\ accepted = {}
  /\ algorithm = FirstAlgorithm
  /\ score \in [Csd -> Score]
  /\ updates = 0
  /\ current = "none"
  /\ pc = "pop"
  /\ method = "none"
  /\ sst = 1
  /\ csd = 1
  /\ penalty = [c \in Csd |-> 0]
  /\ selected = NoCsd
  /\ bestcsd = <<>>
  /\ sent = {}
  /\ done = {}
------------------------------------------------------------------------------
(* What comes in from outside.                                                *)

\* Faulty variant: a snippet that finds others waiting is dropped.
SchedulingDropsWhenBusy(s) ==
  /\ s \notin accepted
  /\ accepted' = accepted \cup {s}
  /\ queue' = IF queue = <<>> THEN <<s>> ELSE queue
  /\ UNCHANGED <<algorithm, score, updates, current, pc, choice, sent, done>>

Scheduling(s) ==
  /\ s \notin accepted
  /\ accepted' = accepted \cup {s}
  /\ queue' = Append(queue, s)
  /\ UNCHANGED <<algorithm, score, updates, current, pc, choice, sent, done>>

\* A pushed metric or the puller's: either way one entry of the map is set.
SetCSDInfo(c) ==
  /\ updates < MaxUpdates
  /\ updates' = updates + 1
  /\ \E x \in Score : score' = [score EXCEPT ![c] = x]
  /\ UNCHANGED <<queue, accepted, algorithm, current, pc, choice, sent, done>>

SetAlgorithm(a) ==
  /\ updates < MaxUpdates
  /\ updates' = updates + 1
  /\ algorithm' = a
  /\ UNCHANGED <<queue, accepted, score, current, pc, choice, sent, done>>
------------------------------------------------------------------------------
(* runScheduler: pop, choose the method, schedule, set up.                    *)

PopQueue ==
  /\ pc = "pop"
  /\ queue # <<>>
  /\ current' = Head(queue)
  /\ queue' = Tail(queue)
  /\ pc' = "choose"
  /\ method' = "none"
  /\ sst' = 1
  /\ csd' = 1
  /\ penalty' = [c \in Csd |-> 0]
  /\ selected' = NoCsd
  /\ bestcsd' = <<>>
  /\ UNCHANGED <<accepted, algorithm, score, updates, sent, done>>

\* Auto_Selection.  The comma operator makes `total_block_count' add up the
\* running maximum of the replica counts; the block counts are not looked at.
MaxCsdCount(s, i) == Max({0} \cup {Len(Replicas(s, k)) : k \in 1..i})
TotalBlockCount(s) == MapThenSumSet(LAMBDA i : MaxCsdCount(s, i), Ssts(s))

\* Faulty variant: the average leaves the first SST out, and divides by zero if there is no other.
AutoSelectionOfRest(s) ==
  LET n == Len(SstInfo[s])
  IN  CASE MaxCsdCount(s, n) = 1 -> "dfa"
        [] MaxCsdCount(s, n) # 1 /\ n = 1 -> "undefined"
        [] OTHER -> IF n > 1 /\ n # SstUpperBound /\ TotalBlockCount(s) \div (n - 1) > BlockUpperBound
                    THEN "dsi" ELSE "dcs"

AutoSelection(s) ==
  LET n == Len(SstInfo[s])
      average == TotalBlockCount(s) \div n
  IN  CASE MaxCsdCount(s, n) = 1 -> "dfa"
        [] MaxCsdCount(s, n) # 1 /\ n = 0 -> "undefined"       \* division by zero
        [] OTHER -> IF n # SstUpperBound /\ average > BlockUpperBound THEN "dsi" ELSE "dcs"

\* getBestCSD: the switch on SCHEDULING_ALGORITHM.
GetBestCSD ==
  /\ pc = "choose"
  /\ pc' = IF algorithm = "auto" THEN AutoSelection(current) ELSE algorithm
  /\ method' = algorithm
  /\ UNCHANGED <<queue, accepted, algorithm, score, updates, current, sst, csd,
                 penalty, selected, bestcsd, sent, done>>

More(m) == pc = m /\ sst \in Ssts(current)

\* The present SST gets CSD c.
Assign(c) ==
  /\ bestcsd' = Append(bestcsd, c)
  /\ sst' = sst + 1
  /\ csd' = 1
  /\ selected' = NoCsd
------------------------------------------------------------------------------
(* DCS_Algorithm.                                                             *)

\* An SST with one replica leaves no choice, and is what a penalty counts.
DcsSingle ==
  LET c == Replicas(current, sst)[1]
  IN  /\ More("dcs")
      /\ Len(Replicas(current, sst)) = 1
      /\ penalty' = [penalty EXCEPT ![c] = IF @ = 0 THEN 2 ELSE @ + 1]
      /\ Assign(c)
      /\ UNCHANGED <<queue, accepted, algorithm, score, updates, current, pc, method, sent, done>>

\* csd_score / penalty > csd_max_score, which is -1 and stays so.
Beats(x) == x.score > - x.penalty

\* One replica of several: its score is read under the map's mutex.
DcsCompare ==
  LET c == Replicas(current, sst)[csd]
      x == [score |-> score[c], penalty |-> IF penalty[c] = 0 THEN 1 ELSE penalty[c]]
  IN  /\ More("dcs")
      /\ Len(Replicas(current, sst)) # 1
      /\ csd <= Len(Replicas(current, sst))
      /\ selected' = IF Beats(x) THEN c ELSE selected
      /\ csd' = csd + 1
      /\ UNCHANGED <<queue, accepted, algorithm, score, updates, current, pc, method,
                     sst, penalty, bestcsd, sent, done>>

DcsAssign ==
  /\ More("dcs")
  /\ Len(Replicas(current, sst)) # 1
  /\ csd > Len(Replicas(current, sst))
  /\ Assign(selected)
  /\ UNCHANGED <<queue, accepted, algorithm, score, updates, current, pc, method,
                 penalty, sent, done>>
------------------------------------------------------------------------------
(* DFA_Algorithm.  The condition of the inner loop tests the index of the SST, *)
(* not that of the replica.  With the SSTs counted from 0, the loop does not    *)
(* run at all for an SST at or beyond the number of its replicas; for one below *)
(* it, fewer CSDs are taken than there are replicas, so that it ends at a free  *)
(* one although nothing stops it at the last.                                   *)

Unused(s, i) == {k \in 1..Len(Replicas(s, i)) : penalty[Replicas(s, i)[k]] = 0}

InnerLoopRuns == sst - 1 < Len(Replicas(current, sst))

DfaAssign ==
  /\ More("dfa")
  /\ InnerLoopRuns
  /\ LET c == Replicas(current, sst)[Min(Unused(current, sst))]
     IN  /\ penalty' = [penalty EXCEPT ![c] = 1]
         /\ Assign(c)
  /\ UNCHANGED <<queue, accepted, algorithm, score, updates, current, pc, method, sent, done>>

\* The outer loop only counts min_allocated up, for ever.
DfaSpin ==
  /\ More("dfa")
  /\ ~ InnerLoopRuns
  /\ pc' = "spinning"
  /\ UNCHANGED <<queue, accepted, algorithm, score, updates, current, choice, sent, done>>
------------------------------------------------------------------------------
(* DSI_Algorithm.                                                             *)

\* A complete selection's score: CSDs used over the highest number of SSTs on one.
Variance(stack) ==
  LET count(c) == Cardinality({k \in DOMAIN stack : stack[k] = c})
      used == {stack[k] : k \in DOMAIN stack}
  IN  [num |-> Cardinality(used), den |-> Max({0} \cup {count(c) : c \in used})]

Higher(x, y) == x.num * y.den > y.num * x.den

Stacks(s) == UNION {[1..n -> Csd] : n \in 0..Len(SstInfo[s])}

\* What a level that finds a higher score leaves in global_csd: its selection.
Kept(stack, c) == Append(stack, c)

\* dfs_for_dsi_algorithm from the selection `stack' on: the score it returns and
\* what it leaves in global_csd, <<>> for untouched.  When a deeper call scores
\* higher, global_csd becomes the selection of this level, not the complete one.
Dfs(s) ==
  LET dfs[stack \in Stacks(s)] ==
        IF Len(stack) = Len(SstInfo[s])
        THEN [score |-> Variance(stack), global |-> <<>>]
        ELSE LET try(best, c) ==
                   LET deeper == dfs[Append(stack, c)]
                   IN  IF Higher(deeper.score, best.score)
                       THEN [score |-> deeper.score, global |-> Kept(stack, c)]
                       ELSE [best EXCEPT !.global = IF deeper.global = <<>> THEN @
                                                   ELSE deeper.global]
             IN  FoldLeft(try, [score |-> [num |-> -1, den |-> 1], global |-> <<>>],
                          Replicas(s, Len(stack) + 1))
  IN  dfs[<<>>].global

\* The SSTs are popped off global_csd one by one; an empty stack has no top.
DsiSelect ==
  /\ pc = "dsi"
  /\ LET stack == Dfs(current)
         complete == Len(stack) = Len(SstInfo[current])
     IN  /\ bestcsd' = IF complete THEN stack ELSE <<>>
         /\ pc' = IF complete THEN "setup" ELSE "undefined"
  /\ UNCHANGED <<queue, accepted, algorithm, score, updates, current, method, sst, csd,
                 penalty, selected, sent, done>>

\* What the choices of dfs_for_dsi_algorithm amount to: one SST always gets a CSD, and a
\* complete selection names a holder for each SST.
DsiPicksHolders ==
  \A s \in Snippet :
    /\ Len(SstInfo[s]) = 1 => Len(Dfs(s)) = 1
    /\ Len(Dfs(s)) = Len(SstInfo[s]) =>
         /\ Dfs(s) \in Seq(Csd)
         /\ \A i \in Ssts(s) : Dfs(s)[i] \in Range(Replicas(s, i))
------------------------------------------------------------------------------
AllAssigned ==
  /\ pc \in {"dcs", "dfa"}
  /\ sst \notin Ssts(current)
  /\ pc' = "setup"
  /\ UNCHANGED <<queue, accepted, algorithm, score, updates, current, choice, sent, done>>

\* The columns are the same in every message of a snippet.
Columns == [s \in Snippet |-> ReturnColumns(Schema, Projections[s])]

MessageTo(s, c, ssts) == Serialize(s, SstInfo[s], Columns[s], c, ssts)

\* Faulty variant: an SST replaces the one its CSD was picked for before.
GroupsOfLast(s, best) ==
  {MessageTo(s, c, {i \in DOMAIN best : best[i] = c /\ \A j \in DOMAIN best : best[j] = c => j <= i})
   : c \in Range(best)}

\* setupSnippet: one message per CSD picked, with the SSTs it was picked for.
Groups(s, best) ==
  {MessageTo(s, c, {i \in DOMAIN best : best[i] = c}) : c \in Range(best)}

SetupSnippet ==
  /\ pc = "setup"
  /\ sent' = sent \cup Groups(current, bestcsd)
  /\ done' = done \cup {current}
  /\ pc' = "pop"
  /\ UNCHANGED <<queue, accepted, algorithm, score, updates, current, choice>>
------------------------------------------------------------------------------
SchedulerThread ==
  \/ PopQueue \/ GetBestCSD
  \/ DcsSingle \/ DcsCompare \/ DcsAssign
  \/ DfaAssign \/ DfaSpin
  \/ DsiSelect \/ AllAssigned \/ SetupSnippet

\* The thread never takes another snippet.
Stuck == pc \in {"undefined", "spinning"}

Idle == pc = "pop" /\ queue = <<>>

Next ==
  \/ \E s \in Snippet : Scheduling(s)
  \/ \E c \in Csd : SetCSDInfo(c)
  \/ \E a \in Algorithm : SetAlgorithm(a)
  \/ SchedulerThread
  \/ (Stuck \/ Idle) /\ UNCHANGED vars

\* The scheduler thread runs whenever it can; nobody is obliged to send.
Spec == Init /\ [][Next]_vars /\ WF_vars(SchedulerThread)
------------------------------------------------------------------------------
\* Each SST of a snippet that was set up is in exactly one message, and that
\* message goes to a CSD holding a replica of it, under every algorithm
\* (snippet_scheduler.cc:16-284, snippet_manager.cc:4-19).
SstsReachHolders ==
  \A s \in done : \A i \in Ssts(s) :
    \E m \in sent : /\ m.snippet = s /\ i \in m.ssts
                    /\ m.csd \in Range(Replicas(s, i))
                    /\ \A n \in sent : n.snippet = s /\ i \in n.ssts => n = m

\* DCS never stops the scheduler, and a snippet of one SST stops it under no
\* algorithm (snippet_scheduler.cc:44-284).
StuckOnlyByManySsts == Stuck => method # "dcs" /\ Len(SstInfo[current]) # 1

\* Every snippet accepted over gRPC is set up in the end, however metrics come in meanwhile,
\* unless the one scheduler thread got stuck, which StuckOnlyByManySsts narrows down
\* (offloading_interface.cc:30-36, snippet_scheduler.cc:3-14).
EverySnippetScheduled == []<>(done = accepted \/ Stuck)

\* A message names what its SSTs have on that CSD, and its block count is the number of
\* blocks it names, unless SSTs to be read whole meet others, or partitions differ
\* (serialize, snippet_manager.cc:44-110).
MessagesDescribeTheirSsts ==
  \A m \in sent : Described(SstInfo[m.snippet], m) \/ Mixed(SstInfo[m.snippet], m)

\* What will do as each column of a snippet: any, for a projection that Departs lists.
Acceptable ==
  [s \in Snippet |-> [k \in DOMAIN Projections[s] |->
     {Asked(Schema, Projections[s][k])}
     \cup (IF Departs(Schema, Projections[s][k]) THEN Range(Columns[s]) ELSE {})]]

\* Each projection gets one column in every message, of the type and length of its value
\* (calcul_return_column_type, snippet_manager.cc:163-255), but for those that Departs lists.
ColumnsExactUnlessDeparts ==
  \A m \in sent : /\ Len(m.columns) = Len(Projections[m.snippet])
                  /\ \A k \in DOMAIN m.columns : m.columns[k] \in Acceptable[m.snippet][k]
==============================================================================
