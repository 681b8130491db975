------------------------ MODULE SnippetScheduler_proofs ------------------------
(***************************************************************************)
(* The scheduler for any number of CSDs, replicas, SSTs and snippets: where   *)
(* the SSTs go, what stops the thread, and what the messages say.             *)
(***************************************************************************)
EXTENDS SnippetScheduler, FiniteSetTheorems, FunctionTheorems, WellFoundedInduction, TLAPS

Places == {"pop", "choose", "dcs", "dfa", "dsi", "setup", "undefined", "spinning"}

Types ==
  /\ queue \in Seq(Snippet)
  /\ accepted \subseteq Snippet
  /\ done \subseteq Snippet
  /\ algorithm \in Algorithm
  /\ score \in [Csd -> Nat]
  /\ pc \in Places
  /\ pc # "pop" => current \in Snippet
  /\ sst \in Nat \ {0}
  /\ csd \in Nat \ {0}
  /\ penalty \in [Csd -> Nat]
  /\ bestcsd \in Seq(Csd)

\* A snippet is queued once, taken once and set up once.
Once ==
  /\ \A k \in DOMAIN queue : queue[k] \in accepted \ done
  /\ \A k, l \in DOMAIN queue : queue[k] = queue[l] => k = l
  /\ done \subseteq accepted
  /\ pc # "pop" => /\ current \in accepted \ done
                   /\ \A k \in DOMAIN queue : queue[k] # current
  /\ \A m \in sent : m.snippet \in done

HoldersSoFar ==
  \A i \in DOMAIN bestcsd : i \in Ssts(current) /\ bestcsd[i] \in Range(Replicas(current, i))

\* What has been chosen up to the SST at hand.
Chosen ==
  /\ pc = "choose" => bestcsd = <<>> /\ sst = 1 /\ csd = 1 /\ penalty = [c \in Csd |-> 0]
  /\ pc \in {"dcs", "dfa"} => Len(bestcsd) = sst - 1
  /\ pc \in {"dcs", "dfa", "setup"} => HoldersSoFar
  /\ pc = "dcs" /\ csd # 1 => sst \in Ssts(current) /\ selected \in Range(Replicas(current, sst))
  /\ pc = "dfa" => \A c \in Csd : penalty[c] # 0 => c \in Range(bestcsd)
  /\ pc = "setup" => Len(bestcsd) = Len(SstInfo[current])

SchedulerInv == Types /\ Once /\ Chosen /\ SstsReachHolders

\* The replicas of an SST.
LEMMA ReplicaTypes ==
  ASSUME NEW s \in Snippet, NEW i \in Ssts(s)
  PROVE  /\ Replicas(s, i) \in Seq(Csd)
         /\ Len(Replicas(s, i)) \in Nat /\ Len(Replicas(s, i)) >= 1
         /\ DOMAIN Replicas(s, i) = 1..Len(Replicas(s, i))
         /\ IsInjective(Replicas(s, i))
         /\ Range(Replicas(s, i)) \subseteq Csd
         /\ \A k \in 1..Len(Replicas(s, i)) : Replicas(s, i)[k] \in Range(Replicas(s, i))
<1> DEFINE r == Replicas(s, i)
<1>1. i \in DOMAIN SstInfo[s]
  BY SchedulerAssumption DEF Ssts
<1>2. r \in Seq(Csd) \ {<<>>} /\ IsInjective(r)
  BY <1>1, SchedulerAssumption DEF Replicas
<1> HIDE DEF r
<1>3. r \in Seq(Csd) /\ Len(r) \in Nat /\ DOMAIN r = 1..Len(r) /\ Len(r) >= 1
  BY <1>2
<1>4. Range(r) \subseteq Csd /\ \A k \in 1..Len(r) : r[k] \in Range(r)
  BY <1>3 DEF Range
<1>5. QED
  BY <1>2, <1>3, <1>4 DEF r

LEMMA SstTypes ==
  ASSUME NEW s \in Snippet
  PROVE  Len(SstInfo[s]) \in Nat /\ Ssts(s) = 1..Len(SstInfo[s])
BY SchedulerAssumption DEF Ssts

LEMMA MinOf ==
  ASSUME NEW S \in SUBSET Nat, S # {}
  PROVE  Min(S) \in S
<1>1. IsWellFoundedOn(OpToRel(<, Nat), Nat)
  BY NatLessThanWellFounded
<1>2. PICK x \in S : \A y \in S : ~ (<<y, x>> \in OpToRel(<, Nat))
  BY <1>1, WFMin
<1>3. \A y \in S : ~ (y < x)
  BY <1>2 DEF OpToRel
<1>4. \A y \in S : x =< y
  BY <1>3
<1>5. QED
  BY <1>4 DEF Min

\* A choice among n CSDs, fewer than n of which have been picked, finds one.
LEMMA Pigeonhole ==
  ASSUME NEW r \in Seq(Csd), IsInjective(r), NEW picked \in Seq(Csd), Len(picked) < Len(r)
  PROVE  \E k \in 1..Len(r) : r[k] \notin Range(picked)
<1> DEFINE n == Len(r)
           p == Len(picked)
<1>1. n \in Nat /\ p \in Nat /\ r \in [1..n -> Csd] /\ picked \in [1..p -> Csd]
  OBVIOUS
<1> SUFFICES ASSUME \A k \in 1..n : r[k] \in Range(picked) PROVE FALSE
  OBVIOUS
<1>2. p < n
  OBVIOUS
<1> HIDE DEF n, p
<1>3. IsFiniteSet(1..p) /\ Cardinality(1..p) = p /\ IsFiniteSet(1..n) /\ Cardinality(1..n) = n
  <2>1. 1 \in Int /\ n \in Int /\ p \in Int
    BY <1>1
  <2>2. IsFiniteSet(1..p) /\ IsFiniteSet(1..n)
    BY <2>1, FS_Interval
  <2>3. Cardinality(1..p) = IF 1 > p THEN 0 ELSE p - 1 + 1
    BY <2>1, FS_Interval
  <2>4. Cardinality(1..n) = IF 1 > n THEN 0 ELSE n - 1 + 1
    BY <2>1, FS_Interval
  <2>5. QED
    BY <1>1, <2>2, <2>3, <2>4
<1>4. picked \in Surjection(1..p, Range(picked))
  BY <1>1, Fun_RangeProperties
<1>5. IsFiniteSet(Range(picked)) /\ Cardinality(Range(picked)) <= p
  BY <1>3, <1>4, FS_Surjection
<1>6. r \in Injection(1..n, Range(picked))
  <2>1. r \in [1..n -> Range(picked)]
    BY <1>1
  <2>2. \A a, b \in 1..n : r[a] = r[b] => a = b
    BY <1>1 DEF IsInjective
  <2>3. QED
    BY <2>1, <2>2, Fun_IsInj
<1>7. n <= Cardinality(Range(picked))
  BY <1>3, <1>5, <1>6, FS_Injection
<1>8. Cardinality(Range(picked)) \in Nat
  BY <1>5, FS_CardinalityType
<1>9. QED
  BY <1>1, <1>2, <1>5, <1>7, <1>8

LEMMA TailOf ==
  ASSUME NEW S, NEW q \in Seq(S), q # <<>>
  PROVE  /\ Head(q) = q[1] /\ 1 \in DOMAIN q /\ Head(q) \in S /\ Tail(q) \in Seq(S)
         /\ \A k \in DOMAIN Tail(q) : k + 1 \in DOMAIN q /\ Tail(q)[k] = q[k + 1] /\ k \in Nat \ {0}
<1>1. Len(q) \in Nat /\ Len(q) >= 1 /\ DOMAIN q = 1..Len(q) /\ q[1] \in S
  OBVIOUS
<1>2. Tail(q) \in Seq(S) /\ DOMAIN Tail(q) = 1..(Len(q) - 1) /\ Head(q) = q[1]
  OBVIOUS
<1>3. \A k \in 1..(Len(q) - 1) : Tail(q)[k] = q[k + 1] /\ k + 1 \in 1..Len(q)
  BY <1>1
<1>4. QED
  BY <1>1, <1>2, <1>3

LEMMA AppendOf ==
  ASSUME NEW S, NEW q \in Seq(S), NEW x \in S
  PROVE  LET n == Len(q) + 1
         IN  /\ Append(q, x) \in Seq(S) /\ Len(Append(q, x)) = n
             /\ DOMAIN Append(q, x) = DOMAIN q \cup {n} /\ n \notin DOMAIN q /\ Append(q, x)[n] = x
             /\ \A k \in DOMAIN q : Append(q, x)[k] = q[k]
             /\ Range(q) \subseteq Range(Append(q, x)) /\ x \in Range(Append(q, x))
<1> DEFINE n == Len(q) + 1
           a == Append(q, x)
<1>1. /\ a \in Seq(S) /\ Len(a) = n /\ DOMAIN a = DOMAIN q \cup {n} /\ n \notin DOMAIN q /\ a[n] = x
      /\ \A k \in DOMAIN q : a[k] = q[k]
  OBVIOUS
<1> HIDE DEF n, a
<1>2. Range(q) \subseteq Range(a) /\ x \in Range(a)
  BY <1>1 DEF Range
<1>3. QED
  BY <1>1, <1>2 DEF n, a

\* A step of the thread with a snippet in hand leaves the queue and the messages alone.
LEMMA OnceSame ==
  ASSUME Once, SstsReachHolders, UNCHANGED <<queue, accepted, current, sent, done>>, pc # "pop" \/ pc' = "pop"
  PROVE  Once' /\ SstsReachHolders'
<1>1. Once'
  BY DEF Once
<1>2. SstsReachHolders'
  BY DEF SstsReachHolders
<1>3. QED
  BY <1>1, <1>2

\* Metrics and changes of the algorithm touch nothing that has been chosen.
LEMMA UpdateStep ==
  ASSUME SchedulerInv, (\E c \in Csd : SetCSDInfo(c)) \/ (\E a \in Algorithm : SetAlgorithm(a))
  PROVE  SchedulerInv'
<1>1. /\ Types /\ Once /\ Chosen /\ SstsReachHolders
      /\ UNCHANGED <<queue, accepted, current, sent, done, pc, choice>>
  BY DEF SchedulerInv, SetCSDInfo, SetAlgorithm
<1>2. score' \in [Csd -> Nat] /\ algorithm' \in Algorithm
  <2>1. CASE \E c \in Csd : SetCSDInfo(c)
    <3>1. PICK c \in Csd : SetCSDInfo(c)
      BY <2>1
    <3>2. PICK x \in Score : score' = [score EXCEPT ![c] = x]
      BY <3>1 DEF SetCSDInfo
    <3>3. x \in Nat
      BY SchedulerAssumption
    <3>4. algorithm' = algorithm
      BY <3>1 DEF SetCSDInfo
    <3>5. QED
      BY <1>1, <3>2, <3>3, <3>4 DEF Types
  <2>2. CASE \E a \in Algorithm : SetAlgorithm(a)
    BY <1>1, <2>2 DEF SetAlgorithm, Types
  <2>3. QED
    BY <2>1, <2>2
<1>3. Types' /\ Chosen'
  <2>1. Types'
    BY <1>1, <1>2 DEF Types, choice
  <2>2. Chosen'
    BY <1>1 DEF Chosen, HoldersSoFar, choice
  <2>3. QED
    BY <2>1, <2>2
<1>4. Once' /\ SstsReachHolders'
  BY <1>1, OnceSame
<1>5. QED
  BY <1>3, <1>4 DEF SchedulerInv

LEMMA ArriveStep ==
  ASSUME SchedulerInv, NEW s \in Snippet, Scheduling(s)
  PROVE  SchedulerInv'
<1>1. /\ Types /\ Once /\ Chosen /\ SstsReachHolders
      /\ s \notin accepted /\ accepted' = accepted \cup {s} /\ queue' = Append(queue, s)
      /\ UNCHANGED <<algorithm, score, current, pc, choice, sent, done>>
  BY DEF SchedulerInv, Scheduling
<1> DEFINE n == Len(queue) + 1
<1>2. /\ queue' \in Seq(Snippet) /\ DOMAIN queue' = DOMAIN queue \cup {n} /\ n \notin DOMAIN queue
      /\ queue'[n] = s /\ \A k \in DOMAIN queue : queue'[k] = queue[k]
  BY <1>1, AppendOf DEF Types
<1> HIDE DEF n
<1>3. Types'
  BY <1>1, <1>2 DEF Types, choice
<1>4. Chosen'
  BY <1>1 DEF Chosen, HoldersSoFar, choice
<1>5. Once'
  <2>1. \A k \in DOMAIN queue' : queue'[k] \in accepted' \ done' /\ (queue'[k] = s => k = n)
    BY <1>1, <1>2 DEF Once
  <2>2. \A k, l \in DOMAIN queue' : queue'[k] = queue'[l] => k = l
    BY <1>1, <1>2 DEF Once
  <2>3. pc' # "pop" => /\ current' \in accepted' \ done'
                       /\ \A k \in DOMAIN queue' : queue'[k] # current'
    BY <1>1, <1>2 DEF Once
  <2>4. QED
    BY <1>1, <2>1, <2>2, <2>3 DEF Once
<1>6. SstsReachHolders'
  BY <1>1 DEF SstsReachHolders
<1>7. QED
  BY <1>3, <1>4, <1>5, <1>6 DEF SchedulerInv

LEMMA PopStep ==
  ASSUME SchedulerInv, PopQueue
  PROVE  SchedulerInv'
<1>1. /\ Types /\ Once /\ SstsReachHolders
      /\ queue # <<>> /\ current' = Head(queue) /\ queue' = Tail(queue) /\ pc' = "choose"
      /\ sst' = 1 /\ csd' = 1 /\ penalty' = [c \in Csd |-> 0] /\ bestcsd' = <<>>
      /\ UNCHANGED <<accepted, algorithm, score, sent, done>>
  BY DEF SchedulerInv, PopQueue
<1>2. /\ Head(queue) = queue[1] /\ 1 \in DOMAIN queue /\ Head(queue) \in Snippet /\ queue' \in Seq(Snippet)
      /\ \A k \in DOMAIN queue' : k + 1 \in DOMAIN queue /\ queue'[k] = queue[k + 1] /\ k \in Nat \ {0}
  BY <1>1, TailOf DEF Types
<1>3. Types'
  BY <1>1, <1>2 DEF Types, Places
<1>4. Chosen'
  BY <1>1 DEF Chosen
<1>5. Once'
  <2>1. \A k \in DOMAIN queue' : queue'[k] \in accepted' \ done' /\ queue'[k] # queue[1]
    BY <1>1, <1>2 DEF Once
  <2>2. \A k, l \in DOMAIN queue' : queue'[k] = queue'[l] => k = l
    BY <1>1, <1>2 DEF Once
  <2>3. QED
    BY <1>1, <1>2, <2>1, <2>2 DEF Once
<1>6. SstsReachHolders'
  BY <1>1 DEF SstsReachHolders
<1>7. QED
  BY <1>3, <1>4, <1>5, <1>6 DEF SchedulerInv

\* Where the choice of the method leads.
LEMMA Methods ==
  ASSUME NEW s, NEW a \in Algorithm
  PROVE  (IF a = "auto" THEN AutoSelection(s) ELSE a) \in {"dcs", "dfa", "dsi", "undefined"}
<1>1. AutoSelection(s) \in {"dcs", "dfa", "dsi", "undefined"}
  BY DEF AutoSelection
<1>2. QED
  BY <1>1, SchedulerAssumption

LEMMA ChooseStep ==
  ASSUME SchedulerInv, GetBestCSD
  PROVE  SchedulerInv'
<1>1. /\ Types /\ Once /\ Chosen /\ SstsReachHolders /\ pc = "choose"
      /\ pc' = IF algorithm = "auto" THEN AutoSelection(current) ELSE algorithm
      /\ UNCHANGED <<queue, accepted, algorithm, score, current, sst, csd, penalty, selected, bestcsd, sent, done>>
  BY DEF SchedulerInv, GetBestCSD
<1>2. pc' \in {"dcs", "dfa", "dsi", "undefined"}
  BY <1>1, Methods DEF Types
<1>3. Types'
  BY <1>1, <1>2 DEF Types, Places
<1>4. Chosen'
  <2>1. bestcsd = <<>> /\ sst = 1 /\ csd = 1 /\ penalty = [c \in Csd |-> 0]
    BY <1>1 DEF Chosen
  <2>2. Len(bestcsd) = 0 /\ DOMAIN bestcsd = {}
    BY <2>1
  <2>3. QED
    BY <1>1, <1>2, <2>1, <2>2 DEF Chosen, HoldersSoFar
<1>5. Once' /\ SstsReachHolders'
  BY <1>1, OnceSame
<1>6. QED
  BY <1>3, <1>4, <1>5 DEF SchedulerInv

\* An SST gets one of its holders.
LEMMA AssignStep ==
  ASSUME SchedulerInv, pc \in {"dcs", "dfa"}, More(pc), NEW c \in Range(Replicas(current, sst)), Assign(c),
         penalty' \in [Csd -> Nat], pc = "dfa" => penalty' = [penalty EXCEPT ![c] = 1],
         UNCHANGED <<queue, accepted, algorithm, score, current, pc, sent, done>>
  PROVE  SchedulerInv'
<1>1. /\ Types /\ Once /\ Chosen /\ SstsReachHolders /\ current \in Snippet /\ sst \in Ssts(current)
      /\ Len(bestcsd) = sst - 1 /\ HoldersSoFar
  BY DEF SchedulerInv, Types, Chosen, More
<1>2. c \in Csd
  BY <1>1, ReplicaTypes
<1>3. /\ bestcsd' = Append(bestcsd, c) /\ sst' = sst + 1 /\ csd' = 1
  BY DEF Assign
<1>4. /\ bestcsd' \in Seq(Csd) /\ Len(bestcsd') = Len(bestcsd) + 1
      /\ DOMAIN bestcsd' = DOMAIN bestcsd \cup {Len(bestcsd) + 1} /\ bestcsd'[Len(bestcsd) + 1] = c
      /\ \A k \in DOMAIN bestcsd : bestcsd'[k] = bestcsd[k]
      /\ Range(bestcsd) \subseteq Range(bestcsd') /\ c \in Range(bestcsd')
  BY <1>1, <1>2, <1>3, AppendOf DEF Types
<1>5. sst \in Nat \ {0} /\ Len(bestcsd) + 1 = sst
  BY <1>1 DEF Types
<1>6. Types'
  BY <1>1, <1>3, <1>4, <1>5 DEF Types
<1>7. HoldersSoFar'
  BY <1>1, <1>4, <1>5 DEF HoldersSoFar
<1>8. pc = "dfa" => \A d \in Csd : penalty'[d] # 0 => d \in Range(bestcsd')
  BY <1>1, <1>4 DEF Chosen, Types
<1>9. Chosen'
  BY <1>3, <1>4, <1>5, <1>7, <1>8 DEF Chosen
<1>10. Once' /\ SstsReachHolders'
  BY <1>1, OnceSame
<1>11. QED
  BY <1>6, <1>9, <1>10 DEF SchedulerInv

LEMMA DcsStep ==
  ASSUME SchedulerInv, DcsSingle \/ DcsCompare \/ DcsAssign
  PROVE  SchedulerInv'
<1>1. /\ Types /\ Once /\ Chosen /\ SstsReachHolders /\ pc = "dcs" /\ current \in Snippet /\ sst \in Ssts(current)
      /\ UNCHANGED <<queue, accepted, algorithm, score, current, pc, sent, done>>
  BY DEF SchedulerInv, Types, DcsSingle, DcsCompare, DcsAssign, More
<1> DEFINE r == Replicas(current, sst)
<1>2. /\ r \in Seq(Csd) /\ Len(r) \in Nat /\ Len(r) >= 1 /\ Range(r) \subseteq Csd
      /\ \A k \in 1..Len(r) : r[k] \in Range(r)
  BY <1>1, ReplicaTypes
<1>3. CASE DcsSingle
  <2> DEFINE c == r[1]
  <2>1. c \in Range(r) /\ c \in Csd
    BY <1>2
  <2>2. More(pc) /\ Assign(c) /\ penalty' = [penalty EXCEPT ![c] = IF @ = 0 THEN 2 ELSE @ + 1]
    BY <1>1, <1>3 DEF DcsSingle
  <2>3. penalty' \in [Csd -> Nat]
    BY <1>1, <2>1, <2>2 DEF Types
  <2>4. QED
    BY <1>1, <2>1, <2>2, <2>3, AssignStep
<1>4. CASE DcsCompare
  <2> DEFINE c == r[csd]
             x == [score |-> score[c], penalty |-> IF penalty[c] = 0 THEN 1 ELSE penalty[c]]
  <2>1. /\ csd <= Len(r) /\ selected' = (IF Beats(x) THEN c ELSE selected) /\ csd' = csd + 1
        /\ UNCHANGED <<sst, penalty, bestcsd>>
    BY <1>4 DEF DcsCompare
  <2>2. c \in Range(r) /\ c \in Csd
    BY <1>1, <1>2, <2>1 DEF Types
  <2>3. Beats(x)
    BY <1>1, <2>2 DEF Beats, Types
  <2>4. selected' \in Range(r) /\ csd' \in Nat \ {0}
    BY <1>1, <2>1, <2>2, <2>3 DEF Types
  <2>5. Types'
    BY <1>1, <2>1, <2>4 DEF Types
  <2>6. Chosen'
    BY <1>1, <2>1, <2>4 DEF Chosen, HoldersSoFar
  <2>7. Once' /\ SstsReachHolders'
    BY <1>1, OnceSame
  <2>8. QED
    BY <2>5, <2>6, <2>7 DEF SchedulerInv
<1>5. CASE DcsAssign
  <2>1. csd > Len(r) /\ Assign(selected) /\ More(pc) /\ penalty' = penalty
    BY <1>1, <1>5 DEF DcsAssign
  <2>2. csd # 1
    BY <1>2, <2>1
  <2>3. selected \in Range(r)
    BY <1>1, <2>2 DEF Chosen
  <2>4. QED
    BY <1>1, <2>1, <2>3, AssignStep DEF Types
<1>6. QED
  BY <1>3, <1>4, <1>5

\* The index of the SST stands in for that of the replica, and still a free one is found:
\* fewer CSDs have been taken than this SST has replicas.
LEMMA DfaStep ==
  ASSUME SchedulerInv, DfaAssign
  PROVE  SchedulerInv'
<1>1. /\ Types /\ Once /\ Chosen /\ SstsReachHolders /\ pc = "dfa" /\ current \in Snippet /\ sst \in Ssts(current)
      /\ More(pc) /\ Len(bestcsd) = sst - 1
      /\ UNCHANGED <<queue, accepted, algorithm, score, current, pc, sent, done>>
  BY DEF SchedulerInv, Types, Chosen, DfaAssign, More
<1> DEFINE r == Replicas(current, sst)
           free == Unused(current, sst)
           c == r[Min(free)]
<1>2. Assign(c) /\ penalty' = [penalty EXCEPT ![c] = 1] /\ sst - 1 < Len(r)
  BY DEF DfaAssign, InnerLoopRuns
<1>3. /\ r \in Seq(Csd) /\ Len(r) \in Nat /\ IsInjective(r) /\ Range(r) \subseteq Csd
      /\ \A k \in 1..Len(r) : r[k] \in Range(r)
  BY <1>1, ReplicaTypes
<1>4. \E k \in 1..Len(r) : r[k] \notin Range(bestcsd)
  <2>1. bestcsd \in Seq(Csd) /\ Len(bestcsd) < Len(r)
    BY <1>1, <1>2 DEF Types
  <2> HIDE DEF r
  <2>2. QED
    BY <1>3, <2>1, Pigeonhole
<1>5. free # {} /\ free \subseteq 1..Len(r)
  BY <1>1, <1>3, <1>4 DEF Unused, Chosen
<1>6. Min(free) \in free
  BY <1>3, <1>5, MinOf
<1>7. c \in Range(r) /\ c \in Csd
  BY <1>3, <1>5, <1>6
<1>8. penalty' \in [Csd -> Nat]
  BY <1>1, <1>2, <1>7 DEF Types
<1>9. QED
  BY <1>1, <1>2, <1>7, <1>8, AssignStep

LEMMA SpinStep ==
  ASSUME SchedulerInv, DfaSpin
  PROVE  SchedulerInv'
<1>1. /\ Types /\ Once /\ Chosen /\ SstsReachHolders /\ pc = "dfa" /\ pc' = "spinning"
      /\ UNCHANGED <<queue, accepted, algorithm, score, current, choice, sent, done>>
  BY DEF SchedulerInv, DfaSpin, More
<1>2. Types' /\ Chosen'
  BY <1>1 DEF Types, Places, Chosen, choice
<1>3. Once' /\ SstsReachHolders'
  BY <1>1, OnceSame
<1>4. QED
  BY <1>2, <1>3 DEF SchedulerInv

LEMMA DsiStep ==
  ASSUME DsiPicksHolders, SchedulerInv, DsiSelect
  PROVE  SchedulerInv'
<1> DEFINE stack == Dfs(current)
           complete == Len(stack) = Len(SstInfo[current])
<1>1. /\ Types /\ Once /\ Chosen /\ SstsReachHolders /\ pc = "dsi" /\ current \in Snippet
      /\ bestcsd' = (IF complete THEN stack ELSE <<>>) /\ pc' = (IF complete THEN "setup" ELSE "undefined")
      /\ UNCHANGED <<queue, accepted, algorithm, score, current, sst, csd, penalty, selected, sent, done>>
  BY DEF SchedulerInv, Types, DsiSelect
<1>2. complete => stack \in Seq(Csd) /\ \A i \in Ssts(current) : stack[i] \in Range(Replicas(current, i))
  BY <1>1 DEF DsiPicksHolders
<1>3. Len(SstInfo[current]) \in Nat /\ Ssts(current) = 1..Len(SstInfo[current])
  BY <1>1, SstTypes
<1> HIDE DEF stack
<1>4. Types'
  BY <1>1, <1>2 DEF Types, Places
<1>5. Chosen'
  <2>1. CASE complete
    <3>1. pc' = "setup" /\ bestcsd' = stack /\ stack \in Seq(Csd) /\ DOMAIN stack = Ssts(current)
      BY <1>1, <1>2, <1>3, <2>1
    <3>2. HoldersSoFar'
      BY <1>1, <1>2, <2>1, <3>1 DEF HoldersSoFar
    <3>3. QED
      BY <1>1, <2>1, <3>1, <3>2 DEF Chosen
  <2>2. CASE ~ complete
    BY <1>1, <2>2 DEF Chosen
  <2>3. QED
    BY <2>1, <2>2
<1>6. Once' /\ SstsReachHolders'
  BY <1>1, OnceSame
<1>7. QED
  BY <1>4, <1>5, <1>6 DEF SchedulerInv

LEMMA AssignedStep ==
  ASSUME SchedulerInv, AllAssigned
  PROVE  SchedulerInv'
<1>1. /\ Types /\ Once /\ Chosen /\ SstsReachHolders /\ pc \in {"dcs", "dfa"} /\ pc' = "setup"
      /\ sst \notin Ssts(current) /\ current \in Snippet
      /\ UNCHANGED <<queue, accepted, algorithm, score, current, choice, sent, done>>
  BY DEF SchedulerInv, Types, AllAssigned
<1>2. Len(SstInfo[current]) \in Nat /\ Ssts(current) = 1..Len(SstInfo[current])
  BY <1>1, SstTypes
<1>3. Types'
  BY <1>1 DEF Types, Places, choice
<1>4. Len(bestcsd) = Len(SstInfo[current])
  <2>1. Len(bestcsd) = sst - 1 /\ HoldersSoFar /\ sst \in Nat \ {0} /\ bestcsd \in Seq(Csd)
    BY <1>1 DEF Chosen, Types
  <2>2. \A i \in 1..Len(bestcsd) : i <= Len(SstInfo[current])
    BY <1>2, <2>1 DEF HoldersSoFar
  <2>3. QED
    BY <1>1, <1>2, <2>1, <2>2
<1>5. Chosen'
  BY <1>1, <1>4 DEF Chosen, HoldersSoFar, choice
<1>6. Once' /\ SstsReachHolders'
  BY <1>1, OnceSame
<1>7. QED
  BY <1>3, <1>5, <1>6 DEF SchedulerInv

\* setupSnippet makes one message for each CSD that was picked.
LEMMA SetupStep ==
  ASSUME SchedulerInv, SetupSnippet
  PROVE  SchedulerInv'
<1>1. /\ Types /\ Once /\ Chosen /\ SstsReachHolders /\ pc = "setup" /\ pc' = "pop" /\ current \in Snippet
      /\ sent' = sent \cup Groups(current, bestcsd) /\ done' = done \cup {current}
      /\ UNCHANGED <<queue, accepted, algorithm, score, current, choice>>
  BY DEF SchedulerInv, Types, SetupSnippet
<1> DEFINE of(c) == {i \in DOMAIN bestcsd : bestcsd[i] = c}
           message(c) == MessageTo(current, c, of(c))
<1>2. \A c : message(c).snippet = current /\ message(c).csd = c /\ message(c).ssts = of(c)
  BY DEF MessageTo, Serialize
<1>3. Groups(current, bestcsd) = {message(c) : c \in Range(bestcsd)}
  BY DEF Groups
<1>4. current \in accepted /\ current \notin done /\ \A m \in sent : m.snippet \in done
  BY <1>1 DEF Once
<1>5. DOMAIN bestcsd = Ssts(current) /\ \A i \in Ssts(current) : bestcsd[i] \in Range(Replicas(current, i))
  <2>1. Len(SstInfo[current]) \in Nat /\ Ssts(current) = 1..Len(SstInfo[current])
    BY <1>1, SstTypes
  <2>2. bestcsd \in Seq(Csd) /\ Len(bestcsd) = Len(SstInfo[current]) /\ HoldersSoFar
    BY <1>1 DEF Types, Chosen
  <2>3. QED
    BY <2>1, <2>2 DEF HoldersSoFar
<1> HIDE DEF message
<1>6. Types'
  BY <1>1 DEF Types, Places, choice
<1>7. Chosen'
  BY <1>1 DEF Chosen
<1>8. Once'
  <2>1. \A m \in sent' : m.snippet \in done'
    BY <1>1, <1>2, <1>3, <1>4
  <2>2. \A k \in DOMAIN queue' : queue'[k] \in accepted' \ done'
    BY <1>1 DEF Once
  <2>3. \A k, l \in DOMAIN queue' : queue'[k] = queue'[l] => k = l
    BY <1>1 DEF Once
  <2>4. done' \subseteq accepted'
    BY <1>1, <1>4 DEF Once
  <2>5. QED
    BY <1>1, <2>1, <2>2, <2>3, <2>4 DEF Once
<1>9. ASSUME NEW s \in done', NEW i \in Ssts(s)
      PROVE  \E m \in sent' : /\ m.snippet = s /\ i \in m.ssts
                              /\ m.csd \in Range(Replicas(s, i))
                              /\ \A n \in sent' : n.snippet = s /\ i \in n.ssts => n = m
  <2>1. CASE s \in done
    <3>1. PICK m \in sent : /\ m.snippet = s /\ i \in m.ssts
                            /\ m.csd \in Range(Replicas(s, i))
                            /\ \A n \in sent : n.snippet = s /\ i \in n.ssts => n = m
      BY <1>1, <2>1 DEF SstsReachHolders
    <3>2. \A n \in sent' : n.snippet = s => n \in sent
      BY <1>1, <1>2, <1>3, <1>4, <2>1
    <3>3. QED
      BY <1>1, <3>1, <3>2
  <2>2. CASE s = current
    <3> DEFINE c == bestcsd[i]
    <3>1. i \in DOMAIN bestcsd /\ c \in Range(bestcsd) /\ i \in of(c) /\ c \in Range(Replicas(s, i))
      BY <1>5, <2>2 DEF Range
    <3>2. message(c) \in sent'
      BY <1>1, <1>3, <3>1
    <3>3. ASSUME NEW n \in sent', n.snippet = s, i \in n.ssts PROVE n = message(c)
      <4>1. n \notin sent
        BY <1>4, <2>2, <3>3
      <4>2. PICK d \in Range(bestcsd) : n = message(d)
        BY <1>1, <1>3, <4>1
      <4>3. i \in of(d)
        BY <1>2, <3>3, <4>2
      <4>4. d = c
        BY <4>3
      <4>5. QED
        BY <4>2, <4>4
    <3>4. QED
      BY <1>2, <2>2, <3>1, <3>2, <3>3
  <2>3. QED
    BY <1>1, <2>1, <2>2
<1>10. SstsReachHolders'
  BY <1>9 DEF SstsReachHolders
<1>11. QED
  BY <1>6, <1>7, <1>8, <1>10 DEF SchedulerInv

LEMMA SchedulerStart == Init => SchedulerInv
<1> SUFFICES ASSUME Init PROVE SchedulerInv
  OBVIOUS
<1>1. queue = <<>> /\ accepted = {} /\ done = {} /\ sent = {} /\ pc = "pop" /\ bestcsd = <<>>
  BY DEF Init
<1>2. Types
  <2>1. score \in [Csd -> Nat]
    <3>1. score \in [Csd -> Score] /\ Score \subseteq Nat
      BY SchedulerAssumption DEF Init
    <3>2. QED
      BY <3>1
  <2>2. algorithm \in Algorithm /\ sst = 1 /\ csd = 1 /\ penalty = [c \in Csd |-> 0]
    BY SchedulerAssumption DEF Init
  <2>3. QED
    BY <1>1, <2>1, <2>2 DEF Types, Places
<1>3. Once /\ Chosen /\ SstsReachHolders
  BY <1>1 DEF Once, Chosen, SstsReachHolders
<1>4. QED
  BY <1>2, <1>3 DEF SchedulerInv

LEMMA SchedulerStep ==
  ASSUME DsiPicksHolders
  PROVE  SchedulerInv /\ [Next]_vars => SchedulerInv'
<1> SUFFICES ASSUME SchedulerInv, [Next]_vars PROVE SchedulerInv'
  OBVIOUS
<1>1. CASE SchedulerThread
  BY <1>1, PopStep, ChooseStep, DcsStep, DfaStep, SpinStep, DsiStep, AssignedStep, SetupStep DEF SchedulerThread
<1>2. CASE UNCHANGED vars
  <2>1. UNCHANGED <<queue, accepted, algorithm, score, current, pc, choice, sent, done>>
    BY <1>2 DEF vars
  <2>2. Types' /\ Once' /\ Chosen' /\ SstsReachHolders'
    BY <2>1 DEF SchedulerInv, Types, Once, Chosen, HoldersSoFar, SstsReachHolders, choice
  <2>3. QED
    BY <2>2 DEF SchedulerInv
<1>3. CASE \E s \in Snippet : Scheduling(s)
  BY <1>3, ArriveStep
<1>4. CASE (\E c \in Csd : SetCSDInfo(c)) \/ (\E a \in Algorithm : SetAlgorithm(a))
  BY <1>4, UpdateStep
<1>5. QED
  BY <1>1, <1>2, <1>3, <1>4 DEF Next

\* Each SST of a snippet that was set up is in exactly one message, to a CSD that holds it,
\* whatever the replicas, the scores, and the order of metrics and changes of the algorithm.
\* What DSI's search selects is taken from TLC: it is a recursion over the SSTs.
THEOREM MessagesReachHolders ==
  ASSUME DsiPicksHolders
  PROVE  Spec => []SstsReachHolders
<1>1. SchedulerInv => SstsReachHolders
  BY DEF SchedulerInv
<1>2. QED
  BY <1>1, SchedulerStart, SchedulerStep, PTL DEF Spec

\* What may have happened when the thread is where only some methods lead.
StuckInv ==
  /\ pc \in {"dfa", "dsi", "undefined", "spinning"} => method # "dcs"
  /\ Stuck => Len(SstInfo[current]) # 1

LEMMA StuckStep ==
  ASSUME DsiPicksHolders, SchedulerInv, StuckInv, SchedulerThread
  PROVE  StuckInv'
<1>1. Types /\ Chosen
  BY DEF SchedulerInv
<1>2. CASE PopQueue \/ DcsSingle \/ DcsCompare \/ DcsAssign \/ AllAssigned \/ SetupSnippet
  BY <1>2 DEF StuckInv, Stuck, PopQueue, DcsSingle, DcsCompare, DcsAssign, AllAssigned, SetupSnippet, More
<1>3. CASE GetBestCSD
  <2>1. /\ pc' = (IF algorithm = "auto" THEN AutoSelection(current) ELSE algorithm)
        /\ method' = algorithm /\ current' = current /\ pc = "choose" /\ algorithm \in Algorithm
    BY <1>1, <1>3 DEF GetBestCSD, Types
  <2>2. AutoSelection(current) \in {"dcs", "dfa", "dsi"} \/ Len(SstInfo[current]) = 0
    BY DEF AutoSelection
  <2>3. AutoSelection(current) # "spinning"
    BY DEF AutoSelection
  <2>4. pc' \in {"dcs", "dfa", "dsi"} \/ Len(SstInfo[current]) = 0
    BY <2>1, <2>2, SchedulerAssumption
  <2>5. method' = "dcs" => pc' = "dcs"
    BY <2>1
  <2>6. Stuck' => Len(SstInfo[current])' # 1
    BY <2>1, <2>4 DEF Stuck
  <2>7. QED
    BY <2>5, <2>6 DEF StuckInv
<1>4. CASE DfaAssign
  BY <1>4 DEF StuckInv, Stuck, DfaAssign, More
<1>5. CASE DfaSpin
  <2>1. /\ pc = "dfa" /\ pc' = "spinning" /\ current' = current /\ method' = method
        /\ current \in Snippet /\ sst \in Ssts(current) /\ ~ (sst - 1 < Len(Replicas(current, sst)))
    BY <1>1, <1>5 DEF DfaSpin, More, InnerLoopRuns, choice, Types
  <2>2. Len(Replicas(current, sst)) \in Nat /\ Len(Replicas(current, sst)) >= 1
    BY <2>1, ReplicaTypes
  <2>3. Len(SstInfo[current]) \in Nat /\ sst \in 1..Len(SstInfo[current])
    BY <2>1, SstTypes
  <2>4. Len(SstInfo[current]) # 1
    <3> DEFINE n == Len(SstInfo[current])
               r == Len(Replicas(current, sst))
    <3>1. n \in Nat /\ sst \in 1..n /\ r \in Nat /\ r >= 1 /\ ~ (sst - 1 < r)
      BY <2>1, <2>2, <2>3
    <3> HIDE DEF n, r
    <3>2. n # 1
      BY <3>1
    <3>3. QED
      BY <3>2 DEF n
  <2>5. QED
    BY <2>1, <2>4 DEF StuckInv, Stuck
<1>6. CASE DsiSelect
  <2>1. /\ pc = "dsi" /\ current' = current /\ method' = method /\ current \in Snippet
        /\ pc' = IF Len(Dfs(current)) = Len(SstInfo[current]) THEN "setup" ELSE "undefined"
    BY <1>1, <1>6 DEF DsiSelect, Types
  <2>2. Len(SstInfo[current]) = 1 => Len(Dfs(current)) = 1
    BY <2>1 DEF DsiPicksHolders
  <2>3. QED
    BY <2>1, <2>2 DEF StuckInv, Stuck
<1>7. QED
  BY <1>2, <1>3, <1>4, <1>5, <1>6 DEF SchedulerThread

\* DCS never stops the one scheduler thread, and a snippet of one SST stops it under no
\* algorithm, for every set of replicas.
THEOREM DcsGoesOn ==
  ASSUME DsiPicksHolders
  PROVE  Spec => []StuckOnlyByManySsts
<1>1. Init => StuckInv
  BY DEF Init, StuckInv, Stuck
<1>2. SchedulerInv /\ StuckInv /\ [Next]_vars => StuckInv'
  <2> SUFFICES ASSUME SchedulerInv, StuckInv, [Next]_vars PROVE StuckInv'
    OBVIOUS
  <2>1. CASE SchedulerThread
    BY <2>1, StuckStep
  <2>2. CASE UNCHANGED <<current, pc, method>>
    BY <2>2 DEF StuckInv, Stuck
  <2>3. QED
    BY <2>1, <2>2 DEF Next, vars, choice, Scheduling, SetCSDInfo, SetAlgorithm
<1>3. StuckInv => StuckOnlyByManySsts
  BY DEF StuckInv, StuckOnlyByManySsts, Stuck
<1>4. QED
  BY <1>1, <1>2, <1>3, SchedulerStart, SchedulerStep, PTL DEF Spec
------------------------------------------------------------------------------
(* The messages.                                                             *)

\* Each message was made for some SSTs of its snippet, at least one.
MessagesMade ==
  \A m \in sent : \E s \in Snippet : \E c : \E S \in SUBSET Ssts(s) : S # {} /\ m = MessageTo(s, c, S)

\* What serialize makes for SSTs of one kind in one partition describes them: the list it
\* keeps is the one they are in (snippet_manager.cc:44-110).
LEMMA MessageDescribes ==
  ASSUME NEW s \in Snippet, NEW c, NEW S \in SUBSET Ssts(s), S # {}
  PROVE  LET m == MessageTo(s, c, S) IN Described(SstInfo[s], m) \/ Mixed(SstInfo[s], m)
<1> DEFINE m == MessageTo(s, c, S)
           info == SstInfo[s]
           whole == {i \in S : info[i].listed[c] = <<>>}
           runs == UNION {Listed(info, i, c) : i \in S}
<1>1. /\ m.csd = c /\ m.ssts = S /\ m.block_info = BlockInfo(info, c, S)
      /\ m.csd_block_count = CsdBlockCount(info, c, S)
  BY DEF MessageTo, Serialize
<1>2. /\ m.block_info.partition = info[Min(S)].part[c]
      /\ m.block_info.block = runs
      /\ m.block_info.sst_list = IF runs # {} THEN {} ELSE whole
  BY <1>1 DEF BlockInfo
<1>3. Min(S) \in S
  <2>1. S \in SUBSET Nat
    BY SstTypes
  <2>2. QED
    BY <2>1, MinOf
<1> HIDE DEF m
<1> SUFFICES ASSUME ~ Mixed(info, m) PROVE Described(info, m)
  BY DEF m
<1>4. \A i, j \in S : /\ info[i].part[c] = info[j].part[c]
                      /\ info[i].listed[c] = <<>> => info[j].listed[c] = <<>>
  BY <1>1 DEF Mixed
<1>5. \A i \in S : info[i].part[m.csd] = m.block_info.partition
  BY <1>1, <1>2, <1>3, <1>4
<1>6. CASE whole = S
  <2>1. runs = {}
    BY <1>6 DEF Listed
  <2>2. m.block_info.block = {} /\ m.block_info.sst_list = S
    BY <1>2, <1>6, <2>1
  <2>3. UNION {BlocksOf(info, i, c) : i \in S} = UNION {WholeBlocks(info, i) : i \in S}
    BY <1>6 DEF BlocksOf
  <2>4. UNION {RunBlocks(info, b[1], b[2], m.csd) : b \in m.block_info.block} = {}
    BY <2>2
  <2>5. m.csd_block_count = Cardinality((UNION {WholeBlocks(info, i) : i \in m.block_info.sst_list})
                   \cup (UNION {RunBlocks(info, b[1], b[2], m.csd) : b \in m.block_info.block}))
    BY <1>1, <2>2, <2>3, <2>4 DEF CsdBlockCount
  <2>6. QED
    BY <1>1, <1>5, <2>2, <2>5 DEF Described
<1>7. CASE whole # S
  <2>1. \A i \in S : info[i].listed[c] # <<>>
    BY <1>4, <1>7
  <2>2. m.block_info.sst_list = {}
    BY <1>2, <2>1
  <2>3. \A i \in S : BlocksOf(info, i, c) = UNION {RunBlocks(info, i, k, c) : k \in DOMAIN info[i].listed[c]}
    BY <2>1 DEF BlocksOf
  <2>4. UNION {BlocksOf(info, i, c) : i \in S} = UNION {RunBlocks(info, b[1], b[2], c) : b \in runs}
    <3>1. ASSUME NEW x, NEW i \in S, x \in BlocksOf(info, i, c)
          PROVE  \E b \in runs : x \in RunBlocks(info, b[1], b[2], c)
      <4>1. PICK k \in DOMAIN info[i].listed[c] : x \in RunBlocks(info, i, k, c)
        BY <2>3, <3>1
      <4>2. <<i, k>> \in runs /\ <<i, k>>[1] = i /\ <<i, k>>[2] = k
        BY DEF Listed
      <4>3. QED
        BY <4>1, <4>2
    <3>2. ASSUME NEW x, NEW b \in runs, x \in RunBlocks(info, b[1], b[2], c)
          PROVE  \E i \in S : x \in BlocksOf(info, i, c)
      <4>1. PICK i \in S : b \in Listed(info, i, c)
        OBVIOUS
      <4>2. PICK k \in DOMAIN info[i].listed[c] : b = <<i, k>>
        BY <4>1 DEF Listed
      <4>3. x \in RunBlocks(info, i, k, c)
        BY <3>2, <4>2
      <4>4. QED
        BY <2>3, <4>3
    <3> HIDE DEF runs, info
    <3>3. QED
      BY <3>1, <3>2
  <2>5. UNION {WholeBlocks(info, i) : i \in m.block_info.sst_list} = {}
    BY <2>2
  <2>6. m.csd_block_count = Cardinality((UNION {WholeBlocks(info, i) : i \in m.block_info.sst_list})
                   \cup (UNION {RunBlocks(info, b[1], b[2], m.csd) : b \in m.block_info.block}))
    <3> DEFINE named == UNION {RunBlocks(info, b[1], b[2], c) : b \in runs}
    <3>1. UNION {RunBlocks(info, b[1], b[2], m.csd) : b \in m.block_info.block} = named
      BY <1>1, <1>2
    <3>2. m.csd_block_count = Cardinality(named)
      BY <1>1, <2>4 DEF CsdBlockCount
    <3> HIDE DEF named
    <3>3. QED
      BY <2>5, <3>1, <3>2
  <2>7. \A i \in S : Listed(info, i, c) \subseteq m.block_info.block
    BY <1>2
  <2>8. QED
    BY <1>1, <1>5, <2>1, <2>6, <2>7 DEF Described
<1>8. QED
  BY <1>6, <1>7

\* setupSnippet keeps it, and nothing else sends.
LEMMA MadeStep ==
  ASSUME SchedulerInv, MessagesMade, [Next]_vars
  PROVE  MessagesMade'
<1>1. CASE sent' = sent
  BY <1>1 DEF MessagesMade
<1>2. CASE SetupSnippet
  <2>1. /\ current \in Snippet /\ DOMAIN bestcsd \subseteq Ssts(current)
        /\ sent' = sent \cup Groups(current, bestcsd)
    BY <1>2 DEF SetupSnippet, SchedulerInv, Types, Chosen, HoldersSoFar
  <2>2. ASSUME NEW m \in Groups(current, bestcsd)
        PROVE  \E s \in Snippet : \E c : \E S \in SUBSET Ssts(s) : S # {} /\ m = MessageTo(s, c, S)
    <3>1. PICK c \in Range(bestcsd) : m = MessageTo(current, c, {i \in DOMAIN bestcsd : bestcsd[i] = c})
      BY <2>2 DEF Groups
    <3>2. {i \in DOMAIN bestcsd : bestcsd[i] = c} # {}
      BY DEF Range
    <3>3. QED
      BY <2>1, <3>1, <3>2
  <2>3. QED
    BY <2>1, <2>2 DEF MessagesMade
<1>3. QED
  BY <1>1, <1>2 DEF Next, vars, choice, Scheduling, SetCSDInfo, SetAlgorithm, SchedulerThread, PopQueue,
     GetBestCSD, DcsSingle, DcsCompare, DcsAssign, DfaAssign, DfaSpin, DsiSelect, AllAssigned

\* For every snippet, any number of SSTs in any partitions, and whichever CSD is picked for
\* each: a message names what its SSTs have on its CSD and counts those blocks, unless it
\* mixes SSTs that are read whole with others, or partitions (snippet_manager.cc:21-131).
THEOREM MessagesAreDescriptions ==
  ASSUME DsiPicksHolders
  PROVE  Spec => []MessagesDescribeTheirSsts
<1>1. Init => MessagesMade
  BY DEF Init, MessagesMade
<1>2. MessagesMade => MessagesDescribeTheirSsts
  <2> SUFFICES ASSUME MessagesMade, NEW m \in sent
               PROVE  Described(SstInfo[m.snippet], m) \/ Mixed(SstInfo[m.snippet], m)
    BY DEF MessagesDescribeTheirSsts
  <2>1. PICK s \in Snippet : \E c : \E S \in SUBSET Ssts(s) : S # {} /\ m = MessageTo(s, c, S)
    BY DEF MessagesMade
  <2>2. PICK c : \E S \in SUBSET Ssts(s) : S # {} /\ m = MessageTo(s, c, S)
    BY <2>1
  <2>3. PICK S \in SUBSET Ssts(s) : S # {} /\ m = MessageTo(s, c, S)
    BY <2>2
  <2>4. m.snippet = s
    BY <2>3 DEF MessageTo, Serialize
  <2>5. QED
    BY <2>3, <2>4, MessageDescribes
<1>3. QED
  BY <1>1, <1>2, MadeStep, SchedulerStart, SchedulerStep, PTL DEF Spec
------------------------------------------------------------------------------
(* The columns.                                                              *)

\* Induction over numbers, for a set of them.
LEMMA Inductive ==
  ASSUME NEW S, 0 \in S, \A n \in Nat : n \in S => n + 1 \in S
  PROVE  \A n \in Nat : n \in S
<1> SUFFICES ASSUME NEW m \in Nat, m \notin S PROVE FALSE
  OBVIOUS
<1> DEFINE T == Nat \ S
<1>1. IsWellFoundedOn(OpToRel(<, Nat), Nat)
  BY NatLessThanWellFounded
<1>2. PICK x \in T : \A y \in T : ~ (<<y, x>> \in OpToRel(<, Nat))
  <2>1. T \subseteq Nat /\ T # {}
    OBVIOUS
  <2> HIDE DEF T
  <2>2. QED
    BY <1>1, <2>1, WFMin
<1>3. x - 1 \in Nat /\ x - 1 \in T
  OBVIOUS
<1>4. <<x - 1, x>> \in OpToRel(<, Nat)
  BY <1>3 DEF OpToRel
<1>5. QED
  BY <1>2, <1>3, <1>4

\* The stacks of calcul_return_column_type, token by token.
LEMMA PostfixStacksAre ==
  ASSUME NEW schema, NEW tokens, Len(tokens) \in Nat
  PROVE  LET s == PostfixStacks(schema, tokens)
         IN  /\ s[0] = [types |-> <<>>, sizes |-> <<>>]
             /\ \A k \in 1..Len(tokens) : s[k] = Pushed(schema, s[k - 1], tokens[k])
<1> DEFINE n == Len(tokens)
           none == [types |-> <<>>, sizes |-> <<>>]
           Is(f, m) == f = [k \in 0..m |-> IF k = 0 THEN none ELSE Pushed(schema, f[k - 1], tokens[k])]
           S == {m \in Nat : \E f : Is(f, m)}
           K == CHOOSE f : Is(f, n)
<1>1. PostfixStacks(schema, tokens) = K
  BY DEF PostfixStacks
<1> HIDE DEF none
<1>2. 0 \in S
  <2> DEFINE g == [k \in 0..0 |-> none]
  <2>1. Is(g, 0)
    OBVIOUS
  <2> HIDE DEF Is
  <2>2. QED
    BY <2>1
<1>3. ASSUME NEW m \in Nat, m \in S PROVE m + 1 \in S
  <2>1. PICK g : Is(g, m)
    BY <1>3
  <2> DEFINE f == [k \in 0..(m + 1) |-> IF k = m + 1 THEN Pushed(schema, g[m], tokens[m + 1]) ELSE g[k]]
  <2>2. \A k \in 0..m : f[k] = g[k] /\ g[k] = IF k = 0 THEN none ELSE Pushed(schema, g[k - 1], tokens[k])
    BY <2>1
  <2>3. f[m + 1] = Pushed(schema, g[m], tokens[m + 1])
    OBVIOUS
  <2>4. DOMAIN f = 0..(m + 1) /\ f = [k \in 0..(m + 1) |-> f[k]]
    OBVIOUS
  <2> HIDE DEF f
  <2>5. ASSUME NEW k \in 0..(m + 1)
        PROVE  f[k] = IF k = 0 THEN none ELSE Pushed(schema, f[k - 1], tokens[k])
    <3>1. CASE k = m + 1
      <4>1. k - 1 = m /\ m \in 0..m /\ k # 0
        BY <3>1
      <4>2. QED
        BY <2>2, <2>3, <3>1, <4>1
    <3>2. CASE k # m + 1
      <4>1. k \in 0..m /\ (k # 0 => k - 1 \in 0..m)
        BY <3>2
      <4>2. QED
        BY <2>2, <4>1
    <3>3. QED
      BY <3>1, <3>2
  <2>6. Is(f, m + 1)
    BY <2>4, <2>5
  <2> HIDE DEF Is
  <2>7. QED
    BY <2>6
<1>4. \E f : Is(f, n)
  <2>1. n \in S
    <3> HIDE DEF S
    <3>1. QED
      BY <1>2, <1>3, Inductive
  <2>2. QED
    BY <2>1
<1>5. Is(K, n)
  <2> HIDE DEF Is
  <2>1. QED
    BY <1>4
<1> HIDE DEF K
<1>6. K[0] = none /\ \A k \in 1..n : K[k] = Pushed(schema, K[k - 1], tokens[k])
  <2>1. \A k \in 0..n : K[k] = IF k = 0 THEN none ELSE Pushed(schema, K[k - 1], tokens[k])
    BY <1>5
  <2>2. 0 \in 0..n /\ \A k \in 1..n : k \in 0..n /\ k # 0
    OBVIOUS
  <2>3. QED
    BY <2>1, <2>2
<1>7. QED
  BY <1>1, <1>6 DEF none

\* The stack that is asked for, token by token.
LEMMA StacksAskedAre ==
  ASSUME NEW schema, NEW tokens, Len(tokens) \in Nat
  PROVE  LET s == StacksAsked(schema, tokens)
         IN  /\ s[0] = <<>>
             /\ \A k \in 1..Len(tokens) : s[k] = Evaluated(schema, s[k - 1], tokens[k])
<1> DEFINE n == Len(tokens)
           none == <<>>
           Is(f, m) == f = [k \in 0..m |-> IF k = 0 THEN none ELSE Evaluated(schema, f[k - 1], tokens[k])]
           S == {m \in Nat : \E f : Is(f, m)}
           K == CHOOSE f : Is(f, n)
<1>1. StacksAsked(schema, tokens) = K
  BY DEF StacksAsked
<1> HIDE DEF none
<1>2. 0 \in S
  <2> DEFINE g == [k \in 0..0 |-> none]
  <2>1. Is(g, 0)
    OBVIOUS
  <2> HIDE DEF Is
  <2>2. QED
    BY <2>1
<1>3. ASSUME NEW m \in Nat, m \in S PROVE m + 1 \in S
  <2>1. PICK g : Is(g, m)
    BY <1>3
  <2> DEFINE f == [k \in 0..(m + 1) |-> IF k = m + 1 THEN Evaluated(schema, g[m], tokens[m + 1]) ELSE g[k]]
  <2>2. \A k \in 0..m : f[k] = g[k] /\ g[k] = IF k = 0 THEN none ELSE Evaluated(schema, g[k - 1], tokens[k])
    BY <2>1
  <2>3. f[m + 1] = Evaluated(schema, g[m], tokens[m + 1])
    OBVIOUS
  <2>4. DOMAIN f = 0..(m + 1) /\ f = [k \in 0..(m + 1) |-> f[k]]
    OBVIOUS
  <2> HIDE DEF f
  <2>5. ASSUME NEW k \in 0..(m + 1)
        PROVE  f[k] = IF k = 0 THEN none ELSE Evaluated(schema, f[k - 1], tokens[k])
    <3>1. CASE k = m + 1
      <4>1. k - 1 = m /\ m \in 0..m /\ k # 0
        BY <3>1
      <4>2. QED
        BY <2>2, <2>3, <3>1, <4>1
    <3>2. CASE k # m + 1
      <4>1. k \in 0..m /\ (k # 0 => k - 1 \in 0..m)
        BY <3>2
      <4>2. QED
        BY <2>2, <4>1
    <3>3. QED
      BY <3>1, <3>2
  <2>6. Is(f, m + 1)
    BY <2>4, <2>5
  <2> HIDE DEF Is
  <2>7. QED
    BY <2>6
<1>4. \E f : Is(f, n)
  <2>1. n \in S
    <3> HIDE DEF S
    <3>1. QED
      BY <1>2, <1>3, Inductive
  <2>2. QED
    BY <2>1
<1>5. Is(K, n)
  <2> HIDE DEF Is
  <2>1. QED
    BY <1>4
<1> HIDE DEF K
<1>6. K[0] = none /\ \A k \in 1..n : K[k] = Evaluated(schema, K[k - 1], tokens[k])
  <2>1. \A k \in 0..n : K[k] = IF k = 0 THEN none ELSE Evaluated(schema, K[k - 1], tokens[k])
    BY <1>5
  <2>2. 0 \in 0..n /\ \A k \in 1..n : k \in 0..n /\ k # 0
    OBVIOUS
  <2>3. QED
    BY <2>1, <2>2
<1>7. QED
  BY <1>1, <1>6 DEF none

\* The columns of a snippet, projection by projection.
LEMMA ReturnColumnsAre ==
  ASSUME NEW schema, NEW projections, Len(projections) \in Nat
  PROVE  \E s : /\ ReturnColumns(schema, projections) = s[Len(projections)]
                /\ s[0] = <<>>
                /\ \A k \in 1..Len(projections) : s[k] = s[k - 1] \o ColumnsOf(schema, projections[k])
<1> DEFINE n == Len(projections)
           none == <<>>
           Is(f, m) == f = [k \in 0..m |-> IF k = 0 THEN none ELSE f[k - 1] \o ColumnsOf(schema, projections[k])]
           S == {m \in Nat : \E f : Is(f, m)}
           K == CHOOSE f : Is(f, n)
<1>1. ReturnColumns(schema, projections) = K[n]
  BY DEF ReturnColumns
<1> HIDE DEF none
<1>2. 0 \in S
  <2> DEFINE g == [k \in 0..0 |-> none]
  <2>1. Is(g, 0)
    OBVIOUS
  <2> HIDE DEF Is
  <2>2. QED
    BY <2>1
<1>3. ASSUME NEW m \in Nat, m \in S PROVE m + 1 \in S
  <2>1. PICK g : Is(g, m)
    BY <1>3
  <2> DEFINE f == [k \in 0..(m + 1) |-> IF k = m + 1 THEN g[m] \o ColumnsOf(schema, projections[m + 1]) ELSE g[k]]
  <2>2. \A k \in 0..m : f[k] = g[k] /\ g[k] = IF k = 0 THEN none ELSE g[k - 1] \o ColumnsOf(schema, projections[k])
    BY <2>1
  <2>3. f[m + 1] = g[m] \o ColumnsOf(schema, projections[m + 1])
    OBVIOUS
  <2>4. DOMAIN f = 0..(m + 1) /\ f = [k \in 0..(m + 1) |-> f[k]]
    OBVIOUS
  <2> HIDE DEF f
  <2>5. ASSUME NEW k \in 0..(m + 1)
        PROVE  f[k] = IF k = 0 THEN none ELSE f[k - 1] \o ColumnsOf(schema, projections[k])
    <3>1. CASE k = m + 1
      <4>1. k - 1 = m /\ m \in 0..m /\ k # 0
        BY <3>1
      <4>2. QED
        BY <2>2, <2>3, <3>1, <4>1
    <3>2. CASE k # m + 1
      <4>1. k \in 0..m /\ (k # 0 => k - 1 \in 0..m)
        BY <3>2
      <4>2. QED
        BY <2>2, <4>1
    <3>3. QED
      BY <3>1, <3>2
  <2>6. Is(f, m + 1)
    BY <2>4, <2>5
  <2> HIDE DEF Is
  <2>7. QED
    BY <2>6
<1>4. \E f : Is(f, n)
  <2>1. n \in S
    <3> HIDE DEF S
    <3>1. QED
      BY <1>2, <1>3, Inductive
  <2>2. QED
    BY <2>1
<1>5. Is(K, n)
  <2> HIDE DEF Is
  <2>1. QED
    BY <1>4
<1> HIDE DEF K
<1>6. K[0] = none /\ \A k \in 1..n : K[k] = K[k - 1] \o ColumnsOf(schema, projections[k])
  <2>1. \A k \in 0..n : K[k] = IF k = 0 THEN none ELSE K[k - 1] \o ColumnsOf(schema, projections[k])
    BY <1>5
  <2>2. 0 \in 0..n /\ \A k \in 1..n : k \in 0..n /\ k # 0
    OBVIOUS
  <2>3. QED
    BY <2>1, <2>2
<1>7. QED
  BY <1>1, <1>6 DEF none

\* The types that occur in an expression.
Kinds(schema, tokens) ==
  {Decimal, 5, 8, Int32} \cup {t.type : t \in Range(tokens)}
    \cup {schema[t.text].type : t \in Range(tokens)} \cup {TypeAsked(schema, t) : t \in Range(tokens)}

\* The sizes on the second stack are those of the decimals on the first, in order.
Ranks(a, z, e) ==
  /\ e \in [1..Len(z) -> 1..Len(a)]
  /\ \A i, j \in 1..Len(z) : i < j => e[i] < e[j]
  /\ \A p \in 1..Len(a) : a[p].type = Decimal => \E i \in 1..Len(z) : e[i] = p
  /\ \A i \in 1..Len(z) : a[e[i]].type = Decimal /\ z[i] = a[e[i]].size

\* The two stacks of the code, `types' and `sizes', and the one asked for.
Matches(K, a, types, sizes) ==
  /\ a \in Seq([type : K, size : Nat]) /\ types \in Seq(K) /\ sizes \in Seq(Nat)
  /\ Len(types) = Len(a)
  /\ \A p \in 1..Len(a) : /\ types[p] = Decimal <=> a[p].type = Decimal
                          /\ a[p].type # Decimal => a[p].size = 0
  /\ \E e : Ranks(a, sizes, e)

\* A value that is no decimal is put on both stacks of types, and has no size.
LEMMA PlainMatches ==
  ASSUME NEW K, NEW a, NEW types, NEW sizes, Matches(K, a, types, sizes),
         NEW x \in K, NEW y \in K, x # Decimal, y # Decimal
  PROVE  Matches(K, Append(a, [type |-> x, size |-> 0]), Append(types, y), sizes)
<1> DEFINE n == Len(a)
           m == Len(sizes)
           v == [type |-> x, size |-> 0]
           b == Append(a, v)
           u == Append(types, y)
<1>1. /\ a \in Seq([type : K, size : Nat]) /\ types \in Seq(K) /\ sizes \in Seq(Nat)
      /\ Len(types) = n /\ n \in Nat /\ m \in Nat
  BY DEF Matches
<1>2. v \in [type : K, size : Nat] /\ v.type = x /\ v.size = 0
  OBVIOUS
<1> HIDE DEF v
<1>3. /\ b \in Seq([type : K, size : Nat]) /\ Len(b) = n + 1 /\ b[n + 1] = v
      /\ \A p \in 1..n : b[p] = a[p]
  BY <1>1, <1>2
<1>4. u \in Seq(K) /\ Len(u) = n + 1 /\ u[n + 1] = y /\ \A p \in 1..n : u[p] = types[p]
  BY <1>1
<1>5. PICK e : Ranks(a, sizes, e)
  BY DEF Matches
<1> HIDE DEF n, m, b, u
<1>6. \A p \in 1..(n + 1) : p = n + 1 \/ p \in 1..n
  BY <1>1
<1>7. Ranks(b, sizes, e)
  <2>1. e \in [1..m -> 1..n]
    BY <1>5 DEF Ranks, n, m
  <2>2. e \in [1..m -> 1..(n + 1)] /\ \A i \in 1..m : e[i] \in 1..n
    BY <1>1, <2>1
  <2>3. \A i, j \in 1..m : i < j => e[i] < e[j]
    BY <1>5 DEF Ranks, m
  <2>4. \A p \in 1..(n + 1) : b[p].type = Decimal => \E i \in 1..m : e[i] = p
    BY <1>2, <1>3, <1>5, <1>6 DEF Ranks, m, n
  <2>5. \A i \in 1..m : b[e[i]].type = Decimal /\ sizes[i] = b[e[i]].size
    BY <1>3, <1>5, <2>2 DEF Ranks, m
  <2>6. QED
    BY <1>3, <2>2, <2>3, <2>4, <2>5 DEF Ranks, m
<1>8. \A p \in 1..(n + 1) : /\ u[p] = Decimal <=> b[p].type = Decimal
                            /\ b[p].type # Decimal => b[p].size = 0
  <2>1. \A p \in 1..n : /\ types[p] = Decimal <=> a[p].type = Decimal
                        /\ a[p].type # Decimal => a[p].size = 0
    BY DEF Matches, n
  <2>2. QED
    BY <1>2, <1>3, <1>4, <1>6, <2>1
<1>9. Matches(K, b, u, sizes)
  BY <1>1, <1>3, <1>4, <1>7, <1>8 DEF Matches
<1>10. QED
  BY <1>9 DEF b, u, v

\* A column of decimals is, and its size is put on the stack of sizes.
LEMMA DecimalMatches ==
  ASSUME NEW K, NEW a, NEW types, NEW sizes, Matches(K, a, types, sizes), Decimal \in K
  PROVE  Matches(K, Append(a, [type |-> Decimal, size |-> 1]), Append(types, Decimal), Append(sizes, 1))
<1> DEFINE n == Len(a)
           m == Len(sizes)
           v == [type |-> Decimal, size |-> 1]
           b == Append(a, v)
           u == Append(types, Decimal)
           z == Append(sizes, 1)
<1>1. /\ a \in Seq([type : K, size : Nat]) /\ types \in Seq(K) /\ sizes \in Seq(Nat)
      /\ Len(types) = n /\ n \in Nat /\ m \in Nat
  BY DEF Matches
<1>2. v \in [type : K, size : Nat] /\ v.type = Decimal /\ v.size = 1
  OBVIOUS
<1> HIDE DEF v
<1>3. /\ b \in Seq([type : K, size : Nat]) /\ Len(b) = n + 1 /\ b[n + 1] = v
      /\ \A p \in 1..n : b[p] = a[p]
  BY <1>1, <1>2
<1>4. u \in Seq(K) /\ Len(u) = n + 1 /\ u[n + 1] = Decimal /\ \A p \in 1..n : u[p] = types[p]
  BY <1>1
<1>5. z \in Seq(Nat) /\ Len(z) = m + 1 /\ z[m + 1] = 1 /\ \A i \in 1..m : z[i] = sizes[i]
  BY <1>1
<1>6. PICK e : Ranks(a, sizes, e)
  BY DEF Matches
<1> DEFINE f == [i \in 1..(m + 1) |-> IF i = m + 1 THEN n + 1 ELSE e[i]]
<1> HIDE DEF n, m, b, u, z
<1>7. /\ \A p \in 1..(n + 1) : p = n + 1 \/ p \in 1..n
      /\ \A i \in 1..(m + 1) : i = m + 1 \/ i \in 1..m
  BY <1>1
<1>8. /\ e \in [1..m -> 1..n]
      /\ \A i, j \in 1..m : i < j => e[i] < e[j]
      /\ \A p \in 1..n : a[p].type = Decimal => \E i \in 1..m : e[i] = p
      /\ \A i \in 1..m : a[e[i]].type = Decimal /\ sizes[i] = a[e[i]].size
  BY <1>6 DEF Ranks, n, m
<1>9. f[m + 1] = n + 1 /\ \A i \in 1..m : f[i] = e[i] /\ f[i] \in 1..n
  BY <1>1, <1>8
<1>10. f \in [1..(m + 1) -> 1..(n + 1)]
  BY <1>1, <1>8
<1> HIDE DEF f
<1>11. Ranks(b, z, f)
  <2>2. \A i, j \in 1..(m + 1) : i < j => f[i] < f[j]
    <3> SUFFICES ASSUME NEW i \in 1..(m + 1), NEW j \in 1..(m + 1), i < j PROVE f[i] < f[j]
      OBVIOUS
    <3>1. i \in 1..m
      BY <1>1
    <3>2. CASE j = m + 1
      BY <1>1, <1>9, <3>1, <3>2
    <3>3. CASE j \in 1..m
      BY <1>8, <1>9, <3>1, <3>3
    <3>4. QED
      BY <1>7, <3>2, <3>3
  <2>3. \A p \in 1..(n + 1) : b[p].type = Decimal => \E i \in 1..(m + 1) : f[i] = p
    <3>1. m + 1 \in 1..(m + 1) /\ \A i \in 1..m : i \in 1..(m + 1)
      BY <1>1
    <3>2. QED
      BY <1>3, <1>7, <1>8, <1>9, <3>1
  <2>4. \A i \in 1..(m + 1) : b[f[i]].type = Decimal /\ z[i] = b[f[i]].size
    <3> SUFFICES ASSUME NEW i \in 1..(m + 1) PROVE b[f[i]].type = Decimal /\ z[i] = b[f[i]].size
      OBVIOUS
    <3>1. CASE i = m + 1
      BY <1>2, <1>3, <1>5, <1>9, <3>1
    <3>2. CASE i \in 1..m
      <4>1. f[i] = e[i] /\ b[f[i]] = a[f[i]] /\ z[i] = sizes[i]
        BY <1>3, <1>5, <1>9, <3>2
      <4>2. QED
        BY <1>8, <3>2, <4>1
    <3>3. QED
      BY <1>7, <3>1, <3>2
  <2>5. QED
    BY <1>3, <1>5, <1>10, <2>2, <2>3, <2>4 DEF Ranks
<1>12. \A p \in 1..(n + 1) : /\ u[p] = Decimal <=> b[p].type = Decimal
                             /\ b[p].type # Decimal => b[p].size = 0
  <2>1. \A p \in 1..n : /\ types[p] = Decimal <=> a[p].type = Decimal
                        /\ a[p].type # Decimal => a[p].size = 0
    BY DEF Matches, n
  <2>2. QED
    BY <1>2, <1>3, <1>4, <1>7, <2>1
<1>13. Matches(K, b, u, z)
  BY <1>3, <1>4, <1>5, <1>11, <1>12 DEF Matches
<1>14. QED
  BY <1>13 DEF b, u, v, z

\* The type that an operation is to have.
LEMMA PromotedIs ==
  ASSUME NEW x, NEW y
  PROVE  /\ Promoted(x, y) \in {Decimal, 5, 8, Int32}
         /\ Promoted(x, y) = Decimal <=> Decimal \in {x, y}
         /\ {4, 5, 8, Decimal} \cap {x, y} = {} => Promoted(x, y) = Int32
<1>1. CASE Decimal \in {x, y}
  <2>1. Promoted(x, y) = Decimal
    BY <1>1 DEF Promoted
  <2>2. QED
    BY <1>1, <2>1
<1>2. CASE Decimal \notin {x, y} /\ {4, 5} \cap {x, y} # {}
  <2>1. Promoted(x, y) = 5
    BY <1>2 DEF Promoted
  <2>2. Decimal # 5
    BY DEF Decimal
  <2>3. {4, 5, 8, Decimal} \cap {x, y} # {}
    BY <1>2
  <2>4. QED
    BY <1>2, <2>1, <2>2, <2>3
<1>3. CASE {Decimal, 4, 5} \cap {x, y} = {} /\ 8 \in {x, y}
  <2>1. Decimal \notin {x, y} /\ {4, 5} \cap {x, y} = {}
    BY <1>3
  <2>2. Promoted(x, y) = 8
    BY <1>3, <2>1 DEF Promoted
  <2>3. Decimal # 8
    BY DEF Decimal
  <2>4. {4, 5, 8, Decimal} \cap {x, y} # {}
    BY <1>3
  <2>5. QED
    BY <2>1, <2>2, <2>3, <2>4
<1>4. CASE {Decimal, 4, 5} \cap {x, y} = {} /\ 8 \notin {x, y}
  <2>1. Decimal \notin {x, y} /\ {4, 5} \cap {x, y} = {}
    BY <1>4
  <2>2. Promoted(x, y) = Int32
    BY <1>4, <2>1 DEF Promoted
  <2>3. Int32 # Decimal
    BY DEF Decimal, Int32
  <2>4. QED
    BY <2>1, <2>2, <2>3
<1>5. QED
  <2>1. Decimal \notin {x, y} /\ ~ ({4, 5} \cap {x, y} # {}) => {Decimal, 4, 5} \cap {x, y} = {}
    OBVIOUS
  <2>2. QED
    BY <1>1, <1>2, <1>3, <1>4, <2>1

\* The larger of two sizes.
LEMMA MaxOfTwo ==
  ASSUME NEW x \in Nat, NEW y \in Nat
  PROVE  Max({x, y}) = IF x >= y THEN x ELSE y
<1> DEFINE z == IF x >= y THEN x ELSE y
<1>1. z \in {x, y} /\ \A w \in {x, y} : z >= w
  OBVIOUS
<1>2. \A u \in {x, y} : (\A w \in {x, y} : u >= w) => u = z
  OBVIOUS
<1> HIDE DEF z
<1>3. Max({x, y}) = z
  BY <1>1, <1>2 DEF Max
<1>4. QED
  BY <1>3 DEF z

\* Two values are taken from a stack and one is put there.
Replaced(s, n, v) == Append(SubSeq(s, 1, n - 2), v)

TwoAreOne(r, X, s, n, v) ==
  /\ r \in Seq(X) /\ Len(r) = n - 1 /\ r[n - 1] = v
  /\ \A p \in 1..(n - 2) : r[p] = s[p]

\* Replaced is what TwoAreOne says.
LEMMA TwoForOne ==
  ASSUME NEW X, NEW s \in Seq(X), NEW n \in Nat, n = Len(s), n >= 2, NEW v \in X
  PROVE  TwoAreOne(Replaced(s, n, v), X, s, n, v)
<1> DEFINE q == SubSeq(s, 1, n - 2)
<1>1. q \in Seq(X) /\ Len(q) = n - 2 /\ \A p \in 1..(n - 2) : q[p] = s[p]
  OBVIOUS
<1> HIDE DEF q
<1>2. Append(q, v) \in Seq(X) /\ Len(Append(q, v)) = n - 1 /\ Append(q, v)[n - 1] = v
      /\ \A p \in 1..(n - 2) : Append(q, v)[p] = q[p]
  BY <1>1
<1>3. QED
  BY <1>1, <1>2 DEF q, Replaced, TwoAreOne

\* What the second stack is after an operation.
SizesAfter(a, sizes) ==
  LET n == Len(a)
      m == Len(sizes)
  IN  IF a[n].type = Decimal /\ a[n - 1].type = Decimal
      THEN Replaced(sizes, m, sizes[m - 1] + sizes[m])
      ELSE sizes

\* If both sides are decimals, their sizes are the two on top.
LEMMA TopSizes ==
  ASSUME NEW a, NEW sizes, NEW e, Ranks(a, sizes, e),
         NEW n \in Nat, n = Len(a), n >= 2, NEW m \in Nat, m = Len(sizes),
         a[n].type = Decimal, a[n - 1].type = Decimal
  PROVE  m >= 2 /\ e[m] = n /\ e[m - 1] = n - 1
<1>1. /\ e \in [1..m -> 1..n]
      /\ \A i, j \in 1..m : i < j => e[i] < e[j]
      /\ \A p \in 1..n : a[p].type = Decimal => \E i \in 1..m : e[i] = p
  BY DEF Ranks
<1>2. n \in 1..n /\ n - 1 \in 1..n
  OBVIOUS
<1>3. PICK i \in 1..m : e[i] = n
  BY <1>1, <1>2
<1>4. PICK j \in 1..m : e[j] = n - 1
  BY <1>1, <1>2
<1>5. j < i
  <2>1. ~ (i < j) /\ i # j
    BY <1>1, <1>3, <1>4
  <2>2. QED
    BY <2>1
<1>6. i = m
  <2> SUFFICES ASSUME i < m PROVE FALSE
    OBVIOUS
  <2>1. m \in 1..m
    OBVIOUS
  <2>2. e[m] \in 1..n /\ e[i] < e[m]
    BY <1>1, <2>1
  <2>3. QED
    BY <1>3, <2>2
<1>7. j = m - 1
  <2> SUFFICES ASSUME j < m - 1 PROVE FALSE
    BY <1>5, <1>6
  <2>1. m - 1 \in 1..m /\ m \in 1..m /\ m - 1 < m
    OBVIOUS
  <2>2. e[m - 1] \in 1..n /\ e[j] < e[m - 1] /\ e[m - 1] < e[m]
    BY <1>1, <2>1
  <2>3. QED
    BY <1>3, <1>4, <1>6, <2>2
<1>8. QED
  BY <1>3, <1>4, <1>5, <1>6, <1>7

\* The sizes after an operation are those of the decimals that are left.
LEMMA RanksAfter ==
  ASSUME NEW K, NEW a, NEW types, NEW sizes, Matches(K, a, types, sizes),
         NEW n \in Nat, n = Len(a), n >= 2,
         NEW b, Len(b) = n - 1, \A p \in 1..(n - 2) : b[p] = a[p],
         b[n - 1].type = Decimal <=> Decimal \in {a[n].type, a[n - 1].type},
         b[n - 1].size = a[n - 1].size + a[n].size
  PROVE  SizesAfter(a, sizes) \in Seq(Nat) /\ \E e : Ranks(b, SizesAfter(a, sizes), e)
<1> DEFINE m == Len(sizes)
<1>1. /\ sizes \in Seq(Nat) /\ m \in Nat
      /\ \A p \in 1..n : a[p].size \in Nat
      /\ \A i \in 1..m : sizes[i] \in Nat
      /\ \A p \in 1..n : a[p].type # Decimal => a[p].size = 0
  <2>1. /\ sizes \in Seq(Nat)
        /\ \A p \in 1..n : a[p].type # Decimal => a[p].size = 0
    BY DEF Matches
  <2>2. \A p \in 1..n : a[p] \in [type : K, size : Nat]
    <3> DEFINE E == [type : K, size : Nat]
    <3> HIDE DEF E
    <3>1. a \in Seq(E)
      BY DEF Matches, E
    <3>2. \A p \in 1..n : a[p] \in E
      BY <3>1
    <3>3. QED
      BY <3>2 DEF E
  <2>3. m \in Nat /\ \A i \in 1..m : sizes[i] \in Nat
    BY <2>1
  <2>4. \A p \in 1..n : a[p].size \in Nat
    BY <2>2
  <2> HIDE DEF m
  <2>5. QED
    BY <2>1, <2>3, <2>4
<1>2. PICK e : Ranks(a, sizes, e)
  BY DEF Matches
<1> HIDE DEF m
<1>3. /\ e \in [1..m -> 1..n]
      /\ \A i, j \in 1..m : i < j => e[i] < e[j]
      /\ \A p \in 1..n : a[p].type = Decimal => \E i \in 1..m : e[i] = p
      /\ \A i \in 1..m : a[e[i]].type = Decimal /\ sizes[i] = a[e[i]].size
  BY <1>2 DEF Ranks, m
<1>4. n \in 1..n /\ n - 1 \in 1..n /\ \A p \in 1..(n - 1) : p = n - 1 \/ p \in 1..(n - 2)
  OBVIOUS
<1>5. \A p \in 1..(n - 2) : p \in 1..n /\ p \in 1..(n - 1)
  OBVIOUS
<1>6. CASE a[n].type = Decimal /\ a[n - 1].type = Decimal
  <2> DEFINE z == Replaced(sizes, m, sizes[m - 1] + sizes[m])
             f == [i \in 1..(m - 1) |-> IF i = m - 1 THEN n - 1 ELSE e[i]]
  <2>1. m \in Nat /\ m >= 2 /\ e[m] = n /\ e[m - 1] = n - 1
    <3>1. m \in Nat
      BY <1>1
    <3>2. QED
      BY <1>2, <1>6, <3>1, TopSizes DEF m
  <2>2. SizesAfter(a, sizes) = z
    BY <1>6 DEF SizesAfter, m
  <2>3. m \in 1..m /\ m - 1 \in 1..m /\ m - 1 \in 1..(m - 1)
    BY <1>1, <2>1
  <2>4. sizes[m - 1] + sizes[m] \in Nat /\ sizes[m - 1] + sizes[m] = b[n - 1].size
    <3>1. sizes[m - 1] \in Nat /\ sizes[m] \in Nat
      BY <1>1, <2>3
    <3>2. sizes[m - 1] = a[e[m - 1]].size /\ sizes[m] = a[e[m]].size
      BY <1>3, <2>3
    <3>3. sizes[m - 1] = a[n - 1].size /\ sizes[m] = a[n].size
      BY <2>1, <3>2
    <3>4. QED
      BY <3>1, <3>3
  <2>5. z \in Seq(Nat) /\ Len(z) = m - 1 /\ z[m - 1] = b[n - 1].size
        /\ \A i \in 1..(m - 2) : z[i] = sizes[i]
    <3> DEFINE v == sizes[m - 1] + sizes[m]
    <3>1. v \in Nat /\ v = b[n - 1].size /\ sizes \in Seq(Nat)
      BY <1>1, <2>4
    <3> HIDE DEF v
    <3>2. m = Len(sizes)
      BY DEF m
    <3>3. TwoAreOne(Replaced(sizes, m, v), Nat, sizes, m, v)
      BY <2>1, <3>1, <3>2, TwoForOne
    <3>4. QED
      BY <3>1, <3>3 DEF v, TwoAreOne
  <2> HIDE DEF z
  <2>6. \A i \in 1..(m - 1) : i = m - 1 \/ i \in 1..(m - 2)
    BY <1>1, <2>1
  <2>7. \A i \in 1..(m - 2) : i \in 1..m /\ i \in 1..(m - 1) /\ e[i] \in 1..(n - 2)
    <3> SUFFICES ASSUME NEW i \in 1..(m - 2) PROVE i \in 1..m /\ i \in 1..(m - 1) /\ e[i] \in 1..(n - 2)
      OBVIOUS
    <3>1. i \in 1..m /\ i \in 1..(m - 1) /\ i < m - 1
      BY <1>1, <2>1
    <3>2. e[i] < n - 1 /\ e[i] \in 1..n
      BY <1>3, <2>1, <2>3, <3>1
    <3>3. QED
      BY <3>1, <3>2
  <2>8. f[m - 1] = n - 1 /\ \A i \in 1..(m - 2) : f[i] = e[i]
    BY <1>1, <2>3, <2>7
  <2>9. f \in [1..(m - 1) -> 1..(n - 1)]
    <3>1. n - 1 \in 1..(n - 1)
      OBVIOUS
    <3>2. \A i \in 1..(m - 1) : (IF i = m - 1 THEN n - 1 ELSE e[i]) \in 1..(n - 1)
      BY <1>5, <2>6, <2>7, <3>1
    <3>3. QED
      BY <3>2
  <2> HIDE DEF f
  <2>10. \A i, j \in 1..(m - 1) : i < j => f[i] < f[j]
    <3> SUFFICES ASSUME NEW i \in 1..(m - 1), NEW j \in 1..(m - 1), i < j PROVE f[i] < f[j]
      OBVIOUS
    <3>1. i \in 1..(m - 2)
      BY <1>1
    <3>2. CASE j = m - 1
      BY <2>7, <2>8, <3>1, <3>2
    <3>3. CASE j \in 1..(m - 2)
      BY <1>3, <2>7, <2>8, <3>1, <3>3
    <3>4. QED
      BY <2>6, <3>2, <3>3
  <2>11. \A p \in 1..(n - 1) : b[p].type = Decimal => \E i \in 1..(m - 1) : f[i] = p
    <3> SUFFICES ASSUME NEW p \in 1..(n - 1), b[p].type = Decimal
                 PROVE  \E i \in 1..(m - 1) : f[i] = p
      OBVIOUS
    <3>1. CASE p = n - 1
      BY <2>3, <2>8, <3>1
    <3>2. CASE p \in 1..(n - 2)
      <4>1. PICK i \in 1..m : e[i] = p
        BY <1>3, <1>5, <3>2
      <4>2. i # m /\ i # m - 1
        BY <2>1, <3>2, <4>1
      <4>3. i \in 1..(m - 2)
        BY <2>1, <4>2
      <4>4. QED
        BY <2>7, <2>8, <4>1, <4>3
    <3>3. QED
      BY <1>4, <3>1, <3>2
  <2>12. \A i \in 1..(m - 1) : b[f[i]].type = Decimal /\ z[i] = b[f[i]].size
    <3> SUFFICES ASSUME NEW i \in 1..(m - 1) PROVE b[f[i]].type = Decimal /\ z[i] = b[f[i]].size
      OBVIOUS
    <3>1. CASE i = m - 1
      BY <1>6, <2>5, <2>8, <3>1
    <3>2. CASE i \in 1..(m - 2)
      <4>1. i \in 1..m /\ e[i] \in 1..(n - 2) /\ f[i] = e[i] /\ z[i] = sizes[i]
        BY <2>5, <2>7, <2>8, <3>2
      <4>2. b[e[i]] = a[e[i]] /\ a[e[i]].type = Decimal /\ sizes[i] = a[e[i]].size
        BY <1>3, <4>1
      <4>3. QED
        BY <4>1, <4>2
    <3>3. QED
      BY <2>6, <3>1, <3>2
  <2>13. Ranks(b, z, f)
    BY <2>5, <2>9, <2>10, <2>11, <2>12 DEF Ranks
  <2>14. QED
    BY <2>2, <2>5, <2>13
<1>7. CASE ~ (a[n].type = Decimal /\ a[n - 1].type = Decimal)
  <2> DEFINE f == [i \in 1..m |-> IF e[i] \in 1..(n - 2) THEN e[i] ELSE n - 1]
  <2>1. SizesAfter(a, sizes) = sizes
    BY <1>7 DEF SizesAfter
  <2>2. \A i \in 1..m : f[i] = IF e[i] \in 1..(n - 2) THEN e[i] ELSE n - 1
    OBVIOUS
  <2>3. f \in [1..m -> 1..(n - 1)]
    BY <1>3, <1>4, <1>5
  <2> HIDE DEF f
  <2>4. \A i \in 1..m : e[i] \in 1..(n - 2) \/ e[i] = n \/ e[i] = n - 1
    BY <1>3
  <2>5. \A i, j \in 1..m : i < j => f[i] < f[j]
    <3> SUFFICES ASSUME NEW i \in 1..m, NEW j \in 1..m, i < j PROVE f[i] < f[j]
      OBVIOUS
    <3>1. e[i] < e[j] /\ e[i] \in 1..n /\ e[j] \in 1..n
      BY <1>3
    <3>2. e[i] \in 1..(n - 2)
      <4>1. CASE e[i] = n
        BY <3>1, <4>1
      <4>2. CASE e[i] = n - 1
        <5>1. e[j] = n
          BY <3>1, <4>2
        <5>2. QED
          BY <1>3, <1>7, <4>2, <5>1
      <4>3. QED
        BY <2>4, <4>1, <4>2
    <3>3. f[i] = e[i]
      BY <2>2, <3>2
    <3>4. CASE e[j] \in 1..(n - 2)
      <4>1. f[j] = e[j]
        BY <2>2, <3>4
      <4>2. QED
        BY <3>1, <3>3, <4>1
    <3>5. CASE e[j] \notin 1..(n - 2)
      <4>1. f[j] = n - 1
        BY <2>2, <3>5
      <4>2. QED
        BY <3>2, <3>3, <4>1
    <3>6. QED
      BY <3>4, <3>5
  <2>6. \A p \in 1..(n - 1) : b[p].type = Decimal => \E i \in 1..m : f[i] = p
    <3> SUFFICES ASSUME NEW p \in 1..(n - 1), b[p].type = Decimal PROVE \E i \in 1..m : f[i] = p
      OBVIOUS
    <3>1. CASE p = n - 1
      <4>1. PICK q \in {n - 1, n} : a[q].type = Decimal
        BY <3>1
      <4>2. PICK i \in 1..m : e[i] = q
        BY <1>3, <1>4, <4>1
      <4>3. e[i] \notin 1..(n - 2)
        BY <4>2
      <4>4. QED
        BY <2>2, <3>1, <4>3
    <3>2. CASE p \in 1..(n - 2)
      <4>1. b[p] = a[p] /\ p \in 1..n
        BY <1>5, <3>2
      <4>2. PICK i \in 1..m : e[i] = p
        BY <1>3, <4>1
      <4>3. f[i] = p
        BY <2>2, <3>2, <4>2
      <4>4. QED
        BY <4>3
    <3>3. QED
      BY <1>4, <3>1, <3>2
  <2>7. \A i \in 1..m : b[f[i]].type = Decimal /\ sizes[i] = b[f[i]].size
    <3> SUFFICES ASSUME NEW i \in 1..m PROVE b[f[i]].type = Decimal /\ sizes[i] = b[f[i]].size
      OBVIOUS
    <3>1. a[e[i]].type = Decimal /\ sizes[i] = a[e[i]].size
      BY <1>3
    <3>2. CASE e[i] \in 1..(n - 2)
      <4>1. f[i] = e[i]
        BY <2>2, <3>2
      <4>2. b[e[i]] = a[e[i]]
        BY <3>2
      <4>3. QED
        BY <3>1, <4>1, <4>2
    <3>3. CASE e[i] = n
      <4>0. n \notin 1..(n - 2)
        OBVIOUS
      <4>1. f[i] = n - 1
        BY <2>2, <3>3, <4>0
      <4>2. a[n - 1].size = 0 /\ a[n].size \in Nat
        BY <1>1, <1>4, <1>7, <3>1, <3>3
      <4>3. QED
        BY <3>1, <3>3, <4>1, <4>2
    <3>4. CASE e[i] = n - 1
      <4>0. n - 1 \notin 1..(n - 2)
        OBVIOUS
      <4>1. f[i] = n - 1
        BY <2>2, <3>4, <4>0
      <4>2. a[n].size = 0 /\ a[n - 1].size \in Nat
        BY <1>1, <1>4, <1>7, <3>1, <3>4
      <4>3. QED
        BY <3>1, <3>4, <4>1, <4>2
    <3>5. QED
      BY <2>4, <3>2, <3>3, <3>4
  <2>8. Ranks(b, sizes, f)
    BY <2>3, <2>5, <2>6, <2>7 DEF Ranks, m
  <2>9. QED
    BY <1>1, <2>1, <2>8
<1>8. QED
  BY <1>6, <1>7

\* A set of at most two things has fewer than two, or both.
LEMMA NotBoth ==
  ASSUME NEW x, NEW y, x # y, NEW S, S \subseteq {x, y}
  PROVE  Cardinality(S) < 2 <=> S # {x, y}
<1>1. Cardinality({}) = 0 /\ IsFiniteSet({})
  BY FS_EmptySet
<1>2. Cardinality({x}) = 1 /\ Cardinality({y}) = 1 /\ IsFiniteSet({x})
  BY FS_Singleton
<1>3. Cardinality({x} \cup {y}) = 2
  BY <1>2, FS_AddElement
<1>4. {x, y} = {x} \cup {y}
  OBVIOUS
<1>5. S = {} \/ S = {x} \/ S = {y} \/ S = {x, y}
  OBVIOUS
<1>6. {x} # {x, y} /\ {y} # {x, y} /\ {} # {x, y}
  OBVIOUS
<1>7. QED
  BY <1>1, <1>2, <1>3, <1>4, <1>5, <1>6

\* Taking two entries from each stack for one keeps the stacks of the code those asked for.
LEMMA OperationMatches ==
  ASSUME NEW K, NEW a, NEW types, NEW sizes, Matches(K, a, types, sizes),
         NEW n \in Nat, n = Len(a), n >= 2, NEW v \in [type : K, size : Nat], NEW y \in K,
         v.type = Decimal <=> Decimal \in {a[n].type, a[n - 1].type},
         y = Decimal <=> v.type = Decimal,
         v.size = a[n - 1].size + a[n].size
  PROVE  Matches(K, Replaced(a, n, v), Replaced(types, n, y), SizesAfter(a, sizes))
<1> DEFINE E == [type : K, size : Nat]
           b == Replaced(a, n, v)
           u == Replaced(types, n, y)
           z == SizesAfter(a, sizes)
<1> HIDE DEF E
<1>1. /\ a \in Seq(E) /\ types \in Seq(K) /\ sizes \in Seq(Nat) /\ Len(types) = n /\ v \in E
      /\ \A p \in 1..n : /\ types[p] = Decimal <=> a[p].type = Decimal
                         /\ a[p].type # Decimal => a[p].size = 0
      /\ \A p \in 1..n : a[p].size \in Nat
  <2>1. \A p \in 1..n : a[p] \in [type : K, size : Nat]
    <3>1. a \in Seq(E)
      BY DEF Matches, E
    <3>2. \A p \in 1..n : a[p] \in E
      BY <3>1
    <3>3. QED
      BY <3>2 DEF E
  <2>2. \A p \in 1..n : a[p].size \in Nat
    BY <2>1
  <2>3. QED
    BY <2>2 DEF Matches, E
<1> HIDE DEF b, u, z
<1>2. TwoAreOne(b, E, a, n, v)
  BY <1>1, TwoForOne DEF b
<1>3. TwoAreOne(u, K, types, n, y)
  BY <1>1, TwoForOne DEF u
<1>4. b \in Seq(E) /\ Len(b) = n - 1 /\ b[n - 1] = v /\ \A p \in 1..(n - 2) : b[p] = a[p]
  BY <1>2 DEF TwoAreOne
<1>5. u \in Seq(K) /\ Len(u) = n - 1 /\ u[n - 1] = y /\ \A p \in 1..(n - 2) : u[p] = types[p]
  BY <1>3 DEF TwoAreOne
<1>6. b[n - 1].type = Decimal <=> Decimal \in {a[n].type, a[n - 1].type}
  BY <1>4
<1>7. b[n - 1].size = a[n - 1].size + a[n].size
  BY <1>4
<1>8. z \in Seq(Nat) /\ \E e : Ranks(b, z, e)
  BY <1>4, <1>6, <1>7, RanksAfter DEF z
<1>9. \A p \in 1..(n - 1) : /\ u[p] = Decimal <=> b[p].type = Decimal
                            /\ b[p].type # Decimal => b[p].size = 0
  <2>1. \A p \in 1..(n - 1) : p = n - 1 \/ (p \in 1..(n - 2) /\ p \in 1..n)
    OBVIOUS
  <2>2. n \in 1..n /\ n - 1 \in 1..n
    OBVIOUS
  <2>3. v.type # Decimal => v.size = 0
    <3>1. v.type # Decimal => a[n].size = 0 /\ a[n - 1].size = 0
      BY <1>1, <2>2
    <3>2. QED
      BY <3>1
  <2>4. u[n - 1] = Decimal <=> b[n - 1].type = Decimal
    BY <1>4, <1>5
  <2>5. SUFFICES ASSUME NEW p \in 1..(n - 1)
                 PROVE  /\ u[p] = Decimal <=> b[p].type = Decimal
                        /\ b[p].type # Decimal => b[p].size = 0
    OBVIOUS
  <2>6. CASE p = n - 1
    BY <1>4, <2>3, <2>4, <2>6
  <2>7. CASE p \in 1..(n - 2) /\ p \in 1..n
    BY <1>1, <1>4, <1>5, <2>7
  <2>8. QED
    BY <2>1, <2>6, <2>7
<1>10. Matches(K, b, u, z)
  BY <1>4, <1>5, <1>8, <1>9 DEF Matches, E
<1>11. QED
  BY <1>10 DEF b, u, z

\* Some entry is a decimal; no entry is of a type that the code does not tell from INT32.
HasDecimal(a) == \E p \in 1..Len(a) : a[p].type = Decimal
Plain(a) == \A p \in 1..Len(a) : a[p].type \notin {4, 5, 8, Decimal}

\* What an operator makes of n entries: b is asked for, u the code's.
OperatorDid(K, a, n, b, u) ==
  /\ Matches(K, b, u.types, u.sizes)
  /\ Len(b) = n - 1
  /\ b[n - 1].type \in {Decimal, 5, 8, Int32} /\ u.types[n - 1] \in {Decimal, Int32}
  /\ b[n - 1].type # Decimal => u.types[n - 1] = Int32
  /\ HasDecimal(a) => HasDecimal(b)
  /\ Plain(a) => Plain(b) /\ b[n - 1].type = Int32

\* An operator does to the stacks of the code what it does to the one asked for.
LEMMA OperatorStep ==
  ASSUME NEW K, {Decimal, 5, 8, Int32} \subseteq K, NEW schema, NEW a, NEW t, NEW token,
         Matches(K, a, t.types, t.sizes), NEW n \in Nat, n = Len(a), n >= 2,
         token.is = "operator", token.text \in {"+", "-", "*", "/"},
         ~ (token.text \in {"+", "-"} /\ a[n].type = Decimal /\ a[n - 1].type = Decimal)
  PROVE  OperatorDid(K, a, n, Evaluated(schema, a, token), Pushed(schema, t, token))
<1> DEFINE E == [type : K, size : Nat]
           x == Promoted(a[n - 1].type, a[n].type)
           v == [type |-> x, size |-> a[n - 1].size + a[n].size]
           y == IF x = Decimal THEN Decimal ELSE Int32
           b == Replaced(a, n, v)
           types == t.types
           sizes == t.sizes
           m == Len(sizes)
           operands == {k \in {n - 1, n} : types[k] = Decimal}
<1>1. /\ a \in Seq([type : K, size : Nat]) /\ types \in Seq(K) /\ sizes \in Seq(Nat) /\ Len(types) = n
      /\ \A p \in 1..n : /\ types[p] = Decimal <=> a[p].type = Decimal
                         /\ a[p].type # Decimal => a[p].size = 0
  BY DEF Matches
<1>2. n \in 1..n /\ n - 1 \in 1..n /\ n - 1 # n
  OBVIOUS
<1>3. a[n].size \in Nat /\ a[n - 1].size \in Nat
  <2> HIDE DEF E
  <2>1. a \in Seq(E)
    BY <1>1 DEF E
  <2>2. a[n] \in E /\ a[n - 1] \in E
    BY <1>2, <2>1
  <2>3. QED
    BY <2>2 DEF E
<1>4. /\ x \in {Decimal, 5, 8, Int32}
      /\ x = Decimal <=> Decimal \in {a[n - 1].type, a[n].type}
      /\ {4, 5, 8, Decimal} \cap {a[n - 1].type, a[n].type} = {} => x = Int32
  BY PromotedIs
<1> HIDE DEF x
<1>5. v \in [type : K, size : Nat] /\ v.type = x /\ v.size = a[n - 1].size + a[n].size
  BY <1>3, <1>4
<1>6. Int32 # Decimal
  BY DEF Int32, Decimal
<1>7. y \in K /\ y \in {Decimal, Int32} /\ (y = Decimal <=> x = Decimal) /\ (x # Decimal => y = Int32)
  BY <1>6
<1> HIDE DEF v, y
<1>8. operands = {} <=> x # Decimal
  BY <1>1, <1>2, <1>4
<1>9. Cardinality(operands) < 2 <=> ~ (a[n].type = Decimal /\ a[n - 1].type = Decimal)
  <2>1. Cardinality(operands) < 2 <=> operands # {n - 1, n}
    <3> DEFINE l == n - 1
    <3>1. operands \subseteq {l, n} /\ l # n
      BY <1>2
    <3> HIDE DEF operands, l
    <3>2. Cardinality(operands) < 2 <=> operands # {l, n}
      BY <3>1, NotBoth
    <3>3. QED
      BY <3>2 DEF l
  <2>2. operands = {n - 1, n} <=> types[n - 1] = Decimal /\ types[n] = Decimal
    BY <1>2
  <2>3. QED
    BY <1>1, <1>2, <2>1, <2>2
<1>10. Evaluated(schema, a, token) = b
  <2>1. (IF token.text \in {"*", "/"} THEN a[n - 1].size + a[n].size
         ELSE Max({a[n - 1].size, a[n].size})) = a[n - 1].size + a[n].size
    <3>1. CASE token.text \in {"*", "/"}
      BY <3>1
    <3>2. CASE token.text \in {"+", "-"}
      <4>1. a[n].size = 0 \/ a[n - 1].size = 0
        BY <1>1, <1>2, <3>2
      <4>2. Max({a[n - 1].size, a[n].size}) = IF a[n - 1].size >= a[n].size THEN a[n - 1].size ELSE a[n].size
        BY <1>3, MaxOfTwo
      <4>3. token.text \notin {"*", "/"}
        BY <3>2
      <4>4. QED
        BY <1>3, <4>1, <4>2, <4>3
    <3>3. QED
      BY <3>1, <3>2
  <2>2. QED
    BY <2>1 DEF Evaluated, Replaced, v, x
<1>11. Pushed(schema, t, token).types = Replaced(types, n, y)
  <2>1. (IF operands = {} THEN Int32 ELSE Decimal) = y
    BY <1>7, <1>8
  <2>2. QED
    BY <1>1, <2>1 DEF Pushed, Replaced
<1>12. Pushed(schema, t, token).sizes = SizesAfter(a, sizes)
  BY <1>1, <1>9 DEF Pushed, Replaced, SizesAfter
<1>13. Matches(K, b, Replaced(types, n, y), SizesAfter(a, sizes))
  BY <1>4, <1>5, <1>7, OperationMatches
<1> HIDE DEF E
<1>14. TwoAreOne(b, E, a, n, v)
  BY <1>1, <1>5, TwoForOne DEF E
<1>15. TwoAreOne(Replaced(types, n, y), K, types, n, y)
  BY <1>1, <1>7, TwoForOne
<1> HIDE DEF b
<1>16. Len(b) = n - 1 /\ b[n - 1] = v /\ \A p \in 1..(n - 2) : b[p] = a[p]
  BY <1>14 DEF TwoAreOne
<1>17. Replaced(types, n, y)[n - 1] = y
  BY <1>15 DEF TwoAreOne
<1>18. ASSUME HasDecimal(a) PROVE HasDecimal(b)
  <2>1. PICK p \in 1..n : a[p].type = Decimal
    BY <1>18 DEF HasDecimal
  <2>2. CASE p \in 1..(n - 2)
    BY <1>16, <2>1, <2>2 DEF HasDecimal
  <2>3. CASE p \in {n - 1, n}
    <3>1. x = Decimal /\ n - 1 \in 1..(n - 1)
      BY <1>4, <2>1, <2>3
    <3>2. QED
      BY <1>5, <1>16, <3>1 DEF HasDecimal
  <2>4. QED
    BY <2>2, <2>3
<1>19. ASSUME Plain(a) PROVE Plain(b) /\ b[n - 1].type = Int32
  <2>1. a[n].type \notin {4, 5, 8, Decimal} /\ a[n - 1].type \notin {4, 5, 8, Decimal}
    BY <1>2, <1>19 DEF Plain
  <2>2. b[n - 1].type = Int32
    BY <1>4, <1>5, <1>16, <2>1
  <2>3. \A p \in 1..(n - 1) : p = n - 1 \/ (p \in 1..(n - 2) /\ p \in 1..n)
    OBVIOUS
  <2>4. Int32 \notin {4, 5, 8, Decimal}
    BY DEF Int32, Decimal
  <2>5. QED
    BY <1>16, <1>19, <2>2, <2>3, <2>4 DEF Plain
<1>20. /\ b[n - 1].type \in {Decimal, 5, 8, Int32}
       /\ b[n - 1].type # Decimal => Replaced(types, n, y)[n - 1] = Int32
       /\ Replaced(types, n, y)[n - 1] \in {Decimal, Int32}
  BY <1>4, <1>5, <1>7, <1>16, <1>17
<1>21. QED
  BY <1>10, <1>11, <1>12, <1>13, <1>16, <1>18, <1>19, <1>20 DEF OperatorDid

\* A value adds one to the depth of the stack, an operator takes one away.
LEMMA DepthStep ==
  ASSUME NEW tokens, NEW k \in Nat
  PROVE  /\ Depth(tokens, 0) = 0
         /\ Depth(tokens, k) \in Int
         /\ tokens[k + 1].is = "operator" => Depth(tokens, k + 1) = Depth(tokens, k) - 1
         /\ tokens[k + 1].is # "operator" => Depth(tokens, k + 1) = Depth(tokens, k) + 1
<1> DEFINE O(m) == {j \in 1..m : tokens[j].is = "operator"}
<1>1. IsFiniteSet(O(k)) /\ Cardinality(O(k)) \in Nat
  <2>1. IsFiniteSet(1..k) /\ O(k) \subseteq 1..k
    BY FS_Interval
  <2> HIDE DEF O
  <2>2. QED
    BY <2>1, FS_Subset, FS_CardinalityType
<1>2. O(0) = {}
  OBVIOUS
<1>3. k + 1 \notin O(k)
  OBVIOUS
<1>4. tokens[k + 1].is = "operator" => O(k + 1) = O(k) \cup {k + 1}
  OBVIOUS
<1>5. tokens[k + 1].is # "operator" => O(k + 1) = O(k)
  OBVIOUS
<1>6. /\ Depth(tokens, 0) = 0 - 2 * Cardinality(O(0))
      /\ Depth(tokens, k) = k - 2 * Cardinality(O(k))
      /\ Depth(tokens, k + 1) = (k + 1) - 2 * Cardinality(O(k + 1))
  <2>1. Depth(tokens, 0) = 0 - 2 * Cardinality(O(0))
    BY DEF Depth
  <2>2. Depth(tokens, k) = k - 2 * Cardinality(O(k))
    BY DEF Depth
  <2>3. Depth(tokens, k + 1) = (k + 1) - 2 * Cardinality(O(k + 1))
    BY DEF Depth
  <2>4. QED
    BY <2>1, <2>2, <2>3
<1> HIDE DEF O
<1>7. Cardinality(O(k) \cup {k + 1}) = Cardinality(O(k)) + 1
  BY <1>1, <1>3, FS_AddElement
<1>8. Cardinality(O(0)) = 0
  BY <1>2, FS_EmptySet
<1>9. Depth(tokens, 0) = 0
  BY <1>6, <1>8
<1>10. Depth(tokens, k) \in Int
  BY <1>1, <1>6
<1>11. ASSUME tokens[k + 1].is = "operator" PROVE Depth(tokens, k + 1) = Depth(tokens, k) - 1
  <2>1. Cardinality(O(k + 1)) = Cardinality(O(k)) + 1
    BY <1>4, <1>7, <1>11
  <2>2. Depth(tokens, k + 1) = (k + 1) - 2 * (Cardinality(O(k)) + 1)
    BY <1>6, <2>1
  <2>3. Depth(tokens, k) = k - 2 * Cardinality(O(k))
    BY <1>6
  <2>4. QED
    BY <1>1, <2>2, <2>3
<1>12. ASSUME tokens[k + 1].is # "operator" PROVE Depth(tokens, k + 1) = Depth(tokens, k) + 1
  <2>1. Cardinality(O(k + 1)) = Cardinality(O(k))
    BY <1>5, <1>12
  <2>2. Depth(tokens, k + 1) = (k + 1) - 2 * Cardinality(O(k))
    BY <1>6, <2>1
  <2>3. Depth(tokens, k) = k - 2 * Cardinality(O(k))
    BY <1>6
  <2>4. QED
    BY <1>1, <2>2, <2>3
<1>13. QED
  BY <1>9, <1>10, <1>11, <1>12

\* A value that is a column of decimals.
DecimalColumn(schema, token) == token.type = ColumnType /\ schema[token.text].type = Decimal

\* A value that is no column is of a type that fits INT32.
Fits(schema, token) == token.type # ColumnType => /\ TypeAsked(schema, token) \notin {4, 5, 8, Decimal}
                                                  /\ token.type # Decimal

\* A value does to the stacks of the code what it does to the one asked for.
LEMMA ValueStep ==
  ASSUME NEW schema, NEW tokens, NEW token \in Range(tokens), NEW a, NEW t,
         Matches(Kinds(schema, tokens), a, t.types, t.sizes), NEW n \in Nat, n = Len(a),
         token.is # "operator", Fits(schema, token)
  PROVE  LET b == Evaluated(schema, a, token)
             u == Pushed(schema, t, token)
         IN  /\ Matches(Kinds(schema, tokens), b, u.types, u.sizes)
             /\ Len(b) = n + 1
             /\ HasDecimal(a) \/ DecimalColumn(schema, token) => HasDecimal(b)
             /\ Plain(a) /\ TypeAsked(schema, token) \notin {4, 5, 8, Decimal} => Plain(b)
<1> DEFINE K == Kinds(schema, tokens)
           x == TypeAsked(schema, token)
           y == IF token.type = ColumnType THEN schema[token.text].type ELSE token.type
           v == [type |-> x, size |-> IF x = Decimal THEN 1 ELSE 0]
           b == Append(a, v)
           z == IF token.type = ColumnType /\ y = Decimal THEN Append(t.sizes, 1) ELSE t.sizes
<1>1. x \in K /\ y \in K /\ Decimal \in K
  BY DEF Kinds
<1>2. Evaluated(schema, a, token) = b
  BY DEF Evaluated
<1>3. Pushed(schema, t, token).types = Append(t.types, y) /\ Pushed(schema, t, token).sizes = z
  BY DEF Pushed
<1>4. token.type = ColumnType => x = y
  BY DEF TypeAsked
<1>5. DecimalColumn(schema, token) <=> token.type = ColumnType /\ x = Decimal
  BY DEF DecimalColumn, TypeAsked
<1>6. token.type # ColumnType => x # Decimal /\ y # Decimal
  BY DEF Fits
<1> HIDE DEF K, x, y
<1>7. Matches(K, b, Append(t.types, y), z)
  <2>0. Matches(K, a, t.types, t.sizes)
    BY DEF K
  <2>1. CASE DecimalColumn(schema, token)
    <3>1. x = Decimal /\ y = Decimal /\ z = Append(t.sizes, 1) /\ v = [type |-> Decimal, size |-> 1]
      BY <1>4, <1>5, <2>1
    <3>2. QED
      BY <1>1, <2>0, <3>1, DecimalMatches
  <2>2. CASE ~ DecimalColumn(schema, token)
    <3>1. x # Decimal /\ y # Decimal
      BY <1>4, <1>5, <1>6, <2>2
    <3>2. z = t.sizes /\ v = [type |-> x, size |-> 0]
      BY <3>1
    <3>3. QED
      BY <1>1, <2>0, <3>1, <3>2, PlainMatches
  <2>3. QED
    BY <2>1, <2>2
<1>8. Len(b) = n + 1 /\ b[n + 1] = v /\ \A p \in 1..n : b[p] = a[p]
  <2> DEFINE E == [type : K, size : Nat]
  <2>1. a \in Seq(E)
    BY DEF Matches, K
  <2> HIDE DEF v, E
  <2>2. QED
    BY <2>1
<1> HIDE DEF b
<1>9. v.type = x
  OBVIOUS
<1> HIDE DEF v, z
<1>10. n + 1 \in 1..(n + 1) /\ \A p \in 1..(n + 1) : p = n + 1 \/ p \in 1..n
  OBVIOUS
<1>11. HasDecimal(a) => HasDecimal(b)
  BY <1>8 DEF HasDecimal
<1>12. DecimalColumn(schema, token) => HasDecimal(b)
  BY <1>5, <1>8, <1>9, <1>10 DEF HasDecimal
<1>13. Plain(a) /\ x \notin {4, 5, 8, Decimal} => Plain(b)
  BY <1>8, <1>9, <1>10 DEF Plain
<1>14. QED
  BY <1>2, <1>3, <1>7, <1>8, <1>11, <1>12, <1>13 DEF K, x

\* What is well formed in the tokens of an expression that Departs does not list.
Regular(schema, tokens) ==
  /\ tokens \in Seq(Range(tokens))
  /\ Postfix(tokens)
  /\ \A t \in Range(tokens) : t.is = "operator" <=> t.text \in {"+", "-", "*", "/"}
  /\ \A t \in Range(tokens) : t.is = "operator" => t.type # ColumnType
  /\ \A t \in Range(tokens) : t.is # "operator" => Fits(schema, t)
  /\ ~ AddsDecimals(schema, tokens)

\* No value is of a type that the code does not tell from INT32.
AllPlain(schema, tokens) ==
  \A t \in Range(tokens) : t.is # "operator" => TypeAsked(schema, t) \notin {4, 5, 8, Decimal}

\* What an operator leaves on top.
TopAfter(schema, tokens, a, types) ==
  LET n == Len(a)
  IN  /\ a[n].type \in {Decimal, 5, 8, Int32}
      /\ types[n] \in {Decimal, Int32}
      /\ a[n].type # Decimal => types[n] = Int32
      /\ AllPlain(schema, tokens) => a[n].type = Int32

\* After k tokens the stacks of the code are what is asked for.
Agree(schema, tokens, k) ==
  LET a == StacksAsked(schema, tokens)[k]
      t == PostfixStacks(schema, tokens)[k]
  IN  /\ Matches(Kinds(schema, tokens), a, t.types, t.sizes)
      /\ Len(a) = Depth(tokens, k)
      /\ (\E j \in 1..k : DecimalColumn(schema, tokens[j])) => HasDecimal(a)
      /\ AllPlain(schema, tokens) => Plain(a)
      /\ k > 0 => Len(a) >= 1
      /\ k > 0 /\ tokens[k].is = "operator" => TopAfter(schema, tokens, a, t.types)

\* Before the first token the stacks are empty.
LEMMA AgreeAtStart ==
  ASSUME NEW schema, NEW tokens, Len(tokens) \in Nat
  PROVE  Agree(schema, tokens, 0)
<1> DEFINE a == StacksAsked(schema, tokens)[0]
           t == PostfixStacks(schema, tokens)[0]
           K == Kinds(schema, tokens)
<1>1. a = <<>>
  BY StacksAskedAre
<1>2. t = [types |-> <<>>, sizes |-> <<>>]
  BY PostfixStacksAre
<1>3. t.types = <<>> /\ t.sizes = <<>>
  BY <1>2
<1>4. Matches(K, <<>>, <<>>, <<>>)
  <2>1. Ranks(<<>>, <<>>, <<>>)
    BY DEF Ranks
  <2>2. \E e : Ranks(<<>>, <<>>, e)
    BY <2>1
  <2>3. QED
    BY <2>2 DEF Matches
<1>5. Depth(tokens, 0) = 0 /\ Len(<<>>) = 0
  BY DepthStep
<1>6. Plain(<<>>)
  BY DEF Plain
<1>7. \A j \in 1..0 : FALSE
  OBVIOUS
<1> HIDE DEF a, t, K
<1>8. Agree(schema, tokens, 0)
  BY <1>1, <1>3, <1>4, <1>5, <1>6, <1>7 DEF Agree, a, t, K
<1>9. QED
  BY <1>8

\* The next token, an operator or a value, keeps them what is asked for.
LEMMA AgreeStep ==
  ASSUME NEW schema, NEW tokens, Regular(schema, tokens), NEW k \in Nat, k + 1 <= Len(tokens),
         Agree(schema, tokens, k)
  PROVE  Agree(schema, tokens, k + 1)
<1> DEFINE l == k + 1
           K == Kinds(schema, tokens)
           token == tokens[l]
           a == StacksAsked(schema, tokens)[k]
           t == PostfixStacks(schema, tokens)[k]
           b == StacksAsked(schema, tokens)[l]
           u == PostfixStacks(schema, tokens)[l]
           n == Len(a)
<1>1. Len(tokens) \in Nat /\ l \in 1..Len(tokens) /\ l - 1 = k /\ l \in DOMAIN tokens
  BY DEF Regular
<1>2. token \in Range(tokens)
  BY <1>1 DEF Range
<1>3. b = Evaluated(schema, a, token)
  BY <1>1, StacksAskedAre
<1>4. u = Pushed(schema, t, token)
  BY <1>1, PostfixStacksAre
<1>5. /\ Matches(K, a, t.types, t.sizes)
      /\ n = Depth(tokens, k)
      /\ (\E j \in 1..k : DecimalColumn(schema, tokens[j])) => HasDecimal(a)
      /\ AllPlain(schema, tokens) => Plain(a)
  BY DEF Agree
<1>6. n \in Nat
  <2> DEFINE E == [type : K, size : Nat]
  <2>1. a \in Seq(E)
    BY <1>5 DEF Matches
  <2> HIDE DEF E, a
  <2>2. QED
    BY <2>1
<1>7. /\ tokens[l].is = "operator" => Depth(tokens, l) = Depth(tokens, k) - 1
      /\ tokens[l].is # "operator" => Depth(tokens, l) = Depth(tokens, k) + 1
  BY DepthStep
<1>8. /\ token.is = "operator" <=> token.text \in {"+", "-", "*", "/"}
      /\ token.is = "operator" => token.type # ColumnType /\ Depth(tokens, k) >= 2
      /\ token.is # "operator" => Fits(schema, token)
  <2>1. token.is = "operator" => Depth(tokens, l - 1) >= 2
    BY <1>1 DEF Regular, Postfix
  <2>2. QED
    BY <1>1, <1>2, <2>1 DEF Regular
<1>9. token.is = "operator" => ~ (token.text \in {"+", "-"} /\ a[n].type = Decimal /\ a[n - 1].type = Decimal)
  <2>1. ~ (LET stack == StacksAsked(schema, tokens)[l - 1]
           IN  /\ tokens[l].text \in {"+", "-"}
               /\ stack[Len(stack)].type = Decimal
               /\ stack[Len(stack) - 1].type = Decimal)
    BY <1>1 DEF Regular, AddsDecimals
  <2>2. QED
    BY <1>1, <2>1
<1>10. l > 0 /\ \A j \in 1..l : j = l \/ j \in 1..k
  OBVIOUS
<1> HIDE DEF l, K, token, a, t, b, u, n
<1>11. SUFFICES /\ Matches(K, b, u.types, u.sizes)
                /\ Len(b) = Depth(tokens, l)
                /\ HasDecimal(a) \/ DecimalColumn(schema, token) => HasDecimal(b)
                /\ AllPlain(schema, tokens) => Plain(b)
                /\ Len(b) >= 1
                /\ token.is = "operator" => TopAfter(schema, tokens, b, u.types)
  <2>1. (\E j \in 1..l : DecimalColumn(schema, tokens[j])) => HasDecimal(a) \/ DecimalColumn(schema, token)
    BY <1>5, <1>10 DEF token
  <2> SUFFICES Agree(schema, tokens, l)
    BY DEF l
  <2>2. QED
    BY <1>10, <2>1 DEF Agree, K, b, u, token
<1>12. CASE token.is = "operator"
  <2>1. /\ Matches(K, b, u.types, u.sizes)
        /\ Len(b) = n - 1
        /\ b[n - 1].type \in {Decimal, 5, 8, Int32} /\ u.types[n - 1] \in {Decimal, Int32}
        /\ b[n - 1].type # Decimal => u.types[n - 1] = Int32
        /\ HasDecimal(a) => HasDecimal(b)
        /\ Plain(a) => Plain(b) /\ b[n - 1].type = Int32
    <3>1. {Decimal, 5, 8, Int32} \subseteq K
      BY DEF K, Kinds
    <3>2. n >= 2 /\ n = Len(a) /\ token.text \in {"+", "-", "*", "/"}
      BY <1>5, <1>8, <1>12 DEF n
    <3>3. ~ (token.text \in {"+", "-"} /\ a[n].type = Decimal /\ a[n - 1].type = Decimal)
      BY <1>9, <1>12
    <3>4. OperatorDid(K, a, n, b, u)
      BY <1>3, <1>4, <1>5, <1>6, <1>12, <3>1, <3>2, <3>3, OperatorStep
    <3>5. QED
      BY <3>4 DEF OperatorDid
  <2>2. ~ DecimalColumn(schema, token)
    BY <1>8, <1>12 DEF DecimalColumn
  <2>3. Len(b) = Depth(tokens, l) /\ Len(b) >= 1
    BY <1>5, <1>6, <1>7, <1>8, <1>12, <2>1 DEF token
  <2>4. TopAfter(schema, tokens, b, u.types)
    BY <1>5, <2>1 DEF TopAfter
  <2>5. QED
    BY <1>5, <2>1, <2>2, <2>3, <2>4
<1>13. CASE token.is # "operator"
  <2>1. /\ Matches(K, b, u.types, u.sizes)
        /\ Len(b) = n + 1
        /\ HasDecimal(a) \/ DecimalColumn(schema, token) => HasDecimal(b)
        /\ Plain(a) /\ TypeAsked(schema, token) \notin {4, 5, 8, Decimal} => Plain(b)
    BY <1>2, <1>3, <1>4, <1>5, <1>6, <1>8, <1>13, ValueStep DEF K, n
  <2>2. AllPlain(schema, tokens) => TypeAsked(schema, token) \notin {4, 5, 8, Decimal}
    BY <1>2, <1>13 DEF AllPlain
  <2>3. Len(b) = Depth(tokens, l) /\ Len(b) >= 1
    BY <1>5, <1>6, <1>7, <1>13, <2>1 DEF token
  <2>4. QED
    BY <1>5, <1>13, <2>1, <2>2, <2>3
<1>14. QED
  BY <1>12, <1>13

\* So they are after any number of tokens.
LEMMA AgreeAtEnd ==
  ASSUME NEW schema, NEW tokens, Regular(schema, tokens)
  PROVE  \A k \in 0..Len(tokens) : Agree(schema, tokens, k)
<1> DEFINE T == {k \in Nat : k <= Len(tokens) => Agree(schema, tokens, k)}
<1>1. Len(tokens) \in Nat
  BY DEF Regular
<1>2. 0 \in T
  BY <1>1, AgreeAtStart
<1>3. ASSUME NEW k \in Nat, k \in T PROVE k + 1 \in T
  <2>1. ASSUME k + 1 <= Len(tokens) PROVE Agree(schema, tokens, k + 1)
    <3>1. Agree(schema, tokens, k)
      BY <1>1, <1>3, <2>1
    <3>2. QED
      BY <2>1, <3>1, AgreeStep
  <2>2. QED
    BY <2>1
<1>4. \A k \in Nat : k \in T
  <2> HIDE DEF T
  <2>1. QED
    BY <1>2, <1>3, Inductive
<1>5. QED
  BY <1>1, <1>4

\* An expression of more than one token ends with an operator: the stack is never empty in between.
LEMMA OperatorAtEnd ==
  ASSUME NEW schema, NEW tokens, Regular(schema, tokens), Len(tokens) > 1
  PROVE  tokens[Len(tokens)].is = "operator"
<1> DEFINE n == Len(tokens)
           k == n - 1
<1>1. n \in Nat /\ k \in Nat /\ k > 0 /\ k + 1 = n /\ k \in 0..n
  <2>1. n \in Nat /\ n > 1
    BY DEF Regular
  <2> HIDE DEF n
  <2>2. QED
    BY <2>1
<1>2. Len(StacksAsked(schema, tokens)[k]) = Depth(tokens, k) /\ Len(StacksAsked(schema, tokens)[k]) >= 1
  <2> HIDE DEF n, k
  <2>1. Agree(schema, tokens, k)
    BY <1>1, AgreeAtEnd DEF n
  <2>2. QED
    BY <1>1, <2>1 DEF Agree
<1>3. Depth(tokens, n) = 1
  BY DEF Regular, Postfix
<1> HIDE DEF n, k
<1>4. tokens[n].is # "operator" => Depth(tokens, n) = Depth(tokens, k) + 1
  BY <1>1, DepthStep
<1>5. Depth(tokens, k) \in Int /\ Depth(tokens, k) >= 1
  BY <1>1, <1>2, DepthStep
<1>6. QED
  BY <1>3, <1>4, <1>5 DEF n

\* The one entry left is the one size left, if it is a decimal.
LEMMA OneSize ==
  ASSUME NEW a, NEW sizes, sizes \in Seq(Nat), Len(a) = 1, NEW e, Ranks(a, sizes, e), a[1].type = Decimal
  PROVE  Last(sizes) = a[1].size
<1> DEFINE m == Len(sizes)
<1>1. /\ m \in Nat
      /\ e \in [1..m -> 1..1]
      /\ \A i, j \in 1..m : i < j => e[i] < e[j]
      /\ \E i \in 1..m : e[i] = 1
      /\ \A i \in 1..m : sizes[i] = a[e[i]].size
  BY DEF Ranks
<1> HIDE DEF m
<1>2. \A i \in 1..m : e[i] = 1
  BY <1>1
<1>3. m = 1
  <2> SUFFICES ASSUME m # 1 PROVE FALSE
    OBVIOUS
  <2>1. 1 \in 1..m /\ 2 \in 1..m
    BY <1>1
  <2>2. e[1] < e[2]
    BY <1>1, <2>1
  <2>3. QED
    BY <1>2, <2>1, <2>2
<1>4. sizes[1] = a[1].size
  BY <1>1, <1>2, <1>3
<1>5. QED
  BY <1>3, <1>4 DEF Last, m

\* calcul_return_column_type finds the type and length asked for.
LEMMA ExpressionExact ==
  ASSUME NEW schema, NEW tokens, Regular(schema, tokens), Len(tokens) > 1,
         AllPlain(schema, tokens) \/ \E j \in 1..Len(tokens) : DecimalColumn(schema, tokens[j])
  PROVE  ExpressionColumn(schema, tokens) = ExpressionAsked(schema, tokens)
<1> DEFINE n == Len(tokens)
           K == Kinds(schema, tokens)
           a == StacksAsked(schema, tokens)[n]
           t == PostfixStacks(schema, tokens)[n]
<1>1. n \in Nat /\ n > 0 /\ n \in 0..n
  BY DEF Regular
<1>2. tokens[n].is = "operator"
  BY OperatorAtEnd
<1>3. Depth(tokens, n) = 1
  BY DEF Regular, Postfix
<1>4. /\ Matches(K, a, t.types, t.sizes)
      /\ Len(a) = 1
      /\ (\E j \in 1..n : DecimalColumn(schema, tokens[j])) => HasDecimal(a)
      /\ TopAfter(schema, tokens, a, t.types)
  <2>1. Agree(schema, tokens, n)
    BY <1>1, AgreeAtEnd
  <2>2. QED
    BY <1>1, <1>2, <1>3, <2>1 DEF Agree
<1>5. /\ ExpressionColumn(schema, tokens) =
           IF Last(t.types) = Int32 THEN Column(Int32, 4) ELSE Column(Decimal, 6 + Last(t.sizes))
      /\ ExpressionAsked(schema, tokens) =
           CASE Last(a).type = Decimal -> Column(Decimal, 6 + Last(a).size)
             [] Last(a).type \in {5, 8} -> Column(Last(a).type, 8)
             [] OTHER -> Column(Int32, 4)
  BY DEF ExpressionColumn, ExpressionAsked
<1>6. /\ t.types \in Seq(K) /\ t.sizes \in Seq(Nat) /\ Len(t.types) = 1
      /\ t.types[1] = Decimal <=> a[1].type = Decimal
      /\ \E e : Ranks(a, t.sizes, e)
  BY <1>4 DEF Matches
<1>7. /\ a[1].type \in {Decimal, 5, 8, Int32}
      /\ a[1].type # Decimal => t.types[1] = Int32
      /\ AllPlain(schema, tokens) => a[1].type = Int32
  BY <1>4 DEF TopAfter
<1>8. Last(a) = a[1] /\ Last(t.types) = t.types[1]
  BY <1>4, <1>6 DEF Last
<1> HIDE DEF n, K, a, t
<1>9. Int32 # Decimal /\ Int32 \notin {5, 8} /\ Decimal \notin {5, 8}
  BY DEF Int32, Decimal
<1>10. CASE a[1].type = Decimal
  <2>1. Last(t.sizes) = a[1].size
    BY <1>4, <1>6, <1>10, OneSize
  <2>2. ExpressionAsked(schema, tokens) = Column(Decimal, 6 + a[1].size)
    BY <1>5, <1>8, <1>9, <1>10
  <2>3. ExpressionColumn(schema, tokens) = Column(Decimal, 6 + a[1].size)
    BY <1>5, <1>6, <1>8, <1>9, <1>10, <2>1
  <2>4. QED
    BY <2>2, <2>3
<1>11. CASE a[1].type # Decimal
  <2>1. ~ HasDecimal(a)
    BY <1>4, <1>11 DEF HasDecimal
  <2>2. AllPlain(schema, tokens)
    BY <1>4, <2>1 DEF n
  <2>3. a[1].type = Int32 /\ t.types[1] = Int32
    BY <1>7, <1>11, <2>2
  <2>4. ExpressionColumn(schema, tokens) = Column(Int32, 4)
    BY <1>5, <1>8, <2>3
  <2>5. ExpressionAsked(schema, tokens) = Column(Int32, 4)
    BY <1>5, <1>8, <1>9, <2>3
  <2>6. QED
    BY <2>4, <2>5
<1>12. QED
  BY <1>10, <1>11

\* The column made of a projection.
OneColumn(schema, p, c) ==
  /\ ColumnsOf(schema, p) = <<c>>
  /\ ~ Departs(schema, p) => c = Asked(schema, p)

\* A CASE adds the column of the value after its first THEN.
LEMMA CaseIsOneColumn ==
  ASSUME NEW schema, NEW p, WellFormed(schema, p), p.kind = "case"
  PROVE  \E c : OneColumn(schema, p, c)
<1> DEFINE tokens == p.tokens
           at == {j \in DOMAIN tokens : tokens[j].text = "THEN"}
           v == tokens[Min(at) + 1]
           c == Column(MysqlType(v.type), IF LengthByType(v.type) = 0 THEN v.chars ELSE LengthByType(v.type))
<1>1. at # {}
  BY DEF WellFormed, Range
<1>2. ThenValue(tokens) = <<v>>
  BY <1>1 DEF ThenValue
<1> HIDE DEF v
<1>3. CaseColumn(tokens) = <<c>>
  <2>1. CaseColumn(tokens) = [k \in DOMAIN <<v>> |->
          Column(MysqlType(<<v>>[k].type),
                 IF LengthByType(<<v>>[k].type) = 0 THEN <<v>>[k].chars ELSE LengthByType(<<v>>[k].type))]
    BY <1>2 DEF CaseColumn
  <2>2. DOMAIN <<v>> = 1..1 /\ <<v>>[1] = v
    OBVIOUS
  <2> DEFINE f == CaseColumn(tokens)
  <2>3. DOMAIN f = 1..1 /\ f[1] = c
    BY <2>1, <2>2
  <2>4. f = [k \in 1..1 |-> f[k]]
    BY <2>1, <2>2
  <2> HIDE DEF f, c
  <2>5. f = <<c>>
    BY <2>3, <2>4
  <2>6. QED
    BY <2>5 DEF f
<1>4. ColumnsOf(schema, p) = <<c>>
  BY <1>3 DEF ColumnsOf
<1>5. ASSUME ~ Departs(schema, p) PROVE c = Asked(schema, p)
  <2>1. v.type # ColumnType
    BY <1>2, <1>5 DEF Departs
  <2>2. ValueAsked(schema, v) = c
    <3>1. CASE LengthByType(v.type) # 0
      BY <2>1, <3>1 DEF ValueAsked
    <3>2. CASE LengthByType(v.type) = 0
      BY <2>1, <3>2 DEF ValueAsked
    <3>3. QED
      BY <3>1, <3>2
  <2>3. Asked(schema, p) = ValueAsked(schema, ThenValue(tokens)[1])
    BY DEF Asked
  <2>4. QED
    BY <1>2, <2>2, <2>3
<1>6. OneColumn(schema, p, c)
  BY <1>4, <1>5 DEF OneColumn
<1>7. QED
  BY <1>6

\* A value by itself adds one column, that of the table if it is one.
LEMMA ValueIsOneColumn ==
  ASSUME NEW schema, NEW p, WellFormed(schema, p), p.kind = "other", Len(p.tokens) = 1
  PROVE  \E c : OneColumn(schema, p, c)
<1> DEFINE token == p.tokens[1]
           c == SingleColumn(schema, token)
<1>1. ColumnsOf(schema, p) = <<c>>
  BY DEF ColumnsOf
<1>2. token \in Range(p.tokens)
  <2>1. 1 \in DOMAIN p.tokens
    BY DEF WellFormed
  <2>2. QED
    BY <2>1 DEF Range
<1>3. ASSUME ~ Departs(schema, p) PROVE c = Asked(schema, p)
  <2>1. token.type = ColumnType
    BY <1>3 DEF Departs
  <2>2. token.text \in DOMAIN schema
    BY <1>2, <2>1 DEF WellFormed
  <2>3. c = schema[token.text]
    BY <2>2 DEF SingleColumn
  <2>4. Asked(schema, p) = ValueAsked(schema, token)
    BY DEF Asked
  <2>5. ValueAsked(schema, token) = schema[token.text]
    BY <2>1 DEF ValueAsked
  <2>6. QED
    BY <2>3, <2>4, <2>5
<1> HIDE DEF c
<1>4. OneColumn(schema, p, c)
  BY <1>1, <1>3 DEF OneColumn
<1>5. QED
  BY <1>4

\* An expression adds one column, of what is left on the stacks.
LEMMA ExpressionIsOneColumn ==
  ASSUME NEW schema, NEW p, WellFormed(schema, p), p.kind = "other", Len(p.tokens) # 1
  PROVE  \E c : OneColumn(schema, p, c)
<1> DEFINE tokens == p.tokens
           c == ExpressionColumn(schema, tokens)
<1>1. ColumnsOf(schema, p) = <<c>>
  BY DEF ColumnsOf
<1>2. Len(tokens) \in Nat /\ Len(tokens) > 1 /\ tokens \in Seq(Range(tokens)) /\ DOMAIN tokens = 1..Len(tokens)
  <2>1. tokens \in Seq(Range(tokens)) /\ tokens # <<>>
    BY DEF WellFormed
  <2> DEFINE X == Range(tokens)
  <2> HIDE DEF X, tokens
  <2>2. Len(tokens) \in Nat /\ Len(tokens) # 0 /\ DOMAIN tokens = 1..Len(tokens)
    <3>1. tokens \in Seq(X) /\ tokens # <<>>
      BY <2>1 DEF X
    <3>2. QED
      BY <3>1
  <2>3. Len(tokens) # 1
    BY DEF tokens
  <2>4. QED
    BY <2>1, <2>2, <2>3
<1>3. ASSUME ~ Departs(schema, p) PROVE c = Asked(schema, p)
  <2>1. /\ ~ AddsDecimals(schema, tokens)
        /\ \A t \in Range(tokens) :
             t.is # "operator" /\ TypeAsked(schema, t) \in {4, 5, 8, Decimal}
               => t.type = ColumnType /\ Decimals(schema, p) # {}
    BY <1>2, <1>3 DEF Departs
  <2>2. \A t \in Range(tokens) : t.is # "operator" => t.type \in 0..ColumnType
    BY DEF WellFormed
  <2>3. \A t \in Range(tokens) : t.is # "operator" => Fits(schema, t)
    BY <2>1, <2>2 DEF Fits, ColumnType, Decimal
  <2>4. Regular(schema, tokens)
    BY <1>2, <2>1, <2>3 DEF Regular, WellFormed
  <2>5. AllPlain(schema, tokens) \/ \E j \in 1..Len(tokens) : DecimalColumn(schema, tokens[j])
    <3>1. CASE Decimals(schema, p) = {}
      BY <2>1, <3>1 DEF AllPlain
    <3>2. CASE Decimals(schema, p) # {}
      BY <1>2, <3>2 DEF Decimals, DecimalColumn
    <3>3. QED
      BY <3>1, <3>2
  <2>6. c = ExpressionAsked(schema, tokens)
    BY <1>2, <2>4, <2>5, ExpressionExact
  <2>7. Asked(schema, p) = ExpressionAsked(schema, tokens)
    BY DEF Asked
  <2>8. QED
    BY <2>6, <2>7
<1> HIDE DEF c
<1>4. OneColumn(schema, p, c)
  BY <1>1, <1>3 DEF OneColumn
<1>5. QED
  BY <1>4

\* Every projection that the parser makes adds one column, and the one asked for unless Departs.
LEMMA ProjectionIsOneColumn ==
  ASSUME NEW schema, NEW p, WellFormed(schema, p)
  PROVE  \E c : OneColumn(schema, p, c)
<1>1. p.kind \in {"case", "extract", "substring", "other"}
  BY DEF WellFormed
<1>2. CASE p.kind = "extract"
  <2> DEFINE c == Column(Int32, 4)
  <2>1. ColumnsOf(schema, p) = <<c>> /\ Asked(schema, p) = c
    BY <1>2 DEF ColumnsOf, Asked
  <2> HIDE DEF c
  <2>2. QED
    BY <2>1 DEF OneColumn
<1>3. CASE p.kind = "substring"
  <2> DEFINE c == Column(schema[p.tokens[2].text].type, p.tokens[4].value - p.tokens[3].value + 1)
  <2>1. ColumnsOf(schema, p) = <<c>>
    BY <1>3 DEF ColumnsOf
  <2>2. Asked(schema, p) = c
    BY <1>3 DEF Asked
  <2> HIDE DEF c
  <2>3. QED
    BY <2>1, <2>2 DEF OneColumn
<1>4. QED
  BY <1>1, <1>2, <1>3, CaseIsOneColumn, ValueIsOneColumn, ExpressionIsOneColumn

\* A snippet's columns are those of its projections, one each.
LEMMA ReturnColumnsExact ==
  ASSUME NEW schema, NEW projections, projections \in Seq(Range(projections)),
         \A p \in Range(projections) : WellFormed(schema, p)
  PROVE  LET columns == ReturnColumns(schema, projections)
         IN  /\ Len(columns) = Len(projections) /\ DOMAIN columns = 1..Len(projections)
             /\ \A k \in 1..Len(projections) : OneColumn(schema, projections[k], columns[k])
<1> DEFINE n == Len(projections)
           X == {ColumnsOf(schema, projections[k])[1] : k \in 1..n}
           x == [k \in 1..n |-> ColumnsOf(schema, projections[k])[1]]
<1>1. n \in Nat /\ \A k \in 1..n : projections[k] \in Range(projections)
  BY DEF Range
<1>2. \A k \in 1..n : /\ ColumnsOf(schema, projections[k]) = <<x[k]>>
                      /\ OneColumn(schema, projections[k], x[k])
                      /\ x[k] \in X
  <2> SUFFICES ASSUME NEW k \in 1..n
               PROVE  /\ ColumnsOf(schema, projections[k]) = <<x[k]>>
                      /\ OneColumn(schema, projections[k], x[k])
                      /\ x[k] \in X
    OBVIOUS
  <2>1. PICK c : OneColumn(schema, projections[k], c)
    BY <1>1, ProjectionIsOneColumn
  <2>2. ColumnsOf(schema, projections[k]) = <<c>>
    BY <2>1 DEF OneColumn
  <2>3. x[k] = c
    BY <2>2
  <2>4. QED
    BY <2>1, <2>2, <2>3
<1>3. PICK s : /\ ReturnColumns(schema, projections) = s[n]
               /\ s[0] = <<>>
               /\ \A k \in 1..n : s[k] = s[k - 1] \o ColumnsOf(schema, projections[k])
  BY <1>1, ReturnColumnsAre
<1> DEFINE Holds(k) == /\ s[k] \in Seq(X) /\ Len(s[k]) = k
                       /\ \A j \in 1..k : s[k][j] = x[j]
           T == {k \in Nat : k <= n => Holds(k)}
<1> HIDE DEF n, X, x
<1>4. 0 \in T
  <2>1. <<>> \in Seq(X) /\ Len(<<>>) = 0
    OBVIOUS
  <2>2. \A j \in 1..0 : FALSE
    OBVIOUS
  <2>3. Holds(0)
    BY <1>3, <2>1, <2>2
  <2>4. QED
    BY <2>3
<1>5. ASSUME NEW k \in Nat, k \in T PROVE k + 1 \in T
  <2>1. ASSUME k + 1 <= n PROVE Holds(k + 1)
    <3> DEFINE l == k + 1
               q == s[k]
    <3>1. l \in 1..n /\ l - 1 = k /\ l \in Nat
      BY <1>1, <2>1
    <3>2. q \in Seq(X) /\ Len(q) = k /\ \A j \in 1..k : q[j] = x[j]
      BY <1>1, <1>5, <2>1
    <3>3. s[l] = q \o <<x[l]>>
      BY <1>2, <1>3, <3>1
    <3>4. x[l] \in X
      BY <1>2, <3>1
    <3> HIDE DEF q, l
    <3>5. l = k + 1
      BY DEF l
    <3>6. s[l] \in Seq(X) /\ Len(s[l]) = l /\ s[l][l] = x[l] /\ \A j \in 1..k : s[l][j] = q[j]
      BY <3>2, <3>3, <3>4, <3>5
    <3>7. \A j \in 1..l : j = l \/ j \in 1..k
      BY <3>5
    <3>8. Holds(l)
      BY <3>2, <3>6, <3>7
    <3>9. QED
      BY <3>8 DEF l
  <2> HIDE DEF Holds
  <2>2. QED
    BY <2>1
<1>6. \A k \in Nat : k \in T
  <2> HIDE DEF T
  <2>1. QED
    BY <1>4, <1>5, Inductive
<1>7. Holds(n)
  BY <1>1, <1>6 DEF n
<1>8. Len(s[n]) = n /\ DOMAIN s[n] = 1..n /\ \A j \in 1..n : s[n][j] = x[j]
  BY <1>7
<1>9. \A j \in 1..n : OneColumn(schema, projections[j], s[n][j])
  BY <1>2, <1>8
<1>10. QED
  BY <1>3, <1>8, <1>9 DEF n

\* A snippet is one of those that came in, and each message has the columns of its snippet.
ColumnsInv ==
  /\ queue \in Seq(Snippet)
  /\ pc # "pop" => current \in Snippet
  /\ \A m \in sent : m.snippet \in Snippet /\ m.columns = Columns[m.snippet]

\* Nothing but setupSnippet sends, and it sends the columns of the snippet in hand.
LEMMA ColumnsStep ==
  ASSUME ColumnsInv, [Next]_vars
  PROVE  ColumnsInv'
<1>1. CASE \E s \in Snippet : Scheduling(s)
  <2>1. PICK s \in Snippet : Scheduling(s)
    BY <1>1
  <2>2. queue' = Append(queue, s) /\ UNCHANGED <<pc, current, sent>>
    BY <2>1 DEF Scheduling
  <2>3. Append(queue, s) \in Seq(Snippet)
    BY DEF ColumnsInv
  <2>4. QED
    BY <2>2, <2>3 DEF ColumnsInv
<1>2. CASE PopQueue
  <2>1. queue # <<>> /\ current' = Head(queue) /\ queue' = Tail(queue) /\ sent' = sent
    BY <1>2 DEF PopQueue
  <2>2. Head(queue) \in Snippet /\ Tail(queue) \in Seq(Snippet)
    BY <2>1, TailOf DEF ColumnsInv
  <2>3. QED
    BY <2>1, <2>2 DEF ColumnsInv
<1>3. CASE SetupSnippet
  <2>1. /\ pc = "setup" /\ pc' = "pop" /\ UNCHANGED <<queue, current>>
        /\ sent' = sent \cup Groups(current, bestcsd)
    BY <1>3 DEF SetupSnippet
  <2>2. ASSUME NEW m \in Groups(current, bestcsd)
        PROVE  m.snippet = current /\ m.columns = Columns[current]
    <3>1. PICK c \in Range(bestcsd) : m = MessageTo(current, c, {i \in DOMAIN bestcsd : bestcsd[i] = c})
      BY DEF Groups
    <3> DEFINE S == {i \in DOMAIN bestcsd : bestcsd[i] = c}
    <3> HIDE DEF S
    <3>2. m = MessageTo(current, c, S)
      BY <3>1 DEF S
    <3>3. QED
      BY <3>2 DEF MessageTo, Serialize
  <2>3. \A m \in sent' : m.snippet \in Snippet /\ m.columns = Columns[m.snippet]
    BY <2>1, <2>2 DEF ColumnsInv
  <2>4. QED
    BY <2>1, <2>3 DEF ColumnsInv
<1>4. CASE \/ GetBestCSD \/ DcsSingle \/ DcsCompare \/ DcsAssign \/ DfaAssign \/ DfaSpin
           \/ DsiSelect \/ AllAssigned
  <2>1. pc # "pop" /\ UNCHANGED <<queue, current, sent>>
    BY <1>4 DEF GetBestCSD, DcsSingle, DcsCompare, DcsAssign, DfaAssign, DfaSpin, DsiSelect,
                AllAssigned, More
  <2>2. QED
    BY <2>1 DEF ColumnsInv
<1>5. CASE \/ \E c \in Csd : SetCSDInfo(c)
           \/ \E a \in Algorithm : SetAlgorithm(a)
           \/ UNCHANGED vars
  <2>1. UNCHANGED <<queue, pc, current, sent>>
    BY <1>5 DEF SetCSDInfo, SetAlgorithm, vars
  <2>2. QED
    BY <2>1 DEF ColumnsInv
<1>6. QED
  BY <1>1, <1>2, <1>3, <1>4, <1>5 DEF Next, SchedulerThread

\* Each projection gets one column in every message, and unless it is of a kind that Departs
\* lists the column is of the type and length of its value: calcul_return_column_type's two
\* stacks find what one stack of types with their sizes would, for expressions of any length.
THEOREM ColumnsAreExact == Spec => []ColumnsExactUnlessDeparts
<1>1. Init => ColumnsInv
  BY DEF Init, ColumnsInv
<1>2. ColumnsInv => ColumnsExactUnlessDeparts
  <2> SUFFICES ASSUME ColumnsInv, NEW m \in sent
               PROVE  /\ Len(m.columns) = Len(Projections[m.snippet])
                      /\ \A k \in DOMAIN m.columns : m.columns[k] \in Acceptable[m.snippet][k]
    BY DEF ColumnsExactUnlessDeparts
  <2> DEFINE s == m.snippet
             p == Projections[s]
             c == m.columns
  <2>1. s \in Snippet /\ c = Columns[s]
    BY DEF ColumnsInv
  <2>2. c = ReturnColumns(Schema, p)
    BY <2>1 DEF Columns
  <2>3. p \in Seq(Range(p)) /\ \A x \in Range(p) : WellFormed(Schema, x)
    BY <2>1, ProjectionAssumption
  <2>4. DOMAIN p = 1..Len(p)
    <3> DEFINE X == Range(p)
    <3>1. p \in Seq(X)
      BY <2>3
    <3> HIDE DEF X, p
    <3>2. QED
      BY <3>1
  <2> HIDE DEF s, p, c
  <2>5. /\ Len(c) = Len(p) /\ DOMAIN c = 1..Len(p)
        /\ \A k \in 1..Len(p) : OneColumn(Schema, p[k], c[k])
    BY <2>2, <2>3, ReturnColumnsExact
  <2>6. ASSUME NEW k \in 1..Len(p) PROVE c[k] \in Acceptable[s][k]
    <3>1. Acceptable[s][k] = {Asked(Schema, p[k])} \cup (IF Departs(Schema, p[k]) THEN Range(Columns[s]) ELSE {})
      BY <2>1, <2>4 DEF Acceptable, p
    <3>2. c[k] \in Range(Columns[s])
      BY <2>1, <2>5 DEF Range
    <3>3. ~ Departs(Schema, p[k]) => c[k] = Asked(Schema, p[k])
      BY <2>5 DEF OneColumn
    <3>4. QED
      BY <3>1, <3>2, <3>3
  <2>7. QED
    BY <2>5, <2>6 DEF s, p, c
<1>3. QED
  BY <1>1, <1>2, ColumnsStep, PTL DEF Spec
==============================================================================
