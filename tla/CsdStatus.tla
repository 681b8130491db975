------------------------------ MODULE CsdStatus ------------------------------
(***************************************************************************)
(* The status of the CSDs: CSDStatusManager of                               *)
(* src/offloading_module/csd_status_manager.h and the calls that reach it.   *)
(* One map holds the latest metrics of every CSD and four kinds of thread    *)
(* use it:                                                                   *)
(*   - the puller fetches all metrics from the metric collector every five   *)
(*     seconds and writes them entry by entry, WITHOUT the mutex;            *)
(*   - a PushCSDMetric call writes its entries one by one under the mutex,   *)
(*     which it gives back between two entries;                              *)
(*   - the scheduler looks CSDs up under the mutex, with operator[], which   *)
(*     adds an entry of zeros for a CSD nobody has reported;                 *)
(*   - a keti_get_csd_status call walks the map without the mutex.           *)
(* An entry is read and written in two halves (load: cpu, memory, disk,      *)
(* network and working blocks; score: the one field the scheduler uses), so  *)
(* that an access without the mutex can come between them.  A metric is the  *)
(* number of the measurement it comes from, 0 before the first.  Undefined   *)
(* behaviour, which the program may survive or crash from, is adding an      *)
(* entry while another thread is in the map, and meeting the puller in an    *)
(* entry, whose csd_ip is a string that both then write or copy (a listing   *)
(* reads the numbers of an entry only).                                      *)
(***************************************************************************)
EXTENDS Naturals

CONSTANTS Csd,          \* the CSDs that are measured or looked up
          Pusher,       \* threads of PushCSDMetric calls
          MaxMeasured,  \* bound: measurements of each CSD
          MaxPushes     \* bound: PushCSDMetric calls

ASSUME CsdAssumption ==
  /\ Csd # {}
  /\ MaxMeasured \in [Csd -> Nat]
  /\ MaxPushes \in Nat

VARIABLES measured,     \* of each CSD: its newest measurement
          present,      \* the keys of CSDStatusManager_
          info,         \* the entry of each CSD, zeros if it has none
          puller,       \* the pull thread: what it does, what it still writes
          pusher,       \* the thread of each call: what it still writes
          pushes,       \* calls received
          scheduler,    \* the entry the scheduler reads, and its load half
          listing,      \* a listing is in the map
          crashed,      \* the program has ended
          racers,       \* history: the threads that met when it crashed
          overlapped    \* history: entries the puller and another were in at once

vars == <<measured, present, info, puller, pusher, pushes, scheduler, listing,
          crashed, racers, overlapped>>

Zeros == [load |-> 0, score |-> 0]

\* The entries of a reply or of a call: a metric for some of the CSDs.
NoEntries == [c \in {} |-> Zeros]
Without(entries, c) == [d \in DOMAIN entries \ {c} |-> entries[d]]

\* A thread that writes: `at' is the entry it is in the middle of.
Writing(entries) == [todo |-> entries, at |-> {}]

Init ==
  /\ measured = [c \in Csd |-> 0]
  /\ present = {}
  /\ info = [c \in Csd |-> Zeros]
  /\ puller = [doing |-> "fetching", work |-> Writing(NoEntries)]
  /\ pusher = [p \in Pusher |-> Writing(NoEntries)]
  /\ pushes = 0
  /\ scheduler = [at |-> {}, load |-> 0]
  /\ listing = FALSE
  /\ crashed = FALSE
  /\ racers = {}
  /\ overlapped = {}
------------------------------------------------------------------------------
\* The threads that are in the map: between the two halves of an entry, or
\* between the first and the last entry of a listing.
InMap ==
  (IF puller.work.at # {} THEN {"puller"} ELSE {})
    \cup (IF \E p \in Pusher : pusher[p].at # {} THEN {"pusher"} ELSE {})
    \cup (IF scheduler.at # {} THEN {"scheduler"} ELSE {})
    \cup (IF listing THEN {"listing"} ELSE {})

\* The entries the calls and the scheduler are in the middle of.
InLocked == scheduler.at \cup UNION {pusher[p].at : p \in Pusher}

\* Faulty variants: nobody waits for the mutex; only writers take it.
FreeAlways == TRUE
FreeOfWriters == "pusher" \notin InMap

\* mutex_ can be taken: setCSDInfo and getCSDInfo hold it while they are in
\* the map, the puller and a listing never.
Free == InMap \cap {"pusher", "scheduler"} = {}

\* The entries t would meet a thread in that does not hold t's mutex.
Elsewhere(t) == IF t = "puller" THEN InLocked ELSE puller.work.at

\* operator[] by thread t, and the copy of the entry that follows: c is added
\* with zeros if it is not there.  Adding it with another thread in the map, or
\* using it with another thread in it (csd_ip is a string), is a data race,
\* which may end the program.
Access(t, c) ==
  /\ present' = present \cup {c}
  /\ \/ UNCHANGED <<crashed, racers>>
     \/ /\ InMap # {}
        /\ c \notin present \/ c \in Elsewhere(t)
        /\ crashed' = TRUE
        /\ racers' = InMap \cup {t}
  /\ overlapped' = overlapped \cup ({c} \cap Elsewhere(t))
------------------------------------------------------------------------------
\* The world outside: a CSD is measured once more.
Measure(c) ==
  /\ ~crashed
  /\ measured[c] < MaxMeasured[c]
  /\ measured' = [measured EXCEPT ![c] = @ + 1]
  /\ UNCHANGED <<present, info, puller, pusher, pushes, scheduler, listing, crashed, racers, overlapped>>

\* A metric sent now; a reply may lack the score, which is then read as 0.
Current(c) == [load |-> measured[c], score |-> measured[c]]
Scoreless(c) == [load |-> measured[c], score |-> 0]

PullerOnly == UNCHANGED <<measured, present, info, pusher, pushes, scheduler, listing, racers, overlapped>>

\* pullCSDStatus up to its loop, with a good reply about every CSD.
FetchAll ==
  /\ ~crashed
  /\ puller.doing = "fetching"
  /\ puller' = [doing |-> "storing", work |-> Writing([c \in Csd |-> Current(c)])]
  /\ UNCHANGED crashed
  /\ PullerOnly

\* A reply with a gap (one at a time, the entries being written one by one):
\* a member of csdList that is no array, an element that is no object and a CSD
\* the reply does not name leave nothing to write; a missing score is 0.
FetchSome ==
  /\ ~crashed
  /\ puller.doing = "fetching"
  /\ \E gap \in Csd :
       \E todo \in {[c \in Csd \ {gap} |-> Current(c)],
                  [c \in Csd |-> IF c = gap THEN Scoreless(c) ELSE Current(c)]} :
         puller' = [doing |-> "storing", work |-> Writing(todo)]
  /\ UNCHANGED crashed
  /\ PullerOnly

\* Faulty variant: the thread ends with the first bad reply.
FetchBadEnds ==
  /\ ~crashed
  /\ puller.doing = "fetching"
  /\ puller' = [puller EXCEPT !.doing = "ended"]
  /\ UNCHANGED crashed
  /\ PullerOnly

\* The transfer fails, the reply is no JSON, or it has no csdList that is an
\* object: pullCSDStatus returns, and pullCycle goes on.
FetchBad ==
  /\ ~crashed
  /\ puller.doing = "fetching"
  /\ puller' = [puller EXCEPT !.doing = "sleeping"]
  /\ UNCHANGED crashed
  /\ PullerOnly

\* curl_easy_perform has no timeout: it does not return from a collector that
\* neither answers nor closes.
FetchHangs ==
  /\ ~crashed
  /\ puller.doing = "fetching"
  /\ puller' = [puller EXCEPT !.doing = "hung"]
  /\ UNCHANGED crashed
  /\ PullerOnly

\* A reply that is JSON but no object: the assertion in HasMember ends the
\* program.
FetchNoObject ==
  /\ ~crashed
  /\ puller.doing = "fetching"
  /\ crashed' = TRUE
  /\ UNCHANGED puller
  /\ PullerOnly

\* CSDStatusManager_[csd_id] = info, without the mutex.
PullStore(c) ==
  /\ ~crashed
  /\ puller.doing = "storing"
  /\ puller.work.at = {}
  /\ c \in DOMAIN puller.work.todo
  /\ Access("puller", c)
  /\ info' = [info EXCEPT ![c].load = puller.work.todo[c].load]
  /\ puller' = [puller EXCEPT !.work.at = {c}]
  /\ UNCHANGED <<measured, pusher, pushes, scheduler, listing>>

PullStored(c) ==
  /\ ~crashed
  /\ puller.work.at = {c}
  /\ info' = [info EXCEPT ![c].score = puller.work.todo[c].score]
  /\ puller' = [puller EXCEPT !.work = Writing(Without(puller.work.todo, c))]
  /\ UNCHANGED <<measured, present, pusher, pushes, scheduler, listing, crashed, racers, overlapped>>

\* The loop is over: pullCycle sleeps, and then fetches again.
PullDone ==
  /\ ~crashed
  /\ puller.doing = "storing"
  /\ puller.work.at = {}
  /\ DOMAIN puller.work.todo = {}
  /\ puller' = [puller EXCEPT !.doing = "sleeping"]
  /\ UNCHANGED crashed
  /\ PullerOnly

PullAgain ==
  /\ ~crashed
  /\ puller.doing = "sleeping"
  /\ puller' = [puller EXCEPT !.doing = "fetching"]
  /\ UNCHANGED crashed
  /\ PullerOnly
------------------------------------------------------------------------------
\* PushCSDMetric arrives with metrics of some CSDs.  The Storage Engine
\* interface passes the call on and answers OK whatever becomes of it, so a
\* call that fails on the way is one that never arrives here.
PushArrives(p) ==
  /\ ~crashed
  /\ pusher[p] = Writing(NoEntries)
  /\ pushes < MaxPushes
  /\ pushes' = pushes + 1
  /\ \E named \in (SUBSET Csd) \ {{}} :
       pusher' = [pusher EXCEPT ![p] = Writing([c \in named |-> Current(c)])]
  /\ UNCHANGED <<measured, present, info, puller, scheduler, listing, crashed, racers, overlapped>>

\* setCSDInfo: one entry under the mutex.
SetCSDInfo(p, c) ==
  /\ ~crashed
  /\ c \in DOMAIN pusher[p].todo
  /\ pusher[p].at = {}
  /\ Free
  /\ Access("pusher", c)
  /\ info' = [info EXCEPT ![c].load = pusher[p].todo[c].load]
  /\ pusher' = [pusher EXCEPT ![p].at = {c}]
  /\ UNCHANGED <<measured, puller, pushes, scheduler, listing>>

SetCSDInfoReturns(p, c) ==
  /\ ~crashed
  /\ pusher[p].at = {c}
  /\ info' = [info EXCEPT ![c].score = pusher[p].todo[c].score]
  /\ pusher' = [pusher EXCEPT ![p] = Writing(Without(pusher[p].todo, c))]
  /\ UNCHANGED <<measured, present, puller, pushes, scheduler, listing, crashed, racers, overlapped>>

\* getCSDInfo for the scheduler: a copy of one entry, made under the mutex.
GetCSDInfo(c) ==
  /\ ~crashed
  /\ scheduler.at = {}
  /\ Free
  /\ Access("scheduler", c)
  /\ scheduler' = [at |-> {c}, load |-> info[c].load]
  /\ UNCHANGED <<measured, info, puller, pusher, pushes, listing>>

GetCSDInfoReturns ==
  /\ ~crashed
  /\ scheduler.at # {}
  /\ scheduler' = [at |-> {}, load |-> 0]
  /\ UNCHANGED <<measured, present, info, puller, pusher, pushes, listing, crashed, racers, overlapped>>

\* t_get_csd_status walks the map without the mutex; keti_get_csd_status drops
\* the list and answers with an empty one.
List ==
  /\ ~crashed
  /\ ~listing
  /\ present # {}
  /\ listing' = TRUE
  /\ UNCHANGED <<measured, present, info, puller, pusher, pushes, scheduler, crashed, racers, overlapped>>

Listed ==
  /\ ~crashed
  /\ listing
  /\ listing' = FALSE
  /\ UNCHANGED <<measured, present, info, puller, pusher, pushes, scheduler, crashed, racers, overlapped>>

Next ==
  \/ \E c \in Csd : \/ Measure(c) \/ PullStore(c) \/ PullStored(c) \/ GetCSDInfo(c)
                    \/ \E p \in Pusher : SetCSDInfo(p, c) \/ SetCSDInfoReturns(p, c)
  \/ FetchAll \/ FetchSome \/ FetchBad \/ FetchHangs \/ FetchNoObject
  \/ PullDone \/ PullAgain
  \/ \E p \in Pusher : PushArrives(p)
  \/ GetCSDInfoReturns \/ List \/ Listed

\* Threads that can run are scheduled, the mutex is given out in the end, and
\* the collector, asked again and again, gives a full reply in the end.
PullerRuns == \/ \E c \in Csd : PullStore(c) \/ PullStored(c)
              \/ PullDone \/ PullAgain
PusherRuns == \E p \in Pusher : \E c \in Csd : SetCSDInfo(p, c) \/ SetCSDInfoReturns(p, c)

Fairness ==
  /\ WF_vars(PullerRuns)
  /\ SF_vars(PusherRuns)
  /\ WF_vars(GetCSDInfoReturns)
  /\ SF_vars(FetchAll)

Spec == Init /\ [][Next]_vars /\ Fairness
------------------------------------------------------------------------------
\* The record getCSDInfo copies for the scheduler is one that somebody wrote as
\* a whole: the entry does not change under the copy, and its load and its
\* score are from the same measurement, or the score was missing.  The mutex
\* gives that until the puller, which writes without it, has met a call or the
\* scheduler in the entry (csd_status_manager.h:199-212); after that a mixed
\* record may stay in the map.
ReadsAreWhole ==
  \A c \in scheduler.at \ overlapped :
    /\ scheduler.load = info[c].load
    /\ info[c].score \in {0, info[c].load}

\* The calls and the scheduler exclude each other: a race in the map that ends
\* the program always has the puller or a listing in it
\* (csd_status_manager.h:199, 206, 211, 221).
LockedCallsNeverRace == racers = {} \/ racers \cap {"puller", "listing"} # {}

\* A late push may overwrite newer metrics, a pull in hand too, and a reply
\* with gaps writes zeros; but as long as the program and the pull thread live,
\* the map comes to show the newest measurement of every CSD again and again
\* (csd_status_manager.h:70-89).
NewestShownAgain ==
  []<>(\/ crashed \/ puller.doing = "hung"
       \/ \A c \in Csd : info[c] = Current(c))
==============================================================================
