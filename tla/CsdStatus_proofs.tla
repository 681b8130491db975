--------------------------- MODULE CsdStatus_proofs ---------------------------
(***************************************************************************)
(* The status of the CSDs for any number of CSDs, calls and measurements:    *)
(* the mutex keeps the calls and the scheduler apart, and what the scheduler *)
(* copies is whole unless the puller has been in the entry with another.     *)
(***************************************************************************)
EXTENDS CsdStatus, TLAPS

\* A race that ends the program has the puller or a listing in it, whatever the
\* number of calls: who holds the mutex meets nobody else that takes it
\* (csd_status_manager.h:199, 206, 211, 221).
THEOREM OnlyUnlockedThreadsRace == Spec => []LockedCallsNeverRace
<1>1. Init => LockedCallsNeverRace
  BY DEF Init, LockedCallsNeverRace
<1>2. LockedCallsNeverRace /\ [Next]_vars => LockedCallsNeverRace'
  <2> SUFFICES ASSUME LockedCallsNeverRace, [Next]_vars PROVE LockedCallsNeverRace'
    OBVIOUS
  <2> USE DEF LockedCallsNeverRace
  <2>1. ASSUME NEW c \in Csd, PullStore(c) PROVE LockedCallsNeverRace'
    BY <2>1 DEF PullStore, Access
  <2>2. ASSUME NEW c \in Csd, NEW p \in Pusher, SetCSDInfo(p, c) PROVE LockedCallsNeverRace'
    <3>1. InMap \subseteq {"puller", "listing"}
      BY <2>2 DEF SetCSDInfo, Free, InMap
    <3>2. racers' = racers \/ (InMap # {} /\ racers' = InMap \cup {"pusher"})
      BY <2>2 DEF SetCSDInfo, Access
    <3>3. QED
      BY <3>1, <3>2
  <2>3. ASSUME NEW c \in Csd, GetCSDInfo(c) PROVE LockedCallsNeverRace'
    <3>1. InMap \subseteq {"puller", "listing"}
      BY <2>3 DEF GetCSDInfo, Free, InMap
    <3>2. racers' = racers \/ (InMap # {} /\ racers' = InMap \cup {"scheduler"})
      BY <2>3 DEF GetCSDInfo, Access
    <3>3. QED
      BY <3>1, <3>2
  \* No other step enters an entry.
  <2>4. ASSUME \/ \E c \in Csd : Measure(c) \/ PullStored(c)
               \/ FetchAll \/ FetchSome \/ FetchBad \/ FetchHangs \/ FetchNoObject
               \/ PullDone \/ PullAgain
        PROVE  racers' = racers
    BY <2>4 DEF Measure, PullStored, FetchAll, FetchSome, FetchBad, FetchHangs,
                FetchNoObject, PullDone, PullAgain, PullerOnly
  <2>5. ASSUME \/ \E p \in Pusher : PushArrives(p)
               \/ \E p \in Pusher : \E c \in Csd : SetCSDInfoReturns(p, c)
               \/ GetCSDInfoReturns \/ List \/ Listed
               \/ UNCHANGED vars
        PROVE  racers' = racers
    BY <2>5 DEF PushArrives, SetCSDInfoReturns, GetCSDInfoReturns, List, Listed, vars
  <2>6. QED
    BY <2>1, <2>2, <2>3, <2>4, <2>5 DEF Next
<1>3. QED
  BY <1>1, <1>2, PTL DEF Spec
------------------------------------------------------------------------------
(* The invariant behind ReadsAreWhole.                                        *)

Entry == [load : Nat, score : Nat]

\* Load and score of one measurement, or no score.
Whole(m) == m.score \in {0, m.load}

\* What a thread still writes: whole entries, and it is in the middle of at
\* most one of them.
Sound(work) ==
  /\ work = [todo |-> work.todo, at |-> work.at]
  /\ work.todo = [c \in DOMAIN work.todo |-> work.todo[c]]
  /\ DOMAIN work.todo \subseteq Csd
  /\ \A c \in DOMAIN work.todo : work.todo[c] \in Entry /\ Whole(work.todo[c])
  /\ work.at \subseteq DOMAIN work.todo
  /\ \A c, d \in work.at : c = d

StatusTypes ==
  /\ measured \in [Csd -> Nat]
  /\ info \in [Csd -> Entry]
  /\ puller = [doing |-> puller.doing, work |-> puller.work]
  /\ Sound(puller.work)
  /\ pusher = [p \in Pusher |-> pusher[p]]
  /\ \A p \in Pusher : Sound(pusher[p])
  /\ scheduler \in [at : SUBSET Csd, load : Nat]
  /\ \A c, d \in scheduler.at : c = d

\* The pull thread is in an entry only in its loop.
PullerPlace == puller.work.at # {} => puller.doing = "storing"

\* The mutex: at most one of the calls and the scheduler is in an entry.
Exclusive ==
  /\ \A p, q \in Pusher : pusher[p].at # {} /\ pusher[q].at # {} => p = q
  /\ \A p \in Pusher : pusher[p].at # {} => scheduler.at = {}

\* A meeting with the puller in an entry is on record.
MeetingsSeen == puller.work.at \cap InLocked \subseteq overlapped

\* While nobody else was there, what a writer has written of an entry is there.
Halves(work) == \A c \in work.at \ overlapped : info[c].load = work.todo[c].load

\* An entry nobody writes is whole.
EntriesWhole ==
  \A c \in Csd \ overlapped :
    c \notin puller.work.at /\ (\A p \in Pusher : c \notin pusher[p].at) => Whole(info[c])

CopyFits == \A c \in scheduler.at \ overlapped : scheduler.load = info[c].load

StatusInv ==
  /\ StatusTypes
  /\ PullerPlace
  /\ Exclusive
  /\ MeetingsSeen
  /\ Halves(puller.work)
  /\ \A p \in Pusher : Halves(pusher[p])
  /\ EntriesWhole
  /\ CopyFits

\* The invariant implies the property: with the scheduler in an entry no call is
\* in it, and if the puller is, that is on record.
LEMMA InvReads == StatusInv => ReadsAreWhole
<1> SUFFICES ASSUME StatusInv, NEW c \in scheduler.at \ overlapped
             PROVE  scheduler.load = info[c].load /\ Whole(info[c])
  BY DEF ReadsAreWhole, Whole
<1>1. c \in Csd
  BY DEF StatusInv, StatusTypes
<1>2. \A p \in Pusher : c \notin pusher[p].at
  BY DEF StatusInv, Exclusive
<1>3. c \notin puller.work.at
  BY DEF StatusInv, MeetingsSeen, InLocked
<1>4. QED
  BY <1>1, <1>2, <1>3 DEF StatusInv, EntriesWhole, CopyFits

\* What remains to be written is sound again when an entry has been written.
LEMMA WithoutSound ==
  ASSUME NEW work, Sound(work), NEW c
  PROVE  Sound(Writing(Without(work.todo, c)))
<1> DEFINE rest == Without(work.todo, c)
<1>1. /\ DOMAIN rest = DOMAIN work.todo \ {c}
      /\ \A d \in DOMAIN rest : rest[d] = work.todo[d]
      /\ rest = [d \in DOMAIN rest |-> rest[d]]
  BY DEF Without
<1> HIDE DEF rest
<1> DEFINE left == Writing(rest)
<1>2. left.todo = rest /\ left.at = {} /\ left = [todo |-> left.todo, at |-> left.at]
  BY DEF Writing
<1> HIDE DEF left
<1>3. \A d \in DOMAIN rest : rest[d] \in Entry /\ Whole(rest[d])
  BY <1>1 DEF Sound
<1>4. DOMAIN rest \subseteq Csd
  BY <1>1 DEF Sound
<1>5. Sound(left)
  BY <1>1, <1>2, <1>3, <1>4 DEF Sound
<1>6. QED
  BY <1>5 DEF left, rest

\* A set of current metrics, some of them without a score, is sound work.
LEMMA CurrentSound ==
  ASSUME measured \in [Csd -> Nat], NEW todo, DOMAIN todo \subseteq Csd,
         todo = [c \in DOMAIN todo |-> todo[c]],
         \A c \in DOMAIN todo : todo[c] \in {Current(c), Scoreless(c)}
  PROVE  Sound(Writing(todo))
<1>1. ASSUME NEW c \in Csd
      PROVE  /\ Current(c) \in Entry /\ Whole(Current(c))
             /\ Scoreless(c) \in Entry /\ Whole(Scoreless(c))
  BY DEF Current, Scoreless, Entry, Whole
<1>2. \A c \in DOMAIN todo : todo[c] \in Entry /\ Whole(todo[c])
  BY <1>1
<1>3. QED
  BY <1>2 DEF Sound, Writing

\* The two halves of writing an entry.
LEMMA LoadWritten ==
  ASSUME info \in [Csd -> Entry], NEW c \in Csd, NEW n \in Nat,
         info' = [info EXCEPT ![c].load = n]
  PROVE  /\ info' \in [Csd -> Entry]
         /\ info'[c].load = n
         /\ \A d \in Csd \ {c} : info'[d] = info[d]
BY DEF Entry

LEMMA ScoreWritten ==
  ASSUME info \in [Csd -> Entry], NEW c \in Csd, NEW n \in Nat,
         info' = [info EXCEPT ![c].score = n]
  PROVE  /\ info' \in [Csd -> Entry]
         /\ info'[c].score = n
         /\ info'[c].load = info[c].load
         /\ \A d \in Csd \ {c} : info'[d] = info[d]
BY DEF Entry

\* A thread that begins to write an entry of its sound work.
LEMMA BeginSound ==
  ASSUME NEW work, Sound(work), NEW c \in DOMAIN work.todo, NEW begun,
         begun = [todo |-> work.todo, at |-> {c}]
  PROVE  Sound(begun) /\ begun.todo = work.todo /\ begun.at = {c}
<1>1. begun.todo = work.todo /\ begun.at = {c} /\ begun = [todo |-> begun.todo, at |-> begun.at]
  OBVIOUS
<1>2. QED
  BY <1>1 DEF Sound

\* The puller enters an entry: the mutex is not asked for, and whoever is there
\* is put on record.
LEMMA PullStoreKeeps ==
  ASSUME StatusInv, NEW c \in Csd, PullStore(c)
  PROVE  StatusInv'
<1>1. StatusTypes /\ Sound(puller.work) /\ c \in DOMAIN puller.work.todo /\ puller.work.at = {}
  BY DEF StatusInv, StatusTypes, PullStore
<1>2. puller.work.todo[c].load \in Nat
  BY <1>1 DEF Sound, Entry
<1>3. /\ info' \in [Csd -> Entry]
      /\ info'[c].load = puller.work.todo[c].load
      /\ \A d \in Csd \ {c} : info'[d] = info[d]
  BY <1>1, <1>2, LoadWritten DEF PullStore, StatusTypes
<1>4. /\ puller'.work = [todo |-> puller.work.todo, at |-> {c}]
      /\ puller' = [doing |-> puller'.doing, work |-> puller'.work]
  BY <1>1 DEF PullStore, StatusTypes, Sound
<1>5. /\ Sound(puller'.work)
      /\ puller'.work.todo = puller.work.todo
      /\ puller'.work.at = {c}
  BY <1>1, <1>4, BeginSound
<1>6. /\ UNCHANGED <<measured, pusher, scheduler>>
      /\ overlapped' = overlapped \cup ({c} \cap InLocked)
  BY DEF PullStore, Access, Elsewhere
<1>7. StatusTypes'
  <2>1. Sound(puller.work)'
    BY <1>5 DEF Sound
  <2>2. \A p \in Pusher : Sound(pusher[p])'
    BY <1>1, <1>6 DEF StatusTypes, Sound
  <2>3. QED
    BY <1>1, <1>3, <1>4, <1>6, <2>1, <2>2 DEF StatusTypes
<1>8. Exclusive'
  BY <1>6 DEF StatusInv, Exclusive
<1>9. MeetingsSeen'
  BY <1>5, <1>6 DEF MeetingsSeen, InLocked
<1>10. Halves(puller.work)'
  BY <1>3, <1>5 DEF Halves
<1>11. ASSUME NEW p \in Pusher PROVE Halves(pusher[p])'
  <2>1. pusher[p].at \subseteq Csd
    BY <1>1 DEF StatusTypes, Sound
  <2>2. ASSUME NEW d \in pusher[p].at \ overlapped' PROVE d # c
    BY <1>6, <2>2 DEF InLocked
  <2>3. QED
    BY <1>3, <1>6, <2>1, <2>2 DEF Halves, StatusInv
<1>12. EntriesWhole'
  BY <1>1, <1>3, <1>5, <1>6 DEF EntriesWhole, StatusInv, Whole
<1>13. CopyFits'
  <2>1. ASSUME NEW d \in scheduler.at \ overlapped' PROVE d # c
    BY <1>6, <2>1 DEF InLocked
  <2>2. scheduler.at \subseteq Csd
    BY <1>1 DEF StatusTypes
  <2>3. QED
    BY <1>3, <1>6, <2>1, <2>2 DEF CopyFits, StatusInv
<1>14. PullerPlace'
  BY <1>1 DEF PullStore, PullerPlace, StatusTypes
<1>15. QED
  BY <1>14, <1>7, <1>8, <1>9, <1>10, <1>11, <1>12, <1>13 DEF StatusInv

\* The puller leaves an entry: if it was alone there, the entry is whole.
LEMMA PullStoredKeeps ==
  ASSUME StatusInv, NEW c \in Csd, PullStored(c)
  PROVE  StatusInv'
<1>1. StatusTypes /\ Sound(puller.work) /\ c \in DOMAIN puller.work.todo /\ puller.work.at = {c}
  BY DEF StatusInv, StatusTypes, PullStored, Sound
<1>2. puller.work.todo[c].score \in Nat /\ Whole(puller.work.todo[c])
  BY <1>1 DEF Sound, Entry
<1>3. /\ info' \in [Csd -> Entry]
      /\ info'[c].score = puller.work.todo[c].score
      /\ info'[c].load = info[c].load
      /\ \A d \in Csd \ {c} : info'[d] = info[d]
  BY <1>1, <1>2, ScoreWritten DEF PullStored, StatusTypes
<1>4. /\ puller'.work = Writing(Without(puller.work.todo, c))
      /\ puller' = [doing |-> puller'.doing, work |-> puller'.work]
  BY <1>1 DEF PullStored, StatusTypes
<1>5. Sound(puller'.work) /\ puller'.work.at = {}
  BY <1>1, <1>4, WithoutSound DEF Writing
<1>6. UNCHANGED <<measured, pusher, scheduler, overlapped>>
  BY DEF PullStored
<1>7. StatusTypes'
  <2>1. Sound(puller.work)'
    BY <1>5 DEF Sound
  <2>2. \A p \in Pusher : Sound(pusher[p])'
    BY <1>1, <1>6 DEF StatusTypes, Sound
  <2>3. QED
    BY <1>1, <1>3, <1>4, <1>6, <2>1, <2>2 DEF StatusTypes
<1>8. Exclusive'
  BY <1>6 DEF StatusInv, Exclusive
<1>9. MeetingsSeen'
  BY <1>5, <1>6 DEF MeetingsSeen, InLocked
<1>10. Halves(puller.work)'
  BY <1>5 DEF Halves
<1>11. \A d \in Csd : info'[d].load = info[d].load
  BY <1>3
<1>12. ASSUME NEW p \in Pusher PROVE Halves(pusher[p])'
  <2>1. pusher[p].at \subseteq Csd
    BY <1>1 DEF StatusTypes, Sound
  <2>2. QED
    BY <1>6, <1>11, <2>1 DEF Halves, StatusInv
<1>13. EntriesWhole'
  <2>1. ASSUME c \notin overlapped PROVE Whole(info'[c])
    BY <1>1, <1>2, <1>3, <2>1 DEF StatusInv, Halves, Whole
  <2>2. QED
    BY <1>1, <1>3, <1>6, <2>1 DEF EntriesWhole, StatusInv, Whole
<1>14. CopyFits'
  <2>1. scheduler.at \subseteq Csd
    BY <1>1 DEF StatusTypes
  <2>2. QED
    BY <1>6, <1>11, <2>1 DEF CopyFits, StatusInv
<1>15. PullerPlace'
  BY <1>5 DEF PullerPlace
<1>16. QED
  BY <1>15, <1>7, <1>8, <1>9, <1>10, <1>12, <1>13, <1>14 DEF StatusInv

\* A call enters an entry: the mutex is free, so that no other call and not the
\* scheduler is in any, and if the puller is there, that is put on record.
LEMMA SetCSDInfoKeeps ==
  ASSUME StatusInv, NEW p \in Pusher, NEW c \in Csd, SetCSDInfo(p, c)
  PROVE  StatusInv'
<1>1. StatusTypes /\ Sound(pusher[p]) /\ c \in DOMAIN pusher[p].todo
  BY DEF StatusInv, StatusTypes, SetCSDInfo
<1>2. pusher[p].todo[c].load \in Nat
  BY <1>1 DEF Sound, Entry
<1>3. /\ info' \in [Csd -> Entry]
      /\ info'[c].load = pusher[p].todo[c].load
      /\ \A d \in Csd \ {c} : info'[d] = info[d]
  BY <1>1, <1>2, LoadWritten DEF SetCSDInfo, StatusTypes
<1>4. /\ pusher'[p] = [todo |-> pusher[p].todo, at |-> {c}]
      /\ pusher' = [q \in Pusher |-> pusher'[q]]
      /\ \A q \in Pusher \ {p} : pusher'[q] = pusher[q]
  BY <1>1 DEF SetCSDInfo, StatusTypes, Sound
<1>5. /\ Sound(pusher'[p])
      /\ pusher'[p].todo = pusher[p].todo
      /\ pusher'[p].at = {c}
  BY <1>1, <1>4, BeginSound
<1>6. /\ UNCHANGED <<measured, puller, scheduler>>
      /\ overlapped' = overlapped \cup ({c} \cap puller.work.at)
  BY DEF SetCSDInfo, Access, Elsewhere
<1>7. scheduler.at = {} /\ \A q \in Pusher : pusher[q].at = {}
  BY DEF SetCSDInfo, Free, InMap
<1>8. StatusTypes'
  <2>1. Sound(puller.work)'
    BY <1>1, <1>6 DEF StatusTypes, Sound
  <2>2. ASSUME NEW q \in Pusher PROVE Sound(pusher[q])'
    <3>1. Sound(pusher'[q])
      BY <1>1, <1>4, <1>5 DEF StatusTypes
    <3>2. QED
      BY <3>1 DEF Sound
  <2>3. QED
    BY <1>1, <1>3, <1>4, <1>6, <2>1, <2>2 DEF StatusTypes
<1>9. Exclusive'
  BY <1>4, <1>6, <1>7 DEF Exclusive
<1>10. MeetingsSeen'
  BY <1>4, <1>5, <1>6, <1>7 DEF MeetingsSeen, InLocked
<1>11. Halves(puller.work)'
  <2>1. puller.work.at \subseteq Csd
    BY <1>1 DEF StatusTypes, Sound
  <2>2. QED
    BY <1>3, <1>6, <2>1 DEF Halves, StatusInv
<1>12. ASSUME NEW q \in Pusher PROVE Halves(pusher[q])'
  <2>1. CASE q = p
    BY <1>3, <1>5, <2>1 DEF Halves
  <2>2. CASE q # p
    BY <1>4, <1>7, <2>2 DEF Halves
  <2>3. QED
    BY <2>1, <2>2
<1>13. EntriesWhole'
  BY <1>1, <1>3, <1>4, <1>5, <1>6, <1>7 DEF EntriesWhole, StatusInv, Whole
<1>14. CopyFits'
  BY <1>6, <1>7 DEF CopyFits
<1>15. PullerPlace'
  BY <1>6 DEF PullerPlace, StatusInv
<1>16. QED
  BY <1>15, <1>8, <1>9, <1>10, <1>11, <1>12, <1>13, <1>14 DEF StatusInv

\* A call leaves an entry: if the puller has not been there, the entry is whole.
LEMMA SetCSDInfoReturnsKeeps ==
  ASSUME StatusInv, NEW p \in Pusher, NEW c \in Csd, SetCSDInfoReturns(p, c)
  PROVE  StatusInv'
<1>1. StatusTypes /\ Sound(pusher[p]) /\ c \in DOMAIN pusher[p].todo /\ pusher[p].at = {c}
  BY DEF StatusInv, StatusTypes, SetCSDInfoReturns, Sound
<1>2. pusher[p].todo[c].score \in Nat /\ Whole(pusher[p].todo[c])
  BY <1>1 DEF Sound, Entry
<1>3. /\ info' \in [Csd -> Entry]
      /\ info'[c].score = pusher[p].todo[c].score
      /\ info'[c].load = info[c].load
      /\ \A d \in Csd \ {c} : info'[d] = info[d]
  BY <1>1, <1>2, ScoreWritten DEF SetCSDInfoReturns, StatusTypes
<1>4. /\ pusher'[p] = Writing(Without(pusher[p].todo, c))
      /\ pusher' = [q \in Pusher |-> pusher'[q]]
      /\ \A q \in Pusher \ {p} : pusher'[q] = pusher[q]
  BY <1>1 DEF SetCSDInfoReturns, StatusTypes
<1>5. Sound(pusher'[p]) /\ pusher'[p].at = {}
  BY <1>1, <1>4, WithoutSound DEF Writing
<1>6. UNCHANGED <<measured, puller, scheduler, overlapped>>
  BY DEF SetCSDInfoReturns
<1>7. scheduler.at = {} /\ \A q \in Pusher \ {p} : pusher[q].at = {}
  BY <1>1 DEF StatusInv, Exclusive
<1>8. StatusTypes'
  <2>1. Sound(puller.work)'
    BY <1>1, <1>6 DEF StatusTypes, Sound
  <2>2. ASSUME NEW q \in Pusher PROVE Sound(pusher[q])'
    <3>1. Sound(pusher'[q])
      BY <1>1, <1>4, <1>5 DEF StatusTypes
    <3>2. QED
      BY <3>1 DEF Sound
  <2>3. QED
    BY <1>1, <1>3, <1>4, <1>6, <2>1, <2>2 DEF StatusTypes
<1>9. \A q \in Pusher : pusher'[q].at = {}
  BY <1>4, <1>5, <1>7
<1>10. Exclusive' /\ MeetingsSeen' /\ CopyFits'
  BY <1>6, <1>7, <1>9 DEF Exclusive, MeetingsSeen, InLocked, CopyFits
<1>11. Halves(puller.work)'
  <2>1. puller.work.at \subseteq Csd
    BY <1>1 DEF StatusTypes, Sound
  <2>2. \A d \in Csd : info'[d].load = info[d].load
    BY <1>3
  <2>3. QED
    BY <1>6, <2>1, <2>2 DEF Halves, StatusInv
<1>12. \A q \in Pusher : Halves(pusher[q])'
  BY <1>9 DEF Halves
<1>13. EntriesWhole'
  <2>1. ASSUME c \notin overlapped PROVE Whole(info'[c])
    BY <1>1, <1>2, <1>3, <2>1 DEF StatusInv, Halves, Whole
  <2>2. QED
    BY <1>1, <1>3, <1>6, <1>7, <2>1 DEF EntriesWhole, StatusInv, Whole
<1>14. PullerPlace'
  BY <1>6 DEF PullerPlace, StatusInv
<1>15. QED
  BY <1>14, <1>8, <1>10, <1>11, <1>12, <1>13 DEF StatusInv

\* Steps that leave the entries and those who write them alone.
LEMMA EntriesUntouched ==
  ASSUME StatusInv, UNCHANGED info,
         StatusTypes', PullerPlace', Exclusive', MeetingsSeen', CopyFits',
         overlapped \subseteq overlapped',
         puller'.work.at = puller.work.at,
         \A c \in puller.work.at : puller'.work.todo[c] = puller.work.todo[c],
         \A p \in Pusher : pusher'[p].at = pusher[p].at,
         \A p \in Pusher : \A c \in pusher[p].at : pusher'[p].todo[c] = pusher[p].todo[c]
  PROVE  StatusInv'
<1>1. Halves(puller.work)'
  BY DEF StatusInv, Halves
<1>2. \A p \in Pusher : Halves(pusher[p])'
  BY DEF StatusInv, Halves
<1>3. EntriesWhole'
  BY DEF StatusInv, EntriesWhole, Whole
<1>4. QED
  BY <1>1, <1>2, <1>3 DEF StatusInv

\* The scheduler copies an entry: the mutex is free, so that no call is there.
LEMMA GetCSDInfoKeeps ==
  ASSUME StatusInv, NEW c \in Csd, GetCSDInfo(c)
  PROVE  StatusInv'
<1>1. StatusTypes
  BY DEF StatusInv
<1>2. /\ UNCHANGED <<measured, info, puller, pusher>>
      /\ overlapped' = overlapped \cup ({c} \cap puller.work.at)
      /\ scheduler' = [at |-> {c}, load |-> info[c].load]
  BY DEF GetCSDInfo, Access, Elsewhere
<1>3. \A q \in Pusher : pusher[q].at = {}
  BY DEF GetCSDInfo, Free, InMap
<1>4. StatusTypes'
  <2>1. info[c].load \in Nat
    BY <1>1 DEF StatusTypes, Entry
  <2>2. \A q \in Pusher : Sound(pusher[q])'
    BY <1>1, <1>2 DEF StatusTypes, Sound
  <2>3. Sound(puller.work)'
    BY <1>1, <1>2 DEF StatusTypes, Sound
  <2>4. QED
    BY <1>1, <1>2, <2>1, <2>2, <2>3 DEF StatusTypes
<1>5. PullerPlace' /\ Exclusive' /\ MeetingsSeen' /\ CopyFits'
  BY <1>2, <1>3 DEF PullerPlace, Exclusive, MeetingsSeen, InLocked, CopyFits, StatusInv
<1>6. QED
  BY <1>2, <1>4, <1>5, EntriesUntouched

LEMMA GetCSDInfoReturnsKeeps ==
  ASSUME StatusInv, GetCSDInfoReturns
  PROVE  StatusInv'
<1>1. StatusTypes
  BY DEF StatusInv
<1>2. /\ UNCHANGED <<measured, info, puller, pusher, overlapped>>
      /\ scheduler' = [at |-> {}, load |-> 0]
  BY DEF GetCSDInfoReturns
<1>3. StatusTypes'
  <2>1. \A q \in Pusher : Sound(pusher[q])'
    BY <1>1, <1>2 DEF StatusTypes, Sound
  <2>2. Sound(puller.work)'
    BY <1>1, <1>2 DEF StatusTypes, Sound
  <2>3. QED
    BY <1>1, <1>2, <2>1, <2>2 DEF StatusTypes
<1>4. PullerPlace' /\ Exclusive' /\ MeetingsSeen' /\ CopyFits'
  BY <1>2 DEF PullerPlace, Exclusive, MeetingsSeen, InLocked, CopyFits, StatusInv
<1>5. QED
  BY <1>2, <1>3, <1>4, EntriesUntouched

\* The pull thread outside the map: it has no entry in hand before and after.
LEMMA PullerElsewhereKeeps ==
  ASSUME StatusInv, PullerOnly, puller.work.at = {}, puller'.work.at = {},
         puller' = [doing |-> puller'.doing, work |-> puller'.work],
         Sound(puller'.work)
  PROVE  StatusInv'
<1>1. StatusTypes
  BY DEF StatusInv
<1>2. UNCHANGED <<measured, info, pusher, scheduler, overlapped>>
  BY DEF PullerOnly
<1>3. StatusTypes'
  <2>1. \A q \in Pusher : Sound(pusher[q])'
    BY <1>1, <1>2 DEF StatusTypes, Sound
  <2>2. Sound(puller.work)'
    BY DEF Sound
  <2>3. QED
    BY <1>1, <1>2, <2>1, <2>2 DEF StatusTypes
<1>4. PullerPlace' /\ Exclusive' /\ MeetingsSeen' /\ CopyFits'
  BY <1>2 DEF PullerPlace, Exclusive, MeetingsSeen, InLocked, CopyFits, StatusInv
<1>5. QED
  BY <1>2, <1>3, <1>4, EntriesUntouched

\* The pull thread fetches, returns, sleeps and fetches again: it has no entry in
\* hand, and what a reply gives it is sound.
LEMMA PullerStepKeeps ==
  ASSUME StatusInv,
         \/ FetchAll \/ FetchSome \/ FetchBad \/ FetchHangs \/ FetchNoObject
         \/ PullDone \/ PullAgain
  PROVE  StatusInv'
<1>1. StatusTypes /\ PullerPlace /\ Sound(puller.work) /\ measured \in [Csd -> Nat]
  BY DEF StatusInv, StatusTypes
<1>2. PullerOnly /\ puller.work.at = {}
  BY <1>1 DEF FetchAll, FetchSome, FetchBad, FetchHangs, FetchNoObject, PullDone, PullAgain, PullerPlace
<1>3. ASSUME NEW todo, Sound(Writing(todo)), puller' = [doing |-> "storing", work |-> Writing(todo)]
      PROVE  StatusInv'
  <2>1. puller'.work = Writing(todo) /\ puller'.doing = "storing" /\ Writing(todo).at = {}
    BY <1>3 DEF Writing
  <2>2. Sound(puller'.work) /\ puller'.work.at = {}
    BY <1>3, <2>1
  <2>3. puller' = [doing |-> puller'.doing, work |-> puller'.work]
    BY <1>3, <2>1
  <2>4. QED
    BY <1>2, <2>2, <2>3, PullerElsewhereKeeps
<1>4. CASE FetchAll
  <2> DEFINE todo == [c \in Csd |-> Current(c)]
  <2>1. Sound(Writing(todo))
    BY <1>1, CurrentSound
  <2>2. puller' = [doing |-> "storing", work |-> Writing(todo)]
    BY <1>4 DEF FetchAll
  <2>3. QED
    BY <1>3, <2>1, <2>2
<1>5. CASE FetchSome
  <2>1. PICK gap \in Csd :
          \E todo \in {[c \in Csd \ {gap} |-> Current(c)],
                       [c \in Csd |-> IF c = gap THEN Scoreless(c) ELSE Current(c)]} :
            puller' = [doing |-> "storing", work |-> Writing(todo)]
    BY <1>5 DEF FetchSome
  <2>2. CASE puller' = [doing |-> "storing", work |-> Writing([c \in Csd \ {gap} |-> Current(c)])]
    <3> DEFINE todo == [c \in Csd \ {gap} |-> Current(c)]
    <3>1. Sound(Writing(todo))
      BY <1>1, CurrentSound
    <3>2. QED
      BY <1>3, <2>2, <3>1
  <2>3. CASE puller' = [doing |-> "storing",
                        work |-> Writing([c \in Csd |-> IF c = gap THEN Scoreless(c) ELSE Current(c)])]
    <3> DEFINE todo == [c \in Csd |-> IF c = gap THEN Scoreless(c) ELSE Current(c)]
    <3>1. Sound(Writing(todo))
      BY <1>1, CurrentSound
    <3>2. QED
      BY <1>3, <2>3, <3>1
  <2>4. QED
    BY <2>1, <2>2, <2>3
<1>6. CASE FetchBad \/ FetchHangs \/ FetchNoObject \/ PullDone \/ PullAgain
  <2>1. puller' = [doing |-> puller'.doing, work |-> puller.work]
    BY <1>1, <1>6 DEF FetchBad, FetchHangs, FetchNoObject, PullDone, PullAgain, StatusTypes
  <2>2. puller'.work = puller.work
    BY <2>1
  <2>3. QED
    BY <1>1, <1>2, <2>1, <2>2, PullerElsewhereKeeps
<1>7. QED
  BY <1>4, <1>5, <1>6

\* A call arrives: its thread has no entry in hand.
LEMMA PushArrivesKeeps ==
  ASSUME StatusInv, NEW p \in Pusher, PushArrives(p)
  PROVE  StatusInv'
<1>1. StatusTypes /\ measured \in [Csd -> Nat]
  BY DEF StatusInv, StatusTypes
<1>2. UNCHANGED <<measured, info, puller, scheduler, overlapped>> /\ pusher[p].at = {}
  BY DEF PushArrives, Writing
<1>3. PICK named \in SUBSET Csd : pusher' = [pusher EXCEPT ![p] = Writing([c \in named |-> Current(c)])]
  BY DEF PushArrives
<1>4. Sound(Writing([c \in named |-> Current(c)]))
  BY <1>1, CurrentSound
<1>5. /\ pusher' = [q \in Pusher |-> pusher'[q]]
      /\ \A q \in Pusher \ {p} : pusher'[q] = pusher[q]
      /\ pusher'[p] = Writing([c \in named |-> Current(c)])
  BY <1>1, <1>3 DEF StatusTypes
<1>6. Sound(pusher'[p]) /\ pusher'[p].at = {}
  BY <1>4, <1>5 DEF Writing
<1>7. \A q \in Pusher : pusher'[q].at = pusher[q].at
  BY <1>2, <1>5, <1>6
<1>8. StatusTypes'
  <2>1. Sound(puller.work)'
    BY <1>1, <1>2 DEF StatusTypes, Sound
  <2>2. ASSUME NEW q \in Pusher PROVE Sound(pusher[q])'
    <3>1. Sound(pusher'[q])
      BY <1>1, <1>5, <1>6 DEF StatusTypes
    <3>2. QED
      BY <3>1 DEF Sound
  <2>3. QED
    BY <1>1, <1>2, <1>5, <2>1, <2>2 DEF StatusTypes
<1>9. PullerPlace' /\ Exclusive' /\ MeetingsSeen' /\ CopyFits'
  BY <1>2, <1>7 DEF PullerPlace, Exclusive, MeetingsSeen, InLocked, CopyFits, StatusInv
<1>10. \A q \in Pusher : \A c \in pusher[q].at : pusher'[q].todo[c] = pusher[q].todo[c]
  BY <1>2, <1>5
<1>11. QED
  BY <1>2, <1>7, <1>8, <1>9, <1>10, EntriesUntouched

\* A new measurement, and the listing, which only reads.
LEMMA OthersKeep ==
  ASSUME StatusInv, (\E c \in Csd : Measure(c)) \/ List \/ Listed \/ UNCHANGED vars
  PROVE  StatusInv'
<1>1. StatusTypes
  BY DEF StatusInv
<1>2. UNCHANGED <<info, puller, pusher, scheduler, overlapped>> /\ measured' \in [Csd -> Nat]
  BY <1>1 DEF StatusTypes, Measure, List, Listed, vars
<1>3. StatusTypes'
  <2>1. \A q \in Pusher : Sound(pusher[q])'
    BY <1>1, <1>2 DEF StatusTypes, Sound
  <2>2. Sound(puller.work)'
    BY <1>1, <1>2 DEF StatusTypes, Sound
  <2>3. QED
    BY <1>1, <1>2, <2>1, <2>2 DEF StatusTypes
<1>4. PullerPlace' /\ Exclusive' /\ MeetingsSeen' /\ CopyFits'
  BY <1>2 DEF PullerPlace, Exclusive, MeetingsSeen, InLocked, CopyFits, StatusInv
<1>5. QED
  BY <1>2, <1>3, <1>4, EntriesUntouched

\* What the scheduler copies is a record somebody wrote as a whole and does not
\* change under the copy, for any number of CSDs and calls, unless the puller has
\* met a call or the scheduler in that entry (csd_status_manager.h:199-212).
THEOREM CopiesAreWhole == Spec => []ReadsAreWhole
<1>1. Init => StatusInv
  <2> SUFFICES ASSUME Init PROVE StatusInv
    OBVIOUS
  <2>1. Sound(Writing(NoEntries))
    <3>1. DOMAIN NoEntries = {} /\ NoEntries = [c \in DOMAIN NoEntries |-> NoEntries[c]]
      BY DEF NoEntries
    <3>2. Writing(NoEntries).at = {} /\ Writing(NoEntries).todo = NoEntries
      BY DEF Writing
    <3>3. QED
      BY <3>1, <3>2 DEF Sound, Writing
  <2>2. Writing(NoEntries).at = {}
    BY DEF Writing
  <2>3. /\ puller.work = Writing(NoEntries)
        /\ puller = [doing |-> puller.doing, work |-> puller.work]
        /\ pusher = [p \in Pusher |-> pusher[p]]
        /\ \A p \in Pusher : pusher[p] = Writing(NoEntries)
    BY DEF Init
  <2>4. /\ puller.work.at = {} /\ Sound(puller.work)
        /\ \A p \in Pusher : pusher[p].at = {} /\ Sound(pusher[p])
    BY <2>1, <2>2, <2>3
  <2>5. /\ measured \in [Csd -> Nat] /\ info \in [Csd -> Entry]
        /\ scheduler \in [at : SUBSET Csd, load : Nat] /\ scheduler.at = {}
        /\ \A c \in Csd : Whole(info[c])
    BY DEF Init, Zeros, Entry, Whole
  <2>6. StatusTypes
    BY <2>3, <2>4, <2>5 DEF StatusTypes
  <2>7. PullerPlace /\ Exclusive /\ MeetingsSeen /\ CopyFits
    BY <2>4, <2>5 DEF PullerPlace, Exclusive, MeetingsSeen, InLocked, CopyFits
  <2>8. Halves(puller.work) /\ (\A p \in Pusher : Halves(pusher[p])) /\ EntriesWhole
    BY <2>4, <2>5 DEF Halves, EntriesWhole
  <2>9. QED
    BY <2>6, <2>7, <2>8 DEF StatusInv
<1>2. StatusInv /\ [Next]_vars => StatusInv'
  <2> SUFFICES ASSUME StatusInv, [Next]_vars PROVE StatusInv'
    OBVIOUS
  <2>1. ASSUME NEW c \in Csd, PullStore(c) \/ PullStored(c) \/ GetCSDInfo(c) PROVE StatusInv'
    BY <2>1, PullStoreKeeps, PullStoredKeeps, GetCSDInfoKeeps
  <2>2. ASSUME NEW c \in Csd, NEW p \in Pusher, SetCSDInfo(p, c) \/ SetCSDInfoReturns(p, c)
        PROVE  StatusInv'
    BY <2>2, SetCSDInfoKeeps, SetCSDInfoReturnsKeeps
  <2>3. ASSUME \/ FetchAll \/ FetchSome \/ FetchBad \/ FetchHangs \/ FetchNoObject
               \/ PullDone \/ PullAgain
        PROVE  StatusInv'
    BY <2>3, PullerStepKeeps
  <2>4. ASSUME NEW p \in Pusher, PushArrives(p) PROVE StatusInv'
    BY <2>4, PushArrivesKeeps
  <2>5. ASSUME GetCSDInfoReturns PROVE StatusInv'
    BY <2>5, GetCSDInfoReturnsKeeps
  <2>6. ASSUME (\E c \in Csd : Measure(c)) \/ List \/ Listed \/ UNCHANGED vars PROVE StatusInv'
    BY <2>6, OthersKeep
  <2>7. QED
    BY <2>1, <2>2, <2>3, <2>4, <2>5, <2>6 DEF Next
<1>3. QED
  BY <1>1, <1>2, InvReads, PTL DEF Spec
==============================================================================
