---------------------------- MODULE GrinderProofs ----------------------------
(***************************************************************************)
(* Proofs about the grinder, for any number of threads and any keys.       *)
(***************************************************************************)
EXTENDS Grinder, FiniteSetTheorems, TLAPS

\* The mutex is held by exactly the thread that is in the critical section.
HolderInside == \A t \in Thread : pc[t] \in Critical <=> mutex = t

\* Only a thread whose key has the suffix asks for the lock.
LockWithMatch ==
  /\ \A t \in Thread : pc[t] \in Critical \cup {"lock"} => kp[t] \in Matching
  /\ winner \in Matching \cup {NoKey}

\* While the command runs, a thread that is past the claim, and the flag it raised,
\* vouch for a winner.
WinnerThere ==
  Running =>
    /\ found => winner # NoKey
    /\ \A t \in Thread : pc[t] \in {"publish", "unlock", "done"} => winner # NoKey

\* A joined thread is done.
JoinedAreDone == \A t \in Thread : t <= joined => pc[t] = "done"

\* What the main thread has reported.
Reported == outcome # "noResult" /\ (outcome = "ok" => file \in Matching)

\* The threads that have drawn a key and not counted it.
Uncounted == {t \in Thread : pc[t] = "count"}

\* The counter is behind the draws by one for each of them, and nothing else.
BehindByUncounted == drawn = (counter + Cardinality(Uncounted)) % Width

\* A command that reports a key has all its threads behind it.
OkWhenAllJoined == outcome = "ok" => joined = Threads

IInv ==
  /\ TypeOK
  /\ HolderInside
  /\ LockWithMatch
  /\ WinnerThere
  /\ JoinedAreDone
  /\ Reported

AInv == IInv /\ BehindByUncounted /\ OkWhenAllJoined

-------------------------------------------------------------------------------
\* A remainder is smaller than the divisor.
LEMMA RemainderSmaller ==
  ASSUME NEW m \in Nat, NEW w \in Nat \ {0}
  PROVE  m % w \in 0..w - 1
  OBVIOUS

\* The counters stay below the width they wrap at.
LEMMA CountersWrap ==
  ASSUME NEW n \in 0..Width - 1
  PROVE  (n + 1) % Width \in 0..Width - 1 /\ (n + Width - 1) % Width \in 0..Width - 1
  <1>1. Width \in Nat \ {0} /\ n + 1 \in Nat /\ n + Width - 1 \in Nat
    BY GrinderAssumption
  <1> QED
    BY <1>1, RemainderSmaller

\* Before any thread runs there is nothing to report.
LEMMA InitEstablishes == Init => IInv
  <1> SUFFICES ASSUME Init PROVE IInv
    OBVIOUS
  <1>1. 0 \in 0..Width - 1 /\ 0 \in 0..Threads
    BY GrinderAssumption
  <1>2. TypeOK
    BY <1>1 DEF Init, TypeOK, Labels
  <1>3. HolderInside
    BY GrinderAssumption DEF Init, HolderInside, Critical
  <1>4. JoinedAreDone
    BY DEF Init, JoinedAreDone, Thread
  <1> QED
    BY <1>2, <1>3, <1>4 DEF Init, IInv, LockWithMatch, WinnerThere, Reported, Critical

\* Every step of a grinder thread keeps the invariant.
LEMMA StepKeeps ==
  ASSUME IInv, NEW t \in Thread, Step(t) \/ Panic(t)
  PROVE  IInv'
  <1> USE DEF IInv, main, Goto
  <1>0. Running /\ UNCHANGED main
    BY DEF Step, Panic, Stop, GoOn, ReadFound, Draw, Count, Lock, Claim, Publish, Unlock
  <1>1. CASE Stop(t)
    BY <1>0, <1>1
    DEF Stop, ReadFound, TypeOK, HolderInside, LockWithMatch, WinnerThere, JoinedAreDone,
        Reported, Labels, Critical, Running
  <1>2. CASE GoOn(t)
    BY <1>0, <1>2
    DEF GoOn, ReadFound, TypeOK, HolderInside, LockWithMatch, WinnerThere, JoinedAreDone,
        Reported, Labels, Critical, Running
  <1>3. ASSUME NEW key \in Keys, Draw(t, key) PROVE IInv'
    BY <1>0, <1>3, CountersWrap
    DEF Draw, TypeOK, HolderInside, LockWithMatch, WinnerThere, JoinedAreDone,
        Reported, Labels, Critical, Running
  <1>4. CASE Count(t)
    BY <1>0, <1>4, CountersWrap
    DEF Count, TypeOK, HolderInside, LockWithMatch, WinnerThere, JoinedAreDone,
        Reported, Labels, Critical, Running
  <1>5. CASE Lock(t)
    BY <1>0, <1>5, GrinderAssumption
    DEF Lock, TypeOK, HolderInside, LockWithMatch, WinnerThere, JoinedAreDone,
        Reported, Labels, Critical, Running
  <1>6. CASE Claim(t)
    BY <1>0, <1>6, GrinderAssumption
    DEF Claim, TypeOK, HolderInside, LockWithMatch, WinnerThere, JoinedAreDone,
        Reported, Labels, Critical, Running
  <1>7. CASE Publish(t)
    BY <1>0, <1>7
    DEF Publish, TypeOK, HolderInside, LockWithMatch, WinnerThere, JoinedAreDone,
        Reported, Labels, Critical, Running
  <1>8. CASE Unlock(t)
    BY <1>0, <1>8, GrinderAssumption
    DEF Unlock, TypeOK, HolderInside, LockWithMatch, WinnerThere, JoinedAreDone,
        Reported, Labels, Critical, Running
  <1>9. CASE Panic(t)
    BY <1>0, <1>9
    DEF Panic, TypeOK, HolderInside, LockWithMatch, WinnerThere, JoinedAreDone,
        Reported, Labels, Critical, Running
  <1> QED
    BY <1>1, <1>2, <1>3, <1>4, <1>5, <1>6, <1>7, <1>8, <1>9 DEF Step

\* Starting another thread touches none of the others.
LEMMA SpawnKeeps == IInv /\ Spawn => IInv'
  BY GrinderAssumption
  DEF Spawn, IInv, TypeOK, HolderInside, LockWithMatch, WinnerThere, JoinedAreDone,
      Reported, Running

\* A join waits for its thread.
LEMMA JoinKeeps == IInv /\ Join => IInv'
  <1> SUFFICES ASSUME IInv, Join PROVE IInv'
    OBVIOUS
  <1> USE DEF IInv
  <1>1. Running /\ joined < Threads
        /\ UNCHANGED <<spawned, pc, kp, found, mutex, winner, counter, drawn, file>>
    BY DEF Join
  <1>2. CASE pc[joined + 1] = "done" /\ joined' = joined + 1 /\ UNCHANGED outcome
    <2>1. ASSUME NEW t \in Thread, t <= joined' PROVE pc'[t] = "done"
      BY <1>1, <1>2, <2>1, GrinderAssumption DEF TypeOK, JoinedAreDone, Thread
    <2> QED
      BY <1>1, <1>2, <2>1, GrinderAssumption
      DEF TypeOK, HolderInside, LockWithMatch, WinnerThere, JoinedAreDone, Reported, Running
  <1>3. CASE outcome' = "panicked" /\ UNCHANGED joined
    BY <1>1, <1>3
    DEF TypeOK, HolderInside, LockWithMatch, WinnerThere, JoinedAreDone, Reported, Running
  <1> QED
    BY <1>2, <1>3 DEF Join

\* When all threads are joined there is a winner to take.
LEMMA FinishKeeps == IInv /\ Finish => IInv'
  <1> SUFFICES ASSUME IInv, Finish PROVE IInv'
    OBVIOUS
  <1> USE DEF IInv
  <1>1. winner # NoKey
    <2>1. 1 \in Thread /\ 1 <= joined
      BY GrinderAssumption DEF Finish, Thread
    <2>2. pc[1] = "done"
      BY <2>1 DEF JoinedAreDone
    <2> QED
      BY <2>1, <2>2 DEF WinnerThere, Finish
  <1>2. /\ outcome' \in {"ok", "ioError"}
        /\ file' = IF outcome' = "ok" THEN winner ELSE file
        /\ winner' = NoKey
        /\ UNCHANGED <<spawned, joined, pc, kp, found, mutex, counter, drawn>>
    BY <1>1 DEF Finish
  <1>3. winner \in Matching
    BY <1>1 DEF LockWithMatch
  <1> QED
    BY <1>2, <1>3, GrinderAssumption
    DEF TypeOK, HolderInside, LockWithMatch, WinnerThere, JoinedAreDone, Reported, Running

\* Every step keeps the invariant.
LEMMA NextKeeps == IInv /\ [Next]_vars => IInv'
  <1> SUFFICES ASSUME IInv, [Next]_vars PROVE IInv'
    OBVIOUS
  <1>1. CASE \E t \in Thread : Step(t) \/ Panic(t)
    BY <1>1, StepKeeps
  <1>2. CASE UNCHANGED vars
    BY <1>2
    DEF vars, IInv, TypeOK, HolderInside, LockWithMatch, WinnerThere, JoinedAreDone,
        Reported, Running
  <1> QED
    BY <1>1, <1>2, SpawnKeeps, JoinKeeps, FinishKeeps DEF Next

\* The invariant holds in every reachable state.
THEOREM GrinderInvariance == Spec => []IInv
  BY InitEstablishes, NextKeeps, PTL DEF Spec

-------------------------------------------------------------------------------
\* Every variable holds what its type can hold.
THEOREM GrinderTypeCorrect == Spec => []TypeOK
  <1>1. IInv => TypeOK
    BY DEF IInv
  <1> QED
    BY <1>1, GrinderInvariance, PTL

\* `winner` is touched by one thread at a time.
THEOREM GrinderOneInside == Spec => []OneInside
  <1>1. IInv => OneInside
    BY DEF IInv, HolderInside, OneInside
  <1> QED
    BY <1>1, GrinderInvariance, PTL

\* However many threads match, and however late they see the flag, the command comes
\* out with a key that has the suffix.
THEOREM GrinderResultIsAMatch == Spec => []ResultIsAMatch
  <1>1. IInv => ResultIsAMatch
    BY DEF IInv, LockWithMatch, Reported, ResultIsAMatch
  <1> QED
    BY <1>1, GrinderInvariance, PTL

\* A winner that is locked in is never replaced.
THEOREM GrinderWinnerKept == Spec => WinnerKept
  <1>1. [Next]_vars => [winner # NoKey => winner' = winner \/ outcome' # "running"]_vars
    <2> SUFFICES ASSUME Next, winner # NoKey, winner' # winner
                 PROVE  outcome' # "running"
      OBVIOUS
    <2>1. Finish
      BY DEF Next, Step, Panic, Stop, GoOn, ReadFound, Draw, Count, Lock, Claim, Publish,
             Unlock, Spawn, Join, main
    <2> QED
      BY <2>1 DEF Finish
  <1> QED
    BY <1>1, PTL DEF Spec, WinnerKept

-------------------------------------------------------------------------------
\* Of two multiples the one with the smaller factor lies a whole width below.
LEMMA MultiplesApart ==
  ASSUME NEW a \in Nat, NEW b \in Nat, NEW w \in Nat, a < b
  PROVE  w * a + w <= w * b
  <1>1. PICK k \in Nat : b = a + 1 + k
    <2>1. b - a - 1 \in Nat /\ b = a + 1 + (b - a - 1)
      OBVIOUS
    <2> QED
      BY <2>1
  <1>2. w * b = w * a + w + w * k
    BY <1>1
  <1>3. w * k \in Nat
    OBVIOUS
  <1> QED
    BY <1>2, <1>3

\* What is left after whole widths is the remainder.
LEMMA RemainderUnique ==
  ASSUME NEW w \in Nat \ {0}, NEW q \in Nat, NEW r \in 0..w - 1
  PROVE  (w * q + r) % w = r
  <1> DEFINE n == w * q + r
             a == n \div w
             m == n % w
  <1>1. n \in Nat
    OBVIOUS
  <1>2. n = w * a + m /\ a \in Nat /\ m \in 0..w - 1
    BY <1>1
  <1>3. w * a \in Nat /\ w * q \in Nat
    BY <1>2
  <1>4. n = w * q + r
    OBVIOUS
  <1> HIDE DEF n, a, m
  <1>5. ~(a < q)
    BY <1>2, <1>3, <1>4, MultiplesApart
  <1>6. ~(q < a)
    BY <1>2, <1>3, <1>4, MultiplesApart
  <1>7. a = q
    BY <1>2, <1>5, <1>6
  <1>8. m = r
    BY <1>2, <1>3, <1>4, <1>7
  <1> QED
    BY <1>8 DEF m, n

\* Every number is some whole widths and its remainder.
LEMMA Divided ==
  ASSUME NEW n \in Nat, NEW w \in Nat \ {0}
  PROVE  \E q \in Nat, r \in 0..w - 1 : n = w * q + r /\ n % w = r
  OBVIOUS

\* A remainder taken early changes nothing, with one to add ...
LEMMA RemainderUp ==
  ASSUME NEW c \in Nat, NEW w \in Nat \ {0}
  PROVE  ((c % w) + 1) % w = (c + 1) % w
  <1>1. PICK q \in Nat, r \in 0..w - 1 : c = w * q + r /\ c % w = r
    BY Divided
  <1>2. CASE r + 1 < w
    <2>1. r + 1 \in 0..w - 1
      BY <1>1, <1>2
    <2>2. (w * q + (r + 1)) % w = r + 1
      BY <2>1, RemainderUnique
    <2>3. (w * 0 + (r + 1)) % w = r + 1
      BY <2>1, RemainderUnique
    <2>4. w * q + (r + 1) = c + 1 /\ w * 0 + (r + 1) = r + 1
      BY <1>1
    <2> QED
      BY <1>1, <2>2, <2>3, <2>4
  <1>3. CASE r + 1 = w
    <2>1. 0 \in 0..w - 1
      OBVIOUS
    <2>2. (w * (q + 1) + 0) % w = 0
      BY <2>1, RemainderUnique
    <2>3. (w * 1 + 0) % w = 0
      BY <2>1, RemainderUnique
    <2>4. w * (q + 1) + 0 = c + 1 /\ w * 1 + 0 = r + 1
      BY <1>1, <1>3
    <2> QED
      BY <1>1, <2>2, <2>3, <2>4
  <1> QED
    BY <1>1, <1>2, <1>3

\* ... or with more to add.
LEMMA RemainderAhead ==
  ASSUME NEW w \in Nat \ {0}, NEW c \in 0..w - 1, NEW n \in Nat
  PROVE  (((c + 1) % w) + n) % w = (c + 1 + n) % w
  <1>1. CASE c + 1 < w
    <2>1. c + 1 \in 0..w - 1
      BY <1>1
    <2>2. (w * 0 + (c + 1)) % w = c + 1
      BY <2>1, RemainderUnique
    <2>3. w * 0 + (c + 1) = c + 1
      OBVIOUS
    <2> QED
      BY <2>2, <2>3
  <1>2. CASE c + 1 = w
    <2>1. PICK q \in Nat, r \in 0..w - 1 : n = w * q + r /\ n % w = r
      BY Divided
    <2>2. (w * (q + 1) + r) % w = r
      BY <2>1, RemainderUnique
    <2>3. w * (q + 1) + r = c + 1 + n
      BY <1>2, <2>1
    <2>4. (c + 1) % w = 0
      <3>1. 0 \in 0..w - 1
        OBVIOUS
      <3>2. (w * 1 + 0) % w = 0
        BY <3>1, RemainderUnique
      <3>3. w * 1 + 0 = c + 1
        BY <1>2
      <3> QED
        BY <3>2, <3>3
    <2> QED
      BY <2>1, <2>2, <2>3, <2>4
  <1> QED
    BY <1>1, <1>2

\* The threads can be counted, and so can those of them that have not counted.
LEMMA UncountedFinite == IsFiniteSet(Uncounted) /\ Cardinality(Uncounted) \in Nat
  <1>1. IsFiniteSet(Thread)
    BY GrinderAssumption, FS_Interval DEF Thread
  <1>2. IsFiniteSet(Uncounted)
    BY <1>1, FS_Subset DEF Uncounted
  <1> QED
    BY <1>2, FS_CardinalityType

\* A drawn key is one more that has not been counted.
LEMMA DrawRunsAhead ==
  ASSUME TypeOK, BehindByUncounted, NEW t \in Thread, NEW key \in Keys, Draw(t, key)
  PROVE  BehindByUncounted'
  <1> DEFINE behind == Cardinality(Uncounted)
  <1>1. Uncounted' = Uncounted \cup {t} /\ t \notin Uncounted
    BY DEF Draw, Goto, Uncounted, TypeOK
  <1>2. Cardinality(Uncounted') = behind + 1 /\ behind \in Nat
    BY <1>1, UncountedFinite, FS_AddElement
  <1>3. counter \in Nat /\ Width \in Nat \ {0}
    BY GrinderAssumption DEF TypeOK
  <1>4. drawn = (counter + behind) % Width
    BY DEF BehindByUncounted
  <1> HIDE DEF behind
  <1>5. (((counter + behind) % Width) + 1) % Width = (counter + behind + 1) % Width
    <2>1. counter + behind \in Nat
      BY <1>2, <1>3
    <2> QED
      BY <1>3, <2>1, RemainderUp
  <1>6. counter + behind + 1 = counter + (behind + 1)
    BY <1>2, <1>3
  <1> QED
    BY <1>2, <1>4, <1>5, <1>6 DEF Draw, BehindByUncounted

\* A counted key is one less, also where the counter wraps.
LEMMA CountCatchesUp ==
  ASSUME TypeOK, BehindByUncounted, NEW t \in Thread, Count(t)
  PROVE  BehindByUncounted'
  <1> DEFINE behind == Cardinality(Uncounted)
             left == Cardinality(Uncounted')
  <1>1. Uncounted' = Uncounted \ {t} /\ t \in Uncounted
    BY DEF Count, Goto, Uncounted, TypeOK
  <1>2. left = behind - 1 /\ behind # 0 /\ behind \in Nat
    BY <1>1, UncountedFinite, FS_RemoveElement, FS_EmptySet
  <1>3. counter \in 0..Width - 1 /\ Width \in Nat \ {0}
    BY GrinderAssumption DEF TypeOK
  <1>4. drawn = (counter + behind) % Width
    BY DEF BehindByUncounted
  <1> HIDE DEF behind, left
  <1>5. left \in Nat /\ counter + 1 + left = counter + behind
    BY <1>2, <1>3
  <1>6. (((counter + 1) % Width) + left) % Width = (counter + 1 + left) % Width
    BY <1>3, <1>5, RemainderAhead
  <1>7. counter' = (counter + 1) % Width /\ drawn' = drawn
    BY DEF Count
  <1>8. drawn' = (counter' + left) % Width
    BY <1>4, <1>5, <1>6, <1>7
  <1> QED
    BY <1>8 DEF left, BehindByUncounted

\* No other step of a thread draws a key or counts one.
LEMMA OthersCountNothing ==
  ASSUME TypeOK, BehindByUncounted, NEW t \in Thread,
         \/ Stop(t) \/ GoOn(t) \/ Lock(t) \/ Claim(t) \/ Publish(t) \/ Unlock(t) \/ Panic(t)
  PROVE  BehindByUncounted'
  <1>1. drawn' = drawn /\ counter' = counter
    BY DEF Stop, GoOn, ReadFound, Lock, Claim, Publish, Unlock, Panic
  <1>2. Uncounted' = Uncounted
    BY DEF Stop, GoOn, ReadFound, Lock, Claim, Publish, Unlock, Panic, Goto, Uncounted, TypeOK
  <1> QED
    BY <1>1, <1>2 DEF BehindByUncounted

\* Every step of the command keeps the account.
LEMMA AccountKept ==
  ASSUME TypeOK, BehindByUncounted, [Next]_vars
  PROVE  BehindByUncounted'
  <1>1. CASE \E t \in Thread : Step(t) \/ Panic(t)
    BY <1>1, DrawRunsAhead, CountCatchesUp, OthersCountNothing DEF Step
  <1>2. CASE Spawn \/ Join \/ Finish \/ UNCHANGED vars
    BY <1>2 DEF Spawn, Join, Finish, vars, BehindByUncounted, Uncounted
  <1> QED
    BY <1>1, <1>2 DEF Next

\* Only a command that has joined all its threads ends well, and then it has ended.
LEMMA OkStaysJoined ==
  ASSUME OkWhenAllJoined, [Next]_vars
  PROVE  OkWhenAllJoined'
  <1>1. CASE \E t \in Thread : Step(t) \/ Panic(t)
    BY <1>1
    DEF Step, Panic, Stop, GoOn, ReadFound, Draw, Count, Lock, Claim, Publish, Unlock, main,
        OkWhenAllJoined
  <1>2. CASE Spawn \/ Join \/ Finish \/ UNCHANGED vars
    BY <1>2 DEF Spawn, Join, Finish, vars, Running, OkWhenAllJoined
  <1> QED
    BY <1>1, <1>2 DEF Next

\* Nothing is drawn before the threads start.
LEMMA InitCountsNothing == Init => BehindByUncounted /\ OkWhenAllJoined
  <1> SUFFICES ASSUME Init PROVE BehindByUncounted /\ OkWhenAllJoined
    OBVIOUS
  <1>1. Uncounted = {}
    BY DEF Init, Uncounted
  <1>2. Cardinality(Uncounted) = 0
    BY <1>1, FS_EmptySet
  <1>3. (0 + 0) % Width = 0
    BY GrinderAssumption
  <1> QED
    BY <1>2, <1>3 DEF Init, BehindByUncounted, OkWhenAllJoined

\* However the counter wraps and however the threads interleave, a command that
\* reports a key reports all the keys that were drawn for it.
THEOREM GrinderAttemptsComplete == Spec => []AttemptsComplete
  <1>1. Init => AInv
    BY InitEstablishes, InitCountsNothing DEF AInv
  <1>2. AInv /\ [Next]_vars => AInv'
    BY NextKeeps, AccountKept, OkStaysJoined DEF AInv, IInv
  <1>3. AInv => AttemptsComplete
    <2> SUFFICES ASSUME AInv, outcome = "ok" PROVE counter = drawn
      BY DEF AttemptsComplete
    <2>1. \A t \in Thread : pc[t] = "done"
      BY GrinderAssumption DEF AInv, IInv, TypeOK, OkWhenAllJoined, JoinedAreDone, Thread
    <2>2. Uncounted = {}
      BY <2>1 DEF Uncounted
    <2>3. Cardinality(Uncounted) = 0
      BY <2>2, FS_EmptySet
    <2>4. Width \in Nat \ {0} /\ counter \in 0..Width - 1
      BY GrinderAssumption DEF AInv, IInv, TypeOK
    <2>5. (Width * 0 + counter) % Width = counter
      BY <2>4, RemainderUnique
    <2>6. Width * 0 + counter = counter + 0
      BY <2>4
    <2> QED
      BY <2>3, <2>5, <2>6 DEF AInv, BehindByUncounted
  <1> QED
    BY <1>1, <1>2, <1>3, PTL DEF Spec
===============================================================================
