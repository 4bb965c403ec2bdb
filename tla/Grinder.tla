------------------------------- MODULE Grinder -------------------------------
(***************************************************************************)
(* `cols grind`: the threads of cli/src/cmd/grind.rs that draw keypairs    *)
(* until one has the wanted suffix, and the main thread that spawns them,  *)
(* joins them and writes the winner to a file.                             *)
(*                                                                         *)
(* `found` is loaded and stored Relaxed: a thread that has not seen the    *)
(* store may go on reading FALSE for a while.                              *)
(***************************************************************************)
EXTENDS Naturals

CONSTANTS
  Threads,    \* how many threads are spawned, args.threads
  Keys,       \* the keypairs that may be drawn
  Matching,   \* those whose public key ends with the suffix
  Width,      \* the attempts counter wraps at this number, 2^64
  NoKey,      \* no keypair
  NoThread    \* nobody holds the mutex

Thread == 1..Threads

ASSUME GrinderAssumption ==
  /\ Threads \in Nat \ {0}
  /\ Matching \subseteq Keys
  /\ Width \in Nat \ {0}
  /\ NoKey \notin Keys
  /\ NoThread \notin Thread

VARIABLES
  spawned,  \* the threads 1..spawned have been started
  joined,   \* the threads 1..joined have been joined
  pc,       \* what each thread does next
  kp,       \* the keypair it has drawn
  found,    \* the flag that stops the loop
  mutex,    \* who holds the lock of `winner`
  winner,   \* the keypair under the lock
  counter,  \* attempts counted by all threads
  drawn,    \* for the properties only: the keys drawn, modulo Width
  outcome,  \* what the command has come to
  file      \* the keypair in the output file

vars == <<spawned, joined, pc, kp, found, mutex, winner, counter, drawn, outcome, file>>
main == <<spawned, joined, outcome, file>>

Running == outcome = "running"

-------------------------------------------------------------------------------
(***************************************************************************)
(* A grinder thread.  Slips are what a plausible mistake would make of the *)
(* definition that follows them; the specification does not use them.      *)
(***************************************************************************)

Goto(t, label) == pc' = [pc EXCEPT ![t] = label]

\* while !found.load(Relaxed)
ReadFound(t, value) ==
  /\ Running /\ t <= spawned /\ pc[t] = "loop"
  /\ value => found
  /\ Goto(t, IF value THEN "done" ELSE "draw")
  /\ UNCHANGED <<main, kp, found, mutex, winner, counter, drawn>>

Stop(t) == ReadFound(t, TRUE)
GoOn(t) == ReadFound(t, FALSE)

Draw(t, key) ==
  /\ Running /\ pc[t] = "draw"
  /\ kp' = [kp EXCEPT ![t] = key]
  /\ drawn' = (drawn + 1) % Width
  /\ Goto(t, "count")
  /\ UNCHANGED <<main, found, mutex, winner, counter>>

\* No randomness from the system: the thread dies, holding nothing.
Panic(t) ==
  /\ Running /\ pc[t] = "draw"
  /\ Goto(t, "panicked")
  /\ UNCHANGED <<main, kp, found, mutex, winner, counter, drawn>>

Count_OnlyMisses(t) ==
  /\ Running /\ pc[t] = "count"
  /\ IF kp[t] \in Matching
       THEN UNCHANGED counter
       ELSE counter' = (counter + 1) % Width
  /\ Goto(t, IF kp[t] \in Matching THEN "lock" ELSE "loop")
  /\ UNCHANGED <<main, kp, found, mutex, winner, drawn>>

Count_TakesAny(t) ==
  /\ Running /\ pc[t] = "count"
  /\ counter' = (counter + 1) % Width
  /\ Goto(t, "lock")
  /\ UNCHANGED <<main, kp, found, mutex, winner, drawn>>

\* fetch_add, then the suffix of the drawn key decides.
Count(t) ==
  /\ Running /\ pc[t] = "count"
  /\ counter' = (counter + 1) % Width
  /\ Goto(t, IF kp[t] \in Matching THEN "lock" ELSE "loop")
  /\ UNCHANGED <<main, kp, found, mutex, winner, drawn>>

Lock(t) ==
  /\ Running /\ pc[t] = "lock"
  /\ mutex = NoThread
  /\ mutex' = t
  /\ Goto(t, "claim")
  /\ UNCHANGED <<main, kp, found, winner, counter, drawn>>

Claim_Last(t) ==
  /\ Running /\ pc[t] = "claim"
  /\ winner' = kp[t]
  /\ Goto(t, "publish")
  /\ UNCHANGED <<main, kp, found, mutex, counter, drawn>>

\* if slot.is_none(): the first match wins.
Claim(t) ==
  /\ Running /\ pc[t] = "claim"
  /\ IF winner = NoKey
       THEN winner' = kp[t] /\ Goto(t, "publish")
       ELSE UNCHANGED winner /\ Goto(t, "unlock")
  /\ UNCHANGED <<main, kp, found, mutex, counter, drawn>>

Publish_Forgotten(t) ==
  /\ Running /\ pc[t] = "publish"
  /\ Goto(t, "unlock")
  /\ UNCHANGED <<main, kp, found, mutex, winner, counter, drawn>>

Publish(t) ==
  /\ Running /\ pc[t] = "publish"
  /\ found' = TRUE
  /\ Goto(t, "unlock")
  /\ UNCHANGED <<main, kp, mutex, winner, counter, drawn>>

\* The guard goes out of scope at the break.
Unlock(t) ==
  /\ Running /\ pc[t] = "unlock"
  /\ mutex' = NoThread
  /\ Goto(t, "done")
  /\ UNCHANGED <<main, kp, found, winner, counter, drawn>>

Step(t) ==
  \/ Stop(t) \/ GoOn(t)
  \/ \E key \in Keys : Draw(t, key)
  \/ Count(t) \/ Lock(t) \/ Claim(t) \/ Publish(t) \/ Unlock(t)

-------------------------------------------------------------------------------
(***************************************************************************)
(* The main thread.                                                        *)
(***************************************************************************)

Spawn_OneMore ==
  /\ Running /\ spawned <= Threads
  /\ spawned' = spawned + 1
  /\ UNCHANGED <<joined, pc, kp, found, mutex, winner, counter, drawn, outcome, file>>

Spawn ==
  /\ Running /\ spawned < Threads
  /\ spawned' = spawned + 1
  /\ UNCHANGED <<joined, pc, kp, found, mutex, winner, counter, drawn, outcome, file>>

\* The handles are joined in the order they were made.  The first panic ends the
\* command, and with it the threads that still run.
Join ==
  /\ Running /\ spawned = Threads /\ joined < Threads
  /\ \/ /\ pc[joined + 1] = "done"
        /\ joined' = joined + 1
        /\ UNCHANGED outcome
     \/ /\ pc[joined + 1] = "panicked"
        /\ outcome' = "panicked"
        /\ UNCHANGED joined
  /\ UNCHANGED <<spawned, pc, kp, found, mutex, winner, counter, drawn, file>>

\* slot.take(), and the file is written or is not.
Finish ==
  /\ Running /\ joined = Threads /\ mutex = NoThread
  /\ outcome' \in IF winner = NoKey THEN {"noResult"} ELSE {"ok", "ioError"}
  /\ file' = IF outcome' = "ok" THEN winner ELSE file
  /\ winner' = NoKey
  /\ UNCHANGED <<spawned, joined, pc, kp, found, mutex, counter, drawn>>

Init ==
  /\ spawned = 0
  /\ joined = 0
  /\ pc = [t \in Thread |-> "loop"]
  /\ kp = [t \in Thread |-> NoKey]
  /\ found = FALSE
  /\ mutex = NoThread
  /\ winner = NoKey
  /\ counter = 0
  /\ drawn = 0
  /\ outcome = "running"
  /\ file \in Keys \cup {NoKey}

Next ==
  \/ \E t \in Thread : Step(t) \/ Panic(t)
  \/ Spawn \/ Join \/ Finish

Spec == Init /\ [][Next]_vars

\* The scheduler runs every thread, and a store becomes visible in the end to a
\* thread that keeps loading.
FairSpec ==
  /\ Spec
  /\ \A t \in Thread : WF_vars(Step(t)) /\ SF_vars(Stop(t))
  /\ WF_vars(Spawn) /\ WF_vars(Join) /\ WF_vars(Finish)

-------------------------------------------------------------------------------
(***************************************************************************)
(* What grinding promises.                                                 *)
(***************************************************************************)

Labels == {"loop", "draw", "count", "lock", "claim", "publish", "unlock", "done", "panicked"}
Critical == {"claim", "publish", "unlock"}

\* Every variable holds what its type can hold.
TypeOK ==
  /\ spawned \in 0..Threads
  /\ joined \in 0..Threads
  /\ pc \in [Thread -> Labels]
  /\ kp \in [Thread -> Keys \cup {NoKey}]
  /\ found \in BOOLEAN
  /\ mutex \in Thread \cup {NoThread}
  /\ winner \in Keys \cup {NoKey}
  /\ counter \in 0..Width - 1
  /\ drawn \in 0..Width - 1
  /\ outcome \in {"running", "ok", "panicked", "noResult", "ioError"}
  /\ file \in Keys \cup {NoKey}

\* `winner` is touched by one thread at a time.
OneInside ==
  \A t, u \in Thread : pc[t] \in Critical /\ pc[u] \in Critical => t = u

\* Of several matches the first one locked in stays: no thread replaces a winner,
\* only the main thread takes it.
WinnerKept == [][winner # NoKey => winner' = winner \/ outcome' # "running"]_vars

\* The command never comes out of the joins empty-handed, however the loads of
\* `found` are delayed; and the file it reports holds a key with the suffix.
ResultIsAMatch ==
  /\ outcome # "noResult"
  /\ outcome = "ok" => file \in Matching
  /\ winner # NoKey => winner \in Matching

\* The attempts reported are all the keys that were drawn, however late a thread
\* counts: each key once, and none after the counter was read.
AttemptsComplete == outcome = "ok" => counter = drawn

\* Once a match is locked in the command ends: every thread sees the flag, and the
\* main thread waits for none of them in vain.
WinnerLeadsToEnd == winner # NoKey ~> ~Running
===============================================================================
