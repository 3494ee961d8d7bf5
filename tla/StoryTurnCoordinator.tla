------------------------ MODULE StoryTurnCoordinator ------------------------
(***************************************************************************)
(* The per-story turn coordinator of                                       *)
(* crates/aise/src/runtime/story_turn_coordinator.rs: a map from stories   *)
(* to entries, each with a one-permit semaphore, a waiter count and the    *)
(* instant since which it is idle.  A turn calls acquire, runs, and drops  *)
(* its StoryPermit.                                                        *)
(*                                                                         *)
(* The map lock makes each locked block one step.  Everything between two  *)
(* locked blocks interleaves: the shutdown check, the wait for the         *)
(* semaphore, the two atomic counters, and the release of the semaphore,   *)
(* which the Drop of StoryPermit does before it takes the lock.            *)
(*                                                                         *)
(* An instant is abstracted to what the code asks of it: an idle entry is  *)
(* "fresh" until idle_timeout has passed and "expired" afterwards.         *)
(***************************************************************************)
EXTENDS Naturals, FiniteSets

CONSTANTS
    Turns,               \* the calls of acquire, each made at most once
    Stories,             \* the story ids
    NoEntry,             \* a story with no entry in the map
    MaxWaitersPerStory,  \* max_waiters_per_story
    MaxTotalWaiters,     \* max_total_waiters
    Expiring             \* the stories that may be left alone for idle_timeout

ASSUME TurnsAssumption == IsFiniteSet(Turns)
ASSUME LimitsAssumption == /\ MaxWaitersPerStory \in Nat \ {0}
                           /\ MaxTotalWaiters \in Nat \ {0}
ASSUME ExpiringAssumption == Expiring \subseteq Stories

VARIABLES
    stories,         \* the map: story -> entry or NoEntry
    total_waiters,   \* AtomicUsize
    active_permits,  \* AtomicUsize
    shutdown,        \* the coordinator's cancellation token
    grace,           \* progress of shutdown_with_grace
    pc,              \* where each turn is in acquire and Drop
    story,           \* the story_id argument of each turn
    sem,             \* the semaphore each turn cloned, 0 before that
    ticket,          \* arrival order in the semaphore's queue
    semaphores,      \* semaphores created so far, numbered 1..semaphores
    tickets          \* arrivals in semaphore queues so far

vars == <<stories, total_waiters, active_permits, shutdown, grace,
          pc, story, sem, ticket, semaphores, tickets>>

counters == <<total_waiters, active_permits>>
queueing == <<ticket, tickets>>

IdleSince == {"none", "fresh", "expired"}

StoryEntry == [semaphore : Nat \ {0}, waiters : Nat, idle_since : IdleSince]

ASSUME NoEntryAssumption == NoEntry \notin StoryEntry

(***************************************************************************)
(* Control points of a turn.                                               *)
(*   new      acquire not called          entered  past the shutdown check *)
(*   polling  registered as a waiter, wait_for_permit about to poll        *)
(*   queued   in the semaphore's queue    assigned the permit was handed   *)
(*            to it but its task has not been polled yet                   *)
(*   granted / refused  wait_for_permit returned Ok / Err                  *)
(*   admitted past the second locked block, not yet counted as active      *)
(*   running  holds a StoryPermit                                          *)
(*   released Drop gave the semaphore back;  uncounted  active_permits is  *)
(*            decremented, the lock not yet taken                          *)
(*   done, failed, aborted  ended                                          *)
(***************************************************************************)
Registered == {"polling", "queued", "assigned", "granted", "refused"}
Holding == {"assigned", "granted", "admitted", "running"}
Executing == {"granted", "admitted", "running"}
PC == {"new", "entered", "released", "uncounted", "done", "failed", "aborted"}
        \cup Registered \cup Holding

At(S) == {t \in Turns : pc[t] \in S}

NewEntry == [semaphore |-> semaphores + 1, waiters |-> 0, idle_since |-> "none"]

Init ==
    /\ stories = [s \in Stories |-> NoEntry]
    /\ total_waiters = 0
    /\ active_permits = 0
    /\ shutdown = FALSE
    /\ grace = "idle"
    /\ pc = [t \in Turns |-> "new"]
    /\ story \in [Turns -> Stories]
    /\ sem = [t \in Turns |-> 0]
    /\ ticket = [t \in Turns |-> 0]
    /\ semaphores = 0
    /\ tickets = 0

\* Mutant of reclaim: any idle entry is dropped, however short its idleness.
ReclaimAnyIdle(map) ==
    [s \in Stories |->
        IF map[s] # NoEntry /\ map[s].idle_since # "none" THEN NoEntry ELSE map[s]]

\* reclaim: drops the entries that have been idle for idle_timeout.
reclaim(map) ==
    [s \in Stories |->
        IF map[s] # NoEntry /\ map[s].idle_since = "expired" THEN NoEntry ELSE map[s]]

\* The tokio semaphore is fair: a permit goes to the longest waiting turn.
Waiting(k) == {t \in Turns : pc[t] = "queued" /\ sem[t] = k}
Free(k) == \A t \in Turns : sem[t] = k => pc[t] \notin Holding
IsNext(t, k) == /\ t \in Waiting(k)
                /\ \A u \in Waiting(k) : ticket[t] <= ticket[u]

\* Turn t goes to place p and gives its permit back to semaphore k: the next
\* waiter is assigned the permit, or the permit becomes free.
HandOver(t, p, k) ==
    \/ /\ Waiting(k) = {}
       /\ pc' = [pc EXCEPT ![t] = p]
    \/ \E u \in Turns :
         /\ IsNext(u, k)
         /\ pc' = [pc EXCEPT ![t] = p, ![u] = "assigned"]

-----------------------------------------------------------------------------
(* acquire *)

\* The shutdown check that precedes the lock.
AcquireEnter(t) ==
    /\ pc[t] = "new"
    /\ pc' = [pc EXCEPT ![t] = IF shutdown THEN "failed" ELSE "entered"]
    /\ UNCHANGED <<stories, counters, shutdown, grace, story, sem, queueing, semaphores>>

\* First locked block: reclaim, the two capacity checks, registration.
AcquireRegister(t) ==
    LET s == story[t]
        map == reclaim(stories)
        entry == IF map[s] = NoEntry THEN NewEntry ELSE map[s]
    IN
    /\ pc[t] = "entered"
    /\ \/ /\ total_waiters >= MaxTotalWaiters
          /\ stories' = map
          /\ pc' = [pc EXCEPT ![t] = "failed"]
          /\ UNCHANGED <<total_waiters, sem, semaphores>>
       \/ /\ total_waiters < MaxTotalWaiters
          /\ semaphores' = IF map[s] = NoEntry THEN semaphores + 1 ELSE semaphores
          /\ \/ /\ entry.waiters >= MaxWaitersPerStory
                /\ stories' = [map EXCEPT ![s] = entry]
                /\ pc' = [pc EXCEPT ![t] = "failed"]
                /\ UNCHANGED <<total_waiters, sem>>
             \/ /\ entry.waiters < MaxWaitersPerStory
                /\ stories' = [map EXCEPT ![s] = [entry EXCEPT !.waiters = @ + 1]]
                /\ total_waiters' = total_waiters + 1
                /\ sem' = [sem EXCEPT ![t] = entry.semaphore]
                /\ pc' = [pc EXCEPT ![t] = "polling"]
    /\ UNCHANGED <<active_permits, shutdown, grace, story, queueing>>

\* wait_for_permit, first poll of the semaphore: the permit or a queue place.
PollSemaphore(t) ==
    /\ pc[t] = "polling"
    /\ \/ /\ Free(sem[t])
          /\ pc' = [pc EXCEPT ![t] = "granted"]
          /\ UNCHANGED queueing
       \/ /\ ~Free(sem[t])
          /\ pc' = [pc EXCEPT ![t] = "queued"]
          /\ ticket' = [ticket EXCEPT ![t] = tickets + 1]
          /\ tickets' = tickets + 1
    /\ UNCHANGED <<stories, counters, shutdown, grace, story, sem, semaphores>>

\* wait_for_permit: the select sees the permit that was assigned.
TakeAssigned(t) ==
    /\ pc[t] = "assigned"
    /\ pc' = [pc EXCEPT ![t] = "granted"]
    /\ UNCHANGED <<stories, counters, shutdown, grace, story, sem, queueing, semaphores>>

\* Mutant of WaitFails: the permit assigned to a cancelled wait is not passed on.
WaitFailsKeepsPermit(t) ==
    /\ pc[t] \in {"polling", "queued", "assigned"}
    /\ pc' = [pc EXCEPT ![t] = "refused"]
    /\ UNCHANGED <<stories, counters, shutdown, grace, story, sem, queueing, semaphores>>

\* wait_for_permit returns Err: cancellation or the turn's deadline, at any
\* time, or the shutdown token.  select! may choose this branch although the
\* permit is assigned too; dropping the acquire future then passes it on.
WaitFails(t) ==
    /\ \/ /\ pc[t] \in {"polling", "queued"}
          /\ pc' = [pc EXCEPT ![t] = "refused"]
       \/ /\ pc[t] = "assigned"
          /\ HandOver(t, "refused", sem[t])
    /\ UNCHANGED <<stories, counters, shutdown, grace, story, sem, queueing, semaphores>>

\* The task that runs acquire is aborted while it awaits the semaphore; the
\* second locked block never runs.
AbortWait(t) ==
    /\ \/ /\ pc[t] = "queued"
          /\ pc' = [pc EXCEPT ![t] = "aborted"]
       \/ /\ pc[t] = "assigned"
          /\ HandOver(t, "aborted", sem[t])
    /\ UNCHANGED <<stories, counters, shutdown, grace, story, sem, queueing, semaphores>>

\* Second locked block, on success and on failure alike: the current entry of
\* the story, if there is one, loses a waiter (saturating_sub) and is not idle.
AcquireUnregister(t) ==
    LET s == story[t] IN
    /\ pc[t] \in {"granted", "refused"}
    /\ stories' = IF stories[s] = NoEntry THEN stories
                  ELSE [stories EXCEPT
                          ![s].waiters = IF @ = 0 THEN 0 ELSE @ - 1,
                          ![s].idle_since = "none"]
    /\ total_waiters' = total_waiters - 1
    /\ pc' = [pc EXCEPT ![t] = IF pc[t] = "granted" THEN "admitted" ELSE "failed"]
    /\ UNCHANGED <<active_permits, shutdown, grace, story, sem, queueing, semaphores>>

\* active_permits.fetch_add; acquire returns the StoryPermit.
AcquireReturn(t) ==
    /\ pc[t] = "admitted"
    /\ active_permits' = active_permits + 1
    /\ pc' = [pc EXCEPT ![t] = "running"]
    /\ UNCHANGED <<stories, total_waiters, shutdown, grace, story, sem, queueing, semaphores>>

-----------------------------------------------------------------------------
(* Drop for StoryPermit, and release *)

\* Mutant of DropPermit: the permit is forgotten, the waiters are not woken.
DropPermitForgets(t) ==
    /\ pc[t] = "running"
    /\ pc' = [pc EXCEPT ![t] = "released"]
    /\ UNCHANGED <<stories, counters, shutdown, grace, story, sem, queueing, semaphores>>

\* inner.take(): the semaphore permit is released before the lock is taken.
DropPermit(t) ==
    /\ pc[t] = "running"
    /\ HandOver(t, "released", sem[t])
    /\ UNCHANGED <<stories, counters, shutdown, grace, story, sem, queueing, semaphores>>

\* release: active_permits.fetch_sub, still outside the lock.
ReleaseUncount(t) ==
    /\ pc[t] = "released"
    /\ active_permits' = active_permits - 1
    /\ pc' = [pc EXCEPT ![t] = "uncounted"]
    /\ UNCHANGED <<stories, total_waiters, shutdown, grace, story, sem, queueing, semaphores>>

\* release: the locked block.  An entry without waiters becomes idle.
ReleaseEntry(t) ==
    LET s == story[t] IN
    /\ pc[t] = "uncounted"
    /\ stories' = reclaim(IF stories[s] # NoEntry /\ stories[s].waiters = 0
                          THEN [stories EXCEPT ![s].idle_since = "fresh"]
                          ELSE stories)
    /\ pc' = [pc EXCEPT ![t] = "done"]
    /\ UNCHANGED <<counters, shutdown, grace, story, sem, queueing, semaphores>>

-----------------------------------------------------------------------------
(* time, maintenance and shutdown *)

\* idle_timeout passes for an idle entry.
IdleTimeout(s) ==
    /\ s \in Expiring
    /\ stories[s] # NoEntry /\ stories[s].idle_since = "fresh"
    /\ stories' = [stories EXCEPT ![s].idle_since = "expired"]
    /\ UNCHANGED <<counters, shutdown, grace, pc, story, sem, queueing, semaphores>>

reclaim_idle ==
    /\ reclaim(stories) # stories
    /\ stories' = reclaim(stories)
    /\ UNCHANGED <<counters, shutdown, grace, pc, story, sem, queueing, semaphores>>

\* shutdown, and the first statement of shutdown_with_grace.
Shutdown ==
    /\ ~shutdown
    /\ shutdown' = TRUE
    /\ grace' = "draining"
    /\ UNCHANGED <<stories, counters, pc, story, sem, queueing, semaphores>>

\* The polling loop of shutdown_with_grace ends: no active permit, or the
\* grace deadline.
GraceEnds ==
    /\ grace = "draining"
    /\ grace' \in (IF active_permits > 0 THEN {"expired"} ELSE {"drained"})
    /\ UNCHANGED <<stories, counters, shutdown, pc, story, sem, queueing, semaphores>>

Step(t) ==
    \/ AcquireEnter(t) \/ AcquireRegister(t) \/ PollSemaphore(t)
    \/ TakeAssigned(t) \/ AcquireUnregister(t) \/ AcquireReturn(t)
    \/ DropPermit(t) \/ ReleaseUncount(t) \/ ReleaseEntry(t)

Next ==
    \/ \E t \in Turns : Step(t) \/ WaitFails(t) \/ AbortWait(t)
    \/ \E s \in Stories : IdleTimeout(s)
    \/ reclaim_idle
    \/ Shutdown
    \/ GraceEnds

Spec == Init /\ [][Next]_vars

\* Every task is scheduled and every turn ends; no deadline is relied upon.
FairSpec == Spec /\ \A t \in Turns : WF_vars(Step(t))
-----------------------------------------------------------------------------
(* properties *)

\* Every variable has the shape the code gives it; in particular neither
\* atomic counter wraps below zero.
TypeOK ==
    /\ stories \in [Stories -> StoryEntry \cup {NoEntry}]
    /\ total_waiters \in Nat
    /\ active_permits \in Nat
    /\ shutdown \in BOOLEAN
    /\ grace \in {"idle", "draining", "drained", "expired"}
    /\ pc \in [Turns -> PC]
    /\ story \in [Turns -> Stories]
    /\ sem \in [Turns -> Nat]
    /\ ticket \in [Turns -> Nat]
    /\ semaphores \in Nat
    /\ tickets \in Nat

\* Both atomic counters are exact on every success, failure and cancellation
\* path: total_waiters counts the turns between the two locked blocks of
\* acquire, plus the waits that were aborted (the second block never runs for
\* those), and stays within max_total_waiters; active_permits counts the turns
\* whose StoryPermit is alive.
CountersExact ==
    /\ total_waiters = Cardinality(At(Registered \cup {"aborted"}))
    /\ total_waiters <= MaxTotalWaiters
    /\ active_permits = Cardinality(At({"running", "released"}))

\* A turn queues only behind a holder: however a grant races a cancellation,
\* a deadline or an abort, the permit of a semaphore with waiters is never
\* left unowned.
NoLostPermit ==
    \A t \in At({"queued"}) : \E u \in At(Holding) : sem[u] = sem[t]

\* The coordinator's books balance: both counters are exact, and no permit is
\* lost, on every way out of acquire.
AccountingExact == CountersExact /\ NoLostPermit

\* At most one turn of a story executes at any time: what acquire and
\* StoryPermit are for.
MutualExclusion ==
    \A t, u \in At(Executing) : story[t] = story[u] => t = u

\* The same for the stories whose entry never reaches idle_timeout, whatever
\* happens to the entries of the others: reclaim, which every acquire and
\* release runs over the whole map, leaves their semaphore in place.
ExclusionWhileEntriesLast ==
    \A t, u \in At(Executing) :
        story[t] = story[u] /\ story[t] \notin Expiring => t = u

\* A turn that queues for a story leaves the queue: the FIFO semaphore passes
\* through everyone before it, with no deadline needed to unblock it.
WaitEnds == \A t \in Turns : pc[t] = "queued" ~> pc[t] \notin {"queued", "assigned"}
=============================================================================
