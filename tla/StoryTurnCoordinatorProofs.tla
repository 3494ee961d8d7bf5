--------------------- MODULE StoryTurnCoordinatorProofs ---------------------
(***************************************************************************)
(* What the coordinator guarantees for every set of turns and stories and  *)
(* every limit: the counters are exact and never wrap, a permit is never   *)
(* lost, and, as long as no entry outlives idle_timeout, the turns of a    *)
(* story exclude each other.                                               *)
(***************************************************************************)
EXTENDS StoryTurnCoordinator, FiniteSetTheorems, TLAPS

Waiters == At(Registered \cup {"aborted"})
Permits == At({"running", "released"})

\* TypeOK is not inductive: that a decrement stays in Nat follows from what
\* the two counters count.
Accounting ==
    /\ TypeOK
    /\ total_waiters = Cardinality(Waiters)
    /\ total_waiters <= MaxTotalWaiters
    /\ active_permits = Cardinality(Permits)

\* Any set of turns is finite, and a turn more or less changes its
\* cardinality by one.
LEMMA CountTurns ==
    ASSUME NEW S \in SUBSET Turns, NEW t \in Turns
    PROVE  /\ Cardinality(S) \in Nat
           /\ t \notin S => Cardinality(S \cup {t}) = Cardinality(S) + 1
           /\ t \in S => /\ Cardinality(S) > 0
                         /\ Cardinality(S \ {t}) = Cardinality(S) - 1
<1>1. IsFiniteSet(S)
  BY TurnsAssumption, FS_Subset
<1>2. Cardinality(S) \in Nat
  BY <1>1, FS_CardinalityType
<1>3. t \notin S => Cardinality(S \cup {t}) = Cardinality(S) + 1
  BY <1>1, FS_AddElement
<1>4. t \in S => Cardinality(S \ {t}) = Cardinality(S) - 1
  BY <1>1, FS_RemoveElement
<1>5. t \in S => Cardinality(S) # 0
  BY <1>1, FS_EmptySet
<1> QED BY <1>2, <1>3, <1>4, <1>5

\* reclaim keeps the map well formed.
LEMMA ReclaimType ==
    ASSUME NEW map \in [Stories -> StoryEntry \cup {NoEntry}]
    PROVE  reclaim(map) \in [Stories -> StoryEntry \cup {NoEntry}]
BY DEF reclaim

\* Handing a permit over moves t to p and at most one queued turn, of the
\* same semaphore, to "assigned".
LEMMA HandOverMoves ==
    ASSUME TypeOK, NEW t \in Turns, NEW p \in PC, pc[t] # "queued", HandOver(t, p, sem[t])
    PROVE  /\ pc' \in [Turns -> PC]
           /\ pc'[t] = p
           /\ \A v \in Turns : v # t /\ pc'[v] # pc[v] =>
                 pc[v] = "queued" /\ pc'[v] = "assigned" /\ sem[v] = sem[t]
           /\ \A v, w \in Turns : v # t /\ pc'[v] # pc[v] /\ w # t /\ pc'[w] # pc[w] => v = w
           /\ (\E v \in Waiting(sem[t]) : TRUE) =>
                 \E v \in Turns : v # t /\ pc'[v] = "assigned" /\ sem[v] = sem[t]
BY DEF TypeOK, HandOver, IsNext, Waiting, PC, Registered, Holding

-----------------------------------------------------------------------------
(* Type correctness and the two counters *)

\* A step that moves no turn into or out of the counted places and leaves the
\* counters alone keeps the accounting, whatever else it does.
LEMMA AccountingFrame ==
    ASSUME Accounting, TypeOK', Waiters' = Waiters, Permits' = Permits,
           UNCHANGED counters
    PROVE  Accounting'
BY DEF Accounting, counters

LEMMA AccountingInit == Init => Accounting
<1> SUFFICES ASSUME Init PROVE Accounting
  OBVIOUS
<1>1. TypeOK
  BY DEF Init, TypeOK, PC
<1>2. Waiters = {} /\ Permits = {}
  BY DEF Init, Waiters, Permits, At, Registered
<1> QED BY <1>1, <1>2, FS_EmptySet, LimitsAssumption DEF Init, Accounting

LEMMA AccountingStep == Accounting /\ [Next]_vars => Accounting'
<1> SUFFICES ASSUME Accounting, [Next]_vars PROVE Accounting'
  OBVIOUS
<1> USE DEF Accounting
<1>a. Waiters \in SUBSET Turns /\ Permits \in SUBSET Turns
  BY DEF Waiters, Permits, At
<1>b. CASE UNCHANGED vars
  <2>1. TypeOK'
    BY <1>b DEF vars, TypeOK
  <2>2. Waiters' = Waiters /\ Permits' = Permits /\ UNCHANGED counters
    BY <1>b DEF vars, counters, Waiters, Permits, At
  <2> QED BY <2>1, <2>2, AccountingFrame
<1>1. ASSUME NEW t \in Turns, AcquireEnter(t) PROVE Accounting'
  <2>1. TypeOK'
    BY <1>1 DEF AcquireEnter, TypeOK, PC, counters, queueing
  <2>2. Waiters' = Waiters /\ Permits' = Permits
    BY <1>1 DEF AcquireEnter, TypeOK, Waiters, Permits, At, Registered
  <2> QED BY <1>1, <2>1, <2>2, AccountingFrame DEF AcquireEnter
<1>2. ASSUME NEW t \in Turns, AcquireRegister(t) PROVE Accounting'
  <2> DEFINE s == story[t]
             map == reclaim(stories)
             entry == IF map[s] = NoEntry THEN NewEntry ELSE map[s]
  <2>1. map \in [Stories -> StoryEntry \cup {NoEntry}] /\ s \in Stories
    BY ReclaimType DEF TypeOK
  <2>2. entry \in StoryEntry
    BY <2>1 DEF NewEntry, StoryEntry, IdleSince, TypeOK
  <2>3. [entry EXCEPT !.waiters = @ + 1] \in StoryEntry /\ entry.semaphore \in Nat
    BY <2>2 DEF StoryEntry
  <2> HIDE DEF s, map, entry
  <2>4. CASE pc' = [pc EXCEPT ![t] = "failed"] /\ UNCHANGED <<total_waiters, sem>>
             /\ stories' \in {map, [map EXCEPT ![s] = entry]}
    <3>1. TypeOK'
      BY <1>2, <2>1, <2>2, <2>4 DEF AcquireRegister, TypeOK, PC, queueing
    <3>2. Waiters' = Waiters /\ Permits' = Permits /\ UNCHANGED counters
      BY <1>2, <2>4 DEF AcquireRegister, TypeOK, Waiters, Permits, At, Registered, counters
    <3> QED BY <3>1, <3>2, AccountingFrame
  <2>5. CASE /\ total_waiters < MaxTotalWaiters
             /\ stories' = [map EXCEPT ![s] = [entry EXCEPT !.waiters = @ + 1]]
             /\ total_waiters' = total_waiters + 1
             /\ sem' = [sem EXCEPT ![t] = entry.semaphore]
             /\ pc' = [pc EXCEPT ![t] = "polling"]
    <3>1. TypeOK'
      BY <1>2, <2>1, <2>3, <2>5 DEF AcquireRegister, TypeOK, PC, Registered, queueing
    <3>2. t \notin Waiters /\ Waiters' = Waiters \cup {t} /\ Permits' = Permits
      BY <1>2, <2>5 DEF AcquireRegister, TypeOK, Waiters, Permits, At, Registered
    <3>3. Cardinality(Waiters') = Cardinality(Waiters) + 1
      BY <1>a, <3>2, CountTurns
    <3>4. total_waiters' <= MaxTotalWaiters
      BY <2>5, LimitsAssumption DEF TypeOK
    <3>5. UNCHANGED active_permits
      BY <1>2 DEF AcquireRegister
    <3> QED BY <2>5, <3>1, <3>2, <3>3, <3>4, <3>5
  <2> QED BY <1>2, <2>4, <2>5 DEF AcquireRegister, s, map, entry
<1>3. ASSUME NEW t \in Turns, PollSemaphore(t) \/ TakeAssigned(t) PROVE Accounting'
  <2>1. TypeOK'
    BY <1>3 DEF PollSemaphore, TakeAssigned, TypeOK, PC, Registered, Holding, counters, queueing
  <2>2. Waiters' = Waiters /\ Permits' = Permits /\ UNCHANGED counters
    BY <1>3 DEF PollSemaphore, TakeAssigned, TypeOK, Waiters, Permits, At, Registered
  <2> QED BY <2>1, <2>2, AccountingFrame
<1>4. ASSUME NEW t \in Turns, WaitFails(t) \/ AbortWait(t) \/ DropPermit(t) PROVE Accounting'
  <2>1. PICK p \in {"refused", "aborted", "released"} :
             /\ (p \in {"refused", "aborted"} /\ pc[t] \in {"polling", "queued", "assigned"})
                  \/ (p = "released" /\ pc[t] = "running")
             /\ \/ pc' = [pc EXCEPT ![t] = p]
                \/ pc[t] # "queued" /\ HandOver(t, p, sem[t])
             /\ UNCHANGED <<stories, counters, shutdown, grace, story, sem, queueing, semaphores>>
    BY <1>4 DEF WaitFails, AbortWait, DropPermit
  <2>2. /\ pc' \in [Turns -> PC]
        /\ pc'[t] = p
        /\ \A v \in Turns : v # t /\ pc'[v] # pc[v] => pc[v] = "queued" /\ pc'[v] = "assigned"
    BY <2>1, HandOverMoves DEF TypeOK, PC, Registered
  <2>3. TypeOK'
    BY <2>1, <2>2 DEF TypeOK, counters, queueing
  <2>4. Waiters' = Waiters /\ Permits' = Permits
    BY <2>1, <2>2 DEF TypeOK, Waiters, Permits, At, Registered
  <2> QED BY <2>1, <2>3, <2>4, AccountingFrame
<1>5. ASSUME NEW t \in Turns, AcquireUnregister(t) PROVE Accounting'
  <2>1. t \in Waiters /\ Waiters' = Waiters \ {t} /\ Permits' = Permits
    BY <1>5 DEF AcquireUnregister, TypeOK, Waiters, Permits, At, Registered
  <2>2. total_waiters' = Cardinality(Waiters') /\ total_waiters' \in Nat
        /\ total_waiters' <= MaxTotalWaiters
    BY <1>5, <1>a, <2>1, CountTurns, LimitsAssumption DEF AcquireUnregister, TypeOK
  <2>3. stories' \in [Stories -> StoryEntry \cup {NoEntry}]
    BY <1>5 DEF AcquireUnregister, TypeOK, StoryEntry, IdleSince
  <2>4. TypeOK'
    BY <1>5, <2>2, <2>3 DEF AcquireUnregister, TypeOK, PC, Registered, Holding, queueing
  <2> QED BY <1>5, <2>1, <2>2, <2>4 DEF AcquireUnregister
<1>6. ASSUME NEW t \in Turns, AcquireReturn(t) PROVE Accounting'
  <2>1. t \notin Permits /\ Permits' = Permits \cup {t} /\ Waiters' = Waiters
    BY <1>6 DEF AcquireReturn, TypeOK, Waiters, Permits, At, Registered
  <2>2. TypeOK'
    BY <1>6 DEF AcquireReturn, TypeOK, PC, Holding, queueing
  <2> QED BY <1>6, <1>a, <2>1, <2>2, CountTurns DEF AcquireReturn
<1>7. ASSUME NEW t \in Turns, ReleaseUncount(t) PROVE Accounting'
  <2>1. t \in Permits /\ Permits' = Permits \ {t} /\ Waiters' = Waiters
    BY <1>7 DEF ReleaseUncount, TypeOK, Waiters, Permits, At, Registered
  <2>2. active_permits' = Cardinality(Permits') /\ active_permits' \in Nat
    BY <1>7, <1>a, <2>1, CountTurns DEF ReleaseUncount
  <2>3. TypeOK'
    BY <1>7, <2>2 DEF ReleaseUncount, TypeOK, PC, queueing
  <2> QED BY <1>7, <2>1, <2>2, <2>3 DEF ReleaseUncount
<1>8. ASSUME NEW t \in Turns, ReleaseEntry(t) PROVE Accounting'
  <2>1. (IF stories[story[t]] # NoEntry /\ stories[story[t]].waiters = 0
         THEN [stories EXCEPT ![story[t]].idle_since = "fresh"] ELSE stories)
           \in [Stories -> StoryEntry \cup {NoEntry}]
    BY DEF TypeOK, StoryEntry, IdleSince
  <2>2. stories' \in [Stories -> StoryEntry \cup {NoEntry}]
    BY <1>8, <2>1, ReclaimType DEF ReleaseEntry
  <2>3. TypeOK'
    BY <1>8, <2>2 DEF ReleaseEntry, TypeOK, PC, counters, queueing
  <2>4. Waiters' = Waiters /\ Permits' = Permits /\ UNCHANGED counters
    BY <1>8 DEF ReleaseEntry, TypeOK, Waiters, Permits, At, Registered
  <2> QED BY <2>3, <2>4, AccountingFrame
<1>9. ASSUME (\E s \in Stories : IdleTimeout(s)) \/ reclaim_idle \/ Shutdown \/ GraceEnds
      PROVE  Accounting'
  <2>1. stories' \in [Stories -> StoryEntry \cup {NoEntry}]
    BY <1>9, ReclaimType DEF IdleTimeout, reclaim_idle, Shutdown, GraceEnds, TypeOK, StoryEntry, IdleSince
  <2>2. TypeOK'
    BY <1>9, <2>1 DEF IdleTimeout, reclaim_idle, Shutdown, GraceEnds, TypeOK, counters, queueing
  <2>3. Waiters' = Waiters /\ Permits' = Permits /\ UNCHANGED counters
    BY <1>9 DEF IdleTimeout, reclaim_idle, Shutdown, GraceEnds, Waiters, Permits, At
  <2> QED BY <2>2, <2>3, AccountingFrame
<1> HIDE DEF Accounting
<1> QED BY <1>b, <1>1, <1>2, <1>3, <1>4, <1>5, <1>6, <1>7, <1>8, <1>9 DEF Next, Step

\* Every reachable state is well formed.
LEMMA CoordinatorTypes == Spec => []TypeOK
<1>1. Accounting => TypeOK
  BY DEF Accounting
<1> QED BY <1>1, AccountingInit, AccountingStep, PTL DEF Spec

\* For any number of turns and stories total_waiters and active_permits are
\* exact on every path through acquire and release (so neither ever wraps
\* below zero), and the queue is bounded by max_total_waiters.
THEOREM CoordinatorCounters == Spec => []CountersExact
<1>1. Accounting => CountersExact
  BY DEF Accounting, CountersExact, Waiters, Permits
<1> QED BY <1>1, AccountingInit, AccountingStep, PTL DEF Spec

-----------------------------------------------------------------------------
(* The permit of a semaphore *)

\* A semaphore has at most one holder, and one if a turn queues for it.
OneHolder == \A t, u \in At(Holding) : sem[t] = sem[u] => t = u

PermitInv == OneHolder /\ NoLostPermit

LEMMA PermitInit == Init => PermitInv
BY DEF Init, PermitInv, OneHolder, NoLostPermit, At, Holding

LEMMA PermitStep == TypeOK /\ PermitInv /\ [Next]_vars => PermitInv'
<1> SUFFICES ASSUME TypeOK, PermitInv, [Next]_vars PROVE PermitInv'
  OBVIOUS
<1> USE DEF PermitInv, OneHolder, NoLostPermit, At
\* Steps that leave each turn on the same side: holding, queued, or neither.
<1>a. ASSUME \A v \in Turns : /\ sem'[v] = sem[v] \/ pc[v] = "entered"
                              /\ pc'[v] \in Holding <=> pc[v] \in Holding
                              /\ pc'[v] = "queued" => pc[v] = "queued"
      PROVE  PermitInv'
  BY <1>a DEF TypeOK, Holding
<1>b. CASE UNCHANGED vars
  BY <1>b, <1>a DEF vars
<1>1. ASSUME NEW t \in Turns,
             \/ AcquireEnter(t) \/ AcquireRegister(t) \/ TakeAssigned(t)
             \/ AcquireUnregister(t) \/ AcquireReturn(t) \/ ReleaseUncount(t) \/ ReleaseEntry(t)
      PROVE  PermitInv'
  <2>1. /\ \A v \in Turns : v # t => pc'[v] = pc[v] /\ sem'[v] = sem[v]
        /\ sem'[t] = sem[t] \/ pc[t] = "entered"
        /\ pc'[t] \in Holding <=> pc[t] \in Holding
        /\ pc'[t] # "queued"
    BY <1>1 DEF AcquireEnter, AcquireRegister, TakeAssigned, AcquireUnregister, AcquireReturn,
                ReleaseUncount, ReleaseEntry, TypeOK, Holding
  <2> QED BY <2>1, <1>a
<1>2. ASSUME NEW t \in Turns, PollSemaphore(t) PROVE PermitInv'
  BY <1>2 DEF PollSemaphore, Free, TypeOK, Holding
<1>3. ASSUME NEW t \in Turns, WaitFails(t) \/ AbortWait(t) \/ DropPermit(t) PROVE PermitInv'
  <2>1. CASE pc[t] \notin Holding
    <3>1. /\ sem' = sem
          /\ \A v \in Turns : v # t => pc'[v] = pc[v]
          /\ pc'[t] \in {"refused", "aborted"}
      BY <1>3, <2>1 DEF WaitFails, AbortWait, DropPermit, TypeOK, Holding
    <3> QED BY <2>1, <3>1, <1>a DEF Holding
  <2>2. CASE pc[t] \in Holding
    <3>1. PICK p \in {"refused", "aborted", "released"} : HandOver(t, p, sem[t]) /\ sem' = sem
      BY <1>3, <2>2 DEF WaitFails, AbortWait, DropPermit, Holding
    <3>2. pc[t] # "queued" /\ p \in PC
      BY <2>2 DEF Holding, PC, Registered
    <3>3. /\ pc'[t] = p
          /\ \A v \in Turns : v # t /\ pc'[v] # pc[v] =>
                pc[v] = "queued" /\ pc'[v] = "assigned" /\ sem[v] = sem[t]
          /\ \A v, w \in Turns : v # t /\ pc'[v] # pc[v] /\ w # t /\ pc'[w] # pc[w] => v = w
          /\ (\E v \in Waiting(sem[t]) : TRUE) =>
                \E v \in Turns : v # t /\ pc'[v] = "assigned" /\ sem[v] = sem[t]
      BY <3>1, <3>2, HandOverMoves
    <3>4. ASSUME NEW v \in Turns, NEW w \in Turns, pc'[v] \in Holding, pc'[w] \in Holding,
                 sem[v] = sem[w]
          PROVE  v = w
      BY <2>2, <3>3, <3>4 DEF Holding
    <3>5. ASSUME NEW v \in Turns, pc'[v] = "queued"
          PROVE  \E u \in Turns : pc'[u] \in Holding /\ sem[u] = sem[v]
      <4>1. v # t /\ pc[v] = "queued"
        BY <3>3, <3>5
      <4>2. CASE sem[v] = sem[t]
        BY <3>3, <4>1, <4>2 DEF Waiting, Holding
      <4>3. CASE sem[v] # sem[t]
        BY <3>3, <4>1, <4>3 DEF Holding
      <4> QED BY <4>2, <4>3
    <3> QED BY <3>1, <3>4, <3>5
  <2> QED BY <2>1, <2>2
<1>4. ASSUME (\E s \in Stories : IdleTimeout(s)) \/ reclaim_idle \/ Shutdown \/ GraceEnds
      PROVE  PermitInv'
  BY <1>4, <1>a DEF IdleTimeout, reclaim_idle, Shutdown, GraceEnds
<1> QED BY <1>b, <1>1, <1>2, <1>3, <1>4 DEF Next, Step

\* For any number of turns, a permit that races a cancellation, a deadline or
\* an abort is passed on: nobody queues for a semaphore that has no owner.
THEOREM CoordinatorKeepsPermits == Spec => []NoLostPermit
<1>1. PermitInv => NoLostPermit
  BY DEF PermitInv
<1> QED BY <1>1, PermitInit, PermitStep, CoordinatorTypes, PTL DEF Spec

\* For any number of turns and stories the counters of the coordinator are
\* exact and no semaphore loses its permit.
THEOREM CoordinatorAccounting == Spec => []AccountingExact
<1>1. CountersExact /\ NoLostPermit => AccountingExact
  BY DEF AccountingExact
<1> QED BY <1>1, CoordinatorCounters, CoordinatorKeepsPermits, PTL

-----------------------------------------------------------------------------
(* Mutual exclusion of the stories whose entry never outlives idle_timeout *)

\* Such an entry has not expired, and the turns that wait for or hold a permit
\* of its story use its semaphore.
Lasting == Stories \ Expiring

EntriesLast ==
    /\ \A s \in Lasting : stories[s] # NoEntry => stories[s].idle_since # "expired"
    /\ \A t \in At(Registered \cup Holding) : story[t] \in Lasting =>
          /\ stories[story[t]] # NoEntry
          /\ sem[t] = stories[story[t]].semaphore

LEMMA EntriesInit == Init => EntriesLast
BY DEF Init, EntriesLast, At, Registered, Holding, Lasting

\* An entry that stays in the map keeps its semaphore.
LEMMA EntriesStep ==
    ASSUME TypeOK, TypeOK', EntriesLast, [Next]_vars
    PROVE  EntriesLast'
<1>z. Lasting \subseteq Stories
  BY DEF Lasting
<1>a. /\ \A x \in Lasting : reclaim(stories)[x] = stories[x]
      /\ reclaim(stories) \in [Stories -> StoryEntry \cup {NoEntry}]
  BY <1>z DEF reclaim, EntriesLast, TypeOK
\* Steps that move turns only between places bound to the semaphore, or away,
\* and keep every entry and its semaphore.
<1>b. ASSUME /\ \A s \in Lasting : stories[s] # NoEntry =>
                   stories'[s] # NoEntry /\ stories'[s].semaphore = stories[s].semaphore
             /\ \A s \in Lasting : stories'[s] # NoEntry => stories'[s].idle_since # "expired"
             /\ \A v \in Turns : pc'[v] \in Registered \cup Holding => pc[v] \in Registered \cup Holding
             /\ story' = story /\ sem' = sem
      PROVE  EntriesLast'
  BY <1>b DEF EntriesLast, At, TypeOK
<1>c. CASE UNCHANGED vars
  BY <1>b, <1>c DEF vars, EntriesLast
<1>1. ASSUME NEW t \in Turns,
             AcquireEnter(t) \/ PollSemaphore(t) \/ TakeAssigned(t) \/ AcquireReturn(t) \/ ReleaseUncount(t)
      PROVE  EntriesLast'
  <2>1. stories' = stories /\ story' = story /\ sem' = sem
    BY <1>1 DEF AcquireEnter, PollSemaphore, TakeAssigned, AcquireReturn, ReleaseUncount
  <2>2. \A v \in Turns : pc'[v] \in Registered \cup Holding => pc[v] \in Registered \cup Holding
    BY <1>1 DEF AcquireEnter, PollSemaphore, TakeAssigned, AcquireReturn, ReleaseUncount,
                TypeOK, Registered, Holding
  <2> QED BY <1>b, <2>1, <2>2 DEF EntriesLast
<1>2. ASSUME NEW t \in Turns, AcquireRegister(t) PROVE EntriesLast'
  <2> DEFINE s == story[t]
             map == reclaim(stories)
             entry == IF map[s] = NoEntry THEN NewEntry ELSE map[s]
  <2>0. /\ \A x \in Lasting : map[x] = stories[x]
        /\ map \in [Stories -> StoryEntry \cup {NoEntry}]
    BY <1>a
  <2> HIDE DEF map
  <2>1. s \in Stories /\ entry \in StoryEntry /\ entry # NoEntry
    BY <2>0, NoEntryAssumption DEF TypeOK, NewEntry, StoryEntry, IdleSince
  <2>2. s \in Lasting /\ stories[s] # NoEntry => entry = stories[s]
    BY <2>0
  <2>3. s \in Lasting => entry.idle_since # "expired"
    BY <2>0, <2>1 DEF EntriesLast, NewEntry
  <2>4. [entry EXCEPT !.waiters = @ + 1] \in StoryEntry
        /\ [entry EXCEPT !.waiters = @ + 1].semaphore = entry.semaphore
        /\ [entry EXCEPT !.waiters = @ + 1].idle_since = entry.idle_since
    BY <2>1 DEF StoryEntry
  <2> HIDE DEF s, entry
  <2>5. CASE pc' = [pc EXCEPT ![t] = "failed"] /\ UNCHANGED <<sem, story>>
             /\ stories' \in {map, [map EXCEPT ![s] = entry]}
    <3>1. \A v \in Turns : pc'[v] \in Registered \cup Holding => pc[v] \in Registered \cup Holding
      BY <2>5 DEF TypeOK, Registered, Holding
    <3>2. \A x \in Lasting : stories[x] # NoEntry =>
                   stories'[x] # NoEntry /\ stories'[x].semaphore = stories[x].semaphore
      BY <1>z, <2>0, <2>1, <2>2, <2>5
    <3>3. \A x \in Lasting : stories'[x] # NoEntry => stories'[x].idle_since # "expired"
      BY <1>z, <2>0, <2>1, <2>3, <2>5 DEF EntriesLast
    <3> QED BY <1>b, <2>5, <3>1, <3>2, <3>3
  <2>6. CASE /\ stories' = [map EXCEPT ![s] = [entry EXCEPT !.waiters = @ + 1]]
             /\ sem' = [sem EXCEPT ![t] = entry.semaphore]
             /\ pc' = [pc EXCEPT ![t] = "polling"]
             /\ story' = story
    <3> DEFINE new == [entry EXCEPT !.waiters = @ + 1]
    <3>1. new # NoEntry /\ new.semaphore = entry.semaphore /\ (s \in Lasting => new.idle_since # "expired")
      BY <2>3, <2>4, NoEntryAssumption
    <3> HIDE DEF new
    <3>2. stories' = [map EXCEPT ![s] = new]
      BY <2>6 DEF new
    <3>3. \A x \in Lasting : stories'[x] # NoEntry => stories'[x].idle_since # "expired"
      BY <1>z, <2>0, <2>1, <3>1, <3>2 DEF EntriesLast
    <3>4. ASSUME NEW v \in Turns, pc'[v] \in Registered \cup Holding, story[v] \in Lasting
          PROVE  stories'[story[v]] # NoEntry /\ sem'[v] = stories'[story[v]].semaphore
      <4>1. CASE v = t
        BY <2>0, <2>1, <2>6, <3>1, <3>2, <4>1 DEF TypeOK, s
      <4>2. CASE v # t
        <5>1. pc[v] \in Registered \cup Holding /\ sem'[v] = sem[v]
          BY <2>6, <3>4, <4>2 DEF TypeOK
        <5>2. stories[story[v]] # NoEntry /\ sem[v] = stories[story[v]].semaphore
          BY <3>4, <5>1 DEF EntriesLast, At
        <5> QED BY <1>z, <2>0, <2>1, <2>2, <3>1, <3>2, <3>4, <5>1, <5>2
      <4> QED BY <4>1, <4>2
    <3> QED BY <2>6, <3>3, <3>4 DEF EntriesLast, At
  <2> QED BY <1>2, <2>5, <2>6 DEF AcquireRegister, s, map, entry
<1>3. ASSUME NEW t \in Turns, WaitFails(t) \/ AbortWait(t) \/ DropPermit(t) PROVE EntriesLast'
  <2>1. stories' = stories /\ story' = story /\ sem' = sem
    BY <1>3 DEF WaitFails, AbortWait, DropPermit
  <2>2. \A v \in Turns : pc'[v] \in Registered \cup Holding => pc[v] \in Registered \cup Holding
    BY <1>3 DEF WaitFails, AbortWait, DropPermit, HandOver, IsNext, Waiting, TypeOK, Registered, Holding
  <2> QED BY <1>b, <2>1, <2>2 DEF EntriesLast
<1>4. ASSUME NEW t \in Turns, AcquireUnregister(t) PROVE EntriesLast'
  <2>1. \A v \in Turns : pc'[v] \in Registered \cup Holding => pc[v] \in Registered \cup Holding
    BY <1>4, <1>z DEF AcquireUnregister, TypeOK, Registered, Holding
  <2>2. \A x \in Lasting : stories[x] # NoEntry =>
                   /\ stories'[x] \in StoryEntry
                   /\ stories'[x].semaphore = stories[x].semaphore
                   /\ stories'[x].idle_since \in {stories[x].idle_since, "none"}
    BY <1>4, <1>z DEF AcquireUnregister, TypeOK, StoryEntry, IdleSince
  <2>3. \A x \in Lasting : stories'[x] # NoEntry => stories[x] # NoEntry
    BY <1>4, <1>z DEF AcquireUnregister, TypeOK
  <2> QED BY <1>4, <1>b, <2>1, <2>2, <2>3, NoEntryAssumption DEF EntriesLast, AcquireUnregister
<1>5. ASSUME NEW t \in Turns, ReleaseEntry(t) PROVE EntriesLast'
  <2> DEFINE map == IF stories[story[t]] # NoEntry /\ stories[story[t]].waiters = 0
                    THEN [stories EXCEPT ![story[t]].idle_since = "fresh"] ELSE stories
  <2>1. \A x \in Stories : stories[x] # NoEntry =>
                   /\ map[x] \in StoryEntry
                   /\ map[x].semaphore = stories[x].semaphore
                   /\ map[x].idle_since \in {stories[x].idle_since, "fresh"}
    BY DEF TypeOK, StoryEntry, IdleSince
  <2>2. \A x \in Stories : stories[x] = NoEntry => map[x] = NoEntry
    BY DEF TypeOK
  <2>3. map \in [Stories -> StoryEntry \cup {NoEntry}]
    BY <2>1, <2>2 DEF TypeOK
  <2>4. stories' = reclaim(map)
    BY <1>5 DEF ReleaseEntry
  <2> HIDE DEF map
  <2>5. \A x \in Lasting : reclaim(map)[x] = map[x]
    BY <1>z, <2>1, <2>2, <2>3 DEF reclaim, EntriesLast
  <2>6. \A v \in Turns : pc'[v] \in Registered \cup Holding => pc[v] \in Registered \cup Holding
    BY <1>5 DEF ReleaseEntry, TypeOK, Registered, Holding
  <2>7. \A x \in Lasting : stories[x] # NoEntry =>
                   stories'[x] # NoEntry /\ stories'[x].semaphore = stories[x].semaphore
    BY <1>z, <2>1, <2>4, <2>5, NoEntryAssumption
  <2>8. \A x \in Lasting : stories'[x] # NoEntry => stories'[x].idle_since # "expired"
    BY <1>z, <2>1, <2>2, <2>4, <2>5 DEF EntriesLast
  <2>9. story' = story /\ sem' = sem
    BY <1>5 DEF ReleaseEntry
  <2> QED BY <1>b, <2>6, <2>7, <2>8, <2>9
<1>6. ASSUME (\E s \in Stories : IdleTimeout(s)) \/ reclaim_idle \/ Shutdown \/ GraceEnds
      PROVE  EntriesLast'
  <2>1. story' = story /\ sem' = sem /\ pc' = pc
    BY <1>6 DEF IdleTimeout, reclaim_idle, Shutdown, GraceEnds
  <2>2. \A x \in Lasting : stories'[x] = stories[x]
    BY <1>6, <1>a, <1>z DEF IdleTimeout, reclaim_idle, Shutdown, GraceEnds, Lasting, TypeOK
  <2> QED BY <1>b, <2>1, <2>2 DEF EntriesLast
<1> QED BY <1>c, <1>1, <1>2, <1>3, <1>4, <1>5, <1>6 DEF Next, Step

\* At most one turn is past acquire and has not dropped its permit, for every
\* story whose entry never reaches idle_timeout and any number of turns and
\* stories, whatever reclaim does to the other entries.
THEOREM CoordinatorExclusion == Spec => []ExclusionWhileEntriesLast
<1>1. TypeOK /\ PermitInv /\ EntriesLast => ExclusionWhileEntriesLast
  BY DEF PermitInv, OneHolder, EntriesLast, ExclusionWhileEntriesLast, At, Executing,
         Holding, Registered, TypeOK, Lasting
<1>2. TypeOK /\ TypeOK' /\ EntriesLast /\ [Next]_vars => EntriesLast'
  BY EntriesStep
<1> QED BY <1>1, <1>2, PermitInit, PermitStep, EntriesInit, CoordinatorTypes, PTL DEF Spec
=============================================================================
