-------------------------- MODULE TurnCommitProofs --------------------------
(***************************************************************************)
(* What the engine and the store guarantee for any number of attempts,     *)
(* stories, requests and crashes, with or without the coordinator's mutual *)
(* exclusion: the turns of a story form a chain, a key is applied once,    *)
(* every answer is faithful, and every step is one of StoryLedger or       *)
(* changes nothing there.  Under the exclusion the attempts of a story run *)
(* one after the other.                                                    *)
(***************************************************************************)
EXTENDS TurnCommit, TLAPS

\* What commit_turn checked about a on its snapshot, and still holds as long
\* as nothing was committed since.
Fresh(a) ==
    /\ db[Story(a)].revision = base[a]
    /\ db[Story(a)].last_turn_number + 1 = number[a]
    /\ RowsOfKey(a) = {}

\* A transaction whose snapshot is current is fresh; the one that has the
\* write lock has a current snapshot.
TxInv ==
    \A a \in Attempts :
        /\ pc[a] \in WithPermit \ {"loading", "finishing"} => db[Story(a)] # NoStory
        /\ pc[a] \in {"writing", "committing"} =>
              /\ mark[a] <= version
              /\ mark[a] = version => Fresh(a)
        /\ pc[a] = "committing" => writer = a /\ mark[a] = version

StoreInv == TypeOK /\ LedgerChain /\ OneTurnPerKey /\ TxInv

\* What Append does to the turns of a story.
LEMMA AppendRow ==
    ASSUME NEW turns \in Seq(TurnRows), NEW row \in TurnRows
    PROVE  /\ Append(turns, row) \in Seq(TurnRows)
           /\ Len(Append(turns, row)) = Len(turns) + 1
           /\ DOMAIN turns = 1..Len(turns)
           /\ DOMAIN Append(turns, row) = 1..(Len(turns) + 1)
           /\ \A i \in 1..Len(turns) : Append(turns, row)[i] = turns[i]
           /\ Append(turns, row)[Len(turns) + 1] = row
OBVIOUS

\* What Commit does, given that the lock holder is fresh.
LEMMA CommitEffect ==
    ASSUME StoreInv, NEW a \in Attempts, Commit(a)
    PROVE  /\ Story(a) \in Stories
           /\ db[Story(a)] \in StoryRows
           /\ TurnRow(a) \in TurnRows
           /\ number[a] = Len(db[Story(a)].turns) + 1
           /\ base[a] = Len(db[Story(a)].turns)
           /\ RowsOfKey(a) = {}
           /\ db' = [db EXCEPT ![Story(a)] =
                        [revision |-> base[a] + 1, last_turn_number |-> number[a],
                         turns |-> Append(db[Story(a)].turns, TurnRow(a))]]
           /\ version' = version + 1
           /\ pc' = [pc EXCEPT ![a] = "finishing"]
           /\ outcome' = [outcome EXCEPT ![a] = Success(CommittedResult(a))]
           /\ writer' = Nobody
           /\ UNCHANGED <<request, number, base, mark, crashes>>
<1>1. pc[a] = "committing" /\ Fresh(a) /\ db[Story(a)] # NoStory
  BY DEF Commit, StoreInv, TxInv, WithPermit
<1>2. Story(a) \in Stories /\ db[Story(a)] \in StoryRows
  BY <1>1, RequestsAssumption DEF StoreInv, TypeOK, Story
<1>3. number[a] = Len(db[Story(a)].turns) + 1 /\ base[a] = Len(db[Story(a)].turns)
  BY <1>1, <1>2 DEF StoreInv, LedgerChain, Fresh, StoryRows
<1>4. CommittedResult(a) \in Results
  BY DEF StoreInv, TypeOK, CommittedResult, Results
<1>5. TurnRow(a) \in TurnRows
  BY <1>1, <1>2, <1>4 DEF StoreInv, TypeOK, TurnRow, TurnRows, Rows, StoryRows
<1> QED BY <1>1, <1>2, <1>3, <1>5 DEF Commit, Fresh, Finish, Goto

LEMMA StoreInit == Init => StoreInv
<1> SUFFICES ASSUME Init PROVE StoreInv
  OBVIOUS
<1>1. TypeOK
  BY CrashesAssumption, WorkloadsAssumption DEF Init, TypeOK, PC, Unanswered, Kinds
<1>2. LedgerChain /\ OneTurnPerKey /\ TxInv
  BY DEF Init, LedgerChain, OneTurnPerKey, TxInv, Rows, WithPermit
<1> QED BY <1>1, <1>2 DEF StoreInv

-----------------------------------------------------------------------------
(* The store invariant is preserved *)

\* Steps of one attempt that only read the database.
Reads(a) ==
    \/ Submit(a) \/ Acquire(a) \/ AcquireFails(a) \/ GetStory(a) \/ FindCommittedTurn(a)
    \/ LoadStorySnapshot(a) \/ BeginCommit(a) \/ TakeWriteLock(a) \/ Fails(a) \/ Finalize(a)

LEMMA ReplayType ==
    ASSUME TypeOK, NEW a \in Attempts, NEW i \in RowsOfKey(a)
    PROVE  Replay(a, i) \in [kind : Kinds, result : Results \cup {NoAnswer}]
<1>1. Story(a) \in Stories
  BY RequestsAssumption DEF TypeOK, Story
<1>2. Rows(Story(a)) \in Seq(TurnRows)
  BY <1>1 DEF TypeOK, Rows, StoryRows
<1>3. Rows(Story(a))[i] \in TurnRows
  BY <1>2 DEF RowsOfKey
<1> QED BY <1>3 DEF Replay, Success, Refusal, Kinds, TurnRows

LEMMA ReplayKind ==
    ASSUME NEW a, NEW i
    PROVE  /\ Replay(a, i).kind \in {"committed", "idempotency_conflict"}
           /\ Replay(a, i).kind # "committed" => Replay(a, i).result = NoAnswer
BY DEF Replay, Success, Refusal

LEMMA ReadsTypes == ASSUME TypeOK, TxInv, NEW a \in Attempts, Reads(a) PROVE TypeOK'
<1> USE DEF TypeOK, PC, WithPermit, Kinds, Goto, Finish, Refusal
<1>0. Story(a) \in Stories
  BY RequestsAssumption DEF Story
<1>1. CASE Submit(a) \/ Acquire(a) \/ Finalize(a)
  BY <1>1 DEF Submit, Acquire, Finalize
<1>1a. CASE AcquireFails(a)
  BY <1>1a DEF AcquireFails
<1>2. CASE GetStory(a)
  <2>1. CASE Finish(a, Refusal("not_found")) /\ UNCHANGED number
    BY <1>2, <2>1 DEF GetStory
  <2>2. CASE /\ db[Story(a)] # NoStory
             /\ Goto(a, "checking") /\ UNCHANGED outcome
             /\ number' = [number EXCEPT ![a] = db[Story(a)].last_turn_number + 1]
    <3>1. db[Story(a)].last_turn_number + 1 \in Nat
      BY <1>0, <2>2 DEF StoryRows
    <3> QED BY <1>2, <2>2, <3>1 DEF GetStory
  <2> QED BY <1>2, <2>1, <2>2 DEF GetStory
<1>3. CASE FindCommittedTurn(a)
  <2>1. CASE \E i \in RowsOfKey(a) : Finish(a, Replay(a, i))
    <3>1. PICK i \in RowsOfKey(a) : Finish(a, Replay(a, i))
      BY <2>1
    <3>2. Replay(a, i) \in [kind : Kinds, result : Results \cup {NoAnswer}]
      BY ReplayType
    <3> QED BY <1>3, <3>1, <3>2 DEF FindCommittedTurn
  <2>2. CASE Goto(a, "running") /\ UNCHANGED outcome
    BY <1>3, <2>2 DEF FindCommittedTurn
  <2> QED BY <1>3, <2>1, <2>2 DEF FindCommittedTurn
<1>4. CASE LoadStorySnapshot(a)
  <2>1. db[Story(a)] \in StoryRows
    BY <1>0, <1>4 DEF LoadStorySnapshot, TxInv
  <2>2. db[Story(a)].revision \in Nat
    BY <2>1 DEF StoryRows
  <2> QED BY <1>4, <2>2 DEF LoadStorySnapshot
<1>5. CASE BeginCommit(a)
  <2>1. CASE \E i \in RowsOfKey(a) : Finish(a, Replay(a, i)) /\ UNCHANGED mark
    <3>1. PICK i \in RowsOfKey(a) : Finish(a, Replay(a, i)) /\ UNCHANGED mark
      BY <2>1
    <3>2. Replay(a, i) \in [kind : Kinds, result : Results \cup {NoAnswer}]
      BY ReplayType
    <3> QED BY <1>5, <3>1, <3>2 DEF BeginCommit
  <2>2. CASE Finish(a, Refusal("revision_conflict")) /\ UNCHANGED mark
    BY <1>5, <2>2 DEF BeginCommit
  <2>3. CASE Goto(a, "writing") /\ mark' = [mark EXCEPT ![a] = version] /\ UNCHANGED outcome
    BY <1>5, <2>3 DEF BeginCommit
  <2> QED BY <1>5, <2>1, <2>2, <2>3 DEF BeginCommit
<1>6. CASE TakeWriteLock(a)
  <2>1. CASE Finish(a, Refusal("store_error")) /\ UNCHANGED writer
    BY <1>6, <2>1 DEF TakeWriteLock
  <2>2. CASE Goto(a, "committing") /\ writer' = a /\ UNCHANGED outcome
    BY <1>6, <2>2 DEF TakeWriteLock
  <2> QED BY <1>6, <2>1, <2>2 DEF TakeWriteLock
<1>7. CASE Fails(a)
  BY <1>7 DEF Fails
<1> QED BY <1>1, <1>1a, <1>2, <1>3, <1>4, <1>5, <1>6, <1>7 DEF Reads

LEMMA ReadsTx == ASSUME StoreInv, NEW a \in Attempts, Reads(a) PROVE TxInv'
<1> USE DEF StoreInv, TypeOK, Goto, Finish
<1>1. /\ UNCHANGED <<db, version, request>>
      /\ \A b \in Attempts \ {a} : /\ pc'[b] = pc[b] /\ mark'[b] = mark[b]
                                   /\ base'[b] = base[b] /\ number'[b] = number[b]
  BY DEF Reads, Submit, Acquire, AcquireFails, GetStory, FindCommittedTurn, LoadStorySnapshot,
         BeginCommit, TakeWriteLock, Fails, Finalize
\* The other attempts keep what they know; the lock is not taken from them.
<1>2. \A b \in Attempts \ {a} : writer = b => writer' = b
  BY NobodyAssumption DEF Reads, Submit, Acquire, AcquireFails, GetStory, FindCommittedTurn,
     LoadStorySnapshot, BeginCommit, TakeWriteLock, Fails, Finalize
<1>3. /\ pc'[a] \in WithPermit \ {"loading", "finishing"} => db[Story(a)] # NoStory
      /\ pc'[a] \in {"writing", "committing"} =>
            /\ mark'[a] <= version
            /\ mark'[a] = version => Fresh(a)'
      /\ pc'[a] = "committing" => writer' = a /\ mark'[a] = version
  <2>1. CASE Submit(a) \/ Acquire(a) \/ AcquireFails(a) \/ Finalize(a) \/ Fails(a)
    BY <2>1 DEF Submit, Acquire, AcquireFails, Finalize, Fails, WithPermit
  <2>2. CASE GetStory(a) \/ FindCommittedTurn(a) \/ LoadStorySnapshot(a)
    BY <2>2 DEF GetStory, FindCommittedTurn, LoadStorySnapshot, WithPermit, TxInv
  <2>3. CASE BeginCommit(a)
    <3>1. CASE pc'[a] = "finishing"
      BY <3>1 DEF WithPermit
    <3>2. CASE /\ Goto(a, "writing") /\ mark' = [mark EXCEPT ![a] = version]
               /\ RowsOfKey(a) = {} /\ db[Story(a)].revision = base[a]
               /\ db[Story(a)].last_turn_number + 1 = number[a]
      <4>0. UNCHANGED <<db, request, number, base>>
        BY <2>3 DEF BeginCommit
      <4>1. Fresh(a)'
        BY <4>0, <3>2 DEF Fresh, RowsOfKey, Rows, Story
      <4>2. db[Story(a)] # NoStory
        BY <2>3 DEF BeginCommit, TxInv, WithPermit
      <4> QED BY <3>2, <4>1, <4>2
    <3> QED BY <2>3, <3>1, <3>2 DEF BeginCommit
  <2>4. CASE TakeWriteLock(a)
    <3>1. CASE pc'[a] = "finishing"
      BY <3>1 DEF WithPermit
    <3>2. CASE Goto(a, "committing") /\ writer' = a /\ mark[a] = version
      <4>1. Fresh(a) /\ db[Story(a)] # NoStory
        BY <2>4, <3>2 DEF TakeWriteLock, TxInv, WithPermit
      <4>2. Fresh(a)'
        BY <2>4, <4>1 DEF TakeWriteLock, Fresh, RowsOfKey, Rows, Story
      <4> QED BY <2>4, <3>2, <4>1, <4>2 DEF TakeWriteLock
    <3> QED BY <2>4, <3>1, <3>2 DEF TakeWriteLock
  <2> QED BY <2>1, <2>2, <2>3, <2>4 DEF Reads
<1>4. ASSUME NEW b \in Attempts \ {a}
      PROVE  /\ Fresh(b) => Fresh(b)'
             /\ Story(b)' = Story(b)
  BY <1>1 DEF Fresh, RowsOfKey, Rows, Story
<1>5. Story(a)' = Story(a)
  BY <1>1 DEF Story
<1> QED BY <1>1, <1>2, <1>3, <1>4, <1>5 DEF TxInv

LEMMA StoreStep == StoreInv /\ [Next]_vars => StoreInv'
<1> SUFFICES ASSUME StoreInv, [Next]_vars PROVE StoreInv'
  OBVIOUS
<1>0. \A a \in Attempts : Story(a) \in Stories
  BY RequestsAssumption DEF StoreInv, TypeOK, Story
<1>1. ASSUME NEW a \in Attempts, Reads(a) PROVE StoreInv'
  <2>1. UNCHANGED db
    BY <1>1 DEF Reads, Submit, Acquire, AcquireFails, GetStory, FindCommittedTurn,
                LoadStorySnapshot, BeginCommit, TakeWriteLock, Fails, Finalize
  <2>2. LedgerChain' /\ OneTurnPerKey'
    BY <2>1 DEF StoreInv, LedgerChain, OneTurnPerKey, Rows
  <2> QED BY <1>1, <2>2, ReadsTypes, ReadsTx DEF StoreInv
<1>2. ASSUME NEW s \in Stories, CreateStory(s) PROVE StoreInv'
  <2>1. NewStory \in StoryRows /\ NewStory.turns = << >> /\ NewStory.revision = 0
        /\ NewStory.last_turn_number = 0
    BY DEF NewStory, StoryRows
  <2>2. db' = [db EXCEPT ![s] = NewStory] /\ db[s] = NoStory /\ writer = Nobody
        /\ version' = version + 1
        /\ UNCHANGED <<writer, request, pc, number, base, mark, outcome, crashes>>
    BY <1>2 DEF CreateStory
  <2> HIDE DEF NewStory
  <2>3. TypeOK'
    BY <2>1, <2>2 DEF StoreInv, TypeOK
  <2>4. LedgerChain'
    BY <2>1, <2>2 DEF StoreInv, TypeOK, LedgerChain
  <2>5. OneTurnPerKey'
    BY <2>1, <2>2, NoStoryAssumption DEF StoreInv, TypeOK, OneTurnPerKey, Rows
  <2>6. TxInv'
    <3> SUFFICES ASSUME NEW a \in Attempts
                 PROVE  /\ pc[a] \in WithPermit \ {"loading", "finishing"} => db'[Story(a)] # NoStory
                        /\ pc[a] \in {"writing", "committing"} => mark[a] <= version /\ mark[a] # version + 1
                        /\ pc[a] # "committing"
      BY <2>2 DEF TxInv, Story, StoreInv, TypeOK
    <3>1. pc[a] # "committing"
      BY <2>2, NobodyAssumption DEF StoreInv, TxInv
    <3>2. pc[a] \in {"writing", "committing"} => mark[a] <= version /\ mark[a] # version + 1
      BY DEF StoreInv, TypeOK, TxInv
    <3>3. pc[a] \in WithPermit \ {"loading", "finishing"} => db'[Story(a)] # NoStory
      BY <1>0, <2>1, <2>2, NoStoryAssumption DEF StoreInv, TypeOK, TxInv
    <3> QED BY <3>1, <3>2, <3>3
  <2> QED BY <2>3, <2>4, <2>5, <2>6 DEF StoreInv
<1>3. ASSUME NEW a \in Attempts, Commit(a) PROVE StoreInv'
  <2> DEFINE s == Story(a)
             turns == db[s].turns
             new == [revision |-> base[a] + 1, last_turn_number |-> number[a],
                     turns |-> Append(turns, TurnRow(a))]
  <2>1. /\ s \in Stories /\ db[s] \in StoryRows /\ TurnRow(a) \in TurnRows
        /\ number[a] = Len(turns) + 1 /\ base[a] = Len(turns) /\ RowsOfKey(a) = {}
        /\ db' = [db EXCEPT ![s] = new]
        /\ version' = version + 1
        /\ pc' = [pc EXCEPT ![a] = "finishing"]
        /\ outcome' = [outcome EXCEPT ![a] = Success(CommittedResult(a))]
        /\ writer' = Nobody
        /\ UNCHANGED <<request, number, base, mark, crashes>>
    BY <1>3, CommitEffect
  <2>2. turns \in Seq(TurnRows) /\ Len(turns) \in Nat
    BY <2>1 DEF StoryRows
  <2>3. /\ Append(turns, TurnRow(a)) \in Seq(TurnRows)
        /\ Len(Append(turns, TurnRow(a))) = Len(turns) + 1
        /\ DOMAIN turns = 1..Len(turns)
        /\ DOMAIN Append(turns, TurnRow(a)) = 1..(Len(turns) + 1)
        /\ \A i \in 1..Len(turns) : Append(turns, TurnRow(a))[i] = turns[i]
        /\ Append(turns, TurnRow(a))[Len(turns) + 1] = TurnRow(a)
    BY <2>1, <2>2, AppendRow
  <2>4. new \in StoryRows /\ new.revision = Len(turns) + 1
        /\ new.last_turn_number = Len(turns) + 1
        /\ new.turns = Append(turns, TurnRow(a))
    BY <2>1, <2>2, <2>3 DEF StoryRows
  <2>5. Rows(s) = turns
    BY <2>1, NoStoryAssumption DEF Rows
  <2>5a. db'[s] = new /\ db'[s] # NoStory /\ \A x \in Stories \ {s} : db'[x] = db[x]
    BY <2>1, <2>4, NoStoryAssumption DEF StoreInv, TypeOK
  <2> HIDE DEF s, turns, new
  <2>6. TypeOK'
    <3>1. Success(CommittedResult(a)) \in [kind : Kinds, result : Results \cup {NoAnswer}]
      BY DEF StoreInv, TypeOK, Success, CommittedResult, Results, Kinds
    <3>2. db' \in [Stories -> StoryRows \cup {NoStory}]
      BY <2>1, <2>4 DEF StoreInv, TypeOK
    <3>3. pc' \in [Attempts -> PC]
      BY <2>1 DEF StoreInv, TypeOK, PC, WithPermit
    <3> QED BY <2>1, <3>1, <3>2, <3>3 DEF StoreInv, TypeOK
  <2>7. LedgerChain'
    <3> SUFFICES ASSUME NEW x \in Stories, db'[x] # NoStory
                 PROVE  /\ db'[x].revision = Len(db'[x].turns)
                        /\ db'[x].last_turn_number = Len(db'[x].turns)
                        /\ \A i \in DOMAIN db'[x].turns :
                              /\ db'[x].turns[i].turn_number = i
                              /\ db'[x].turns[i].base_revision = i - 1
                              /\ db'[x].turns[i].committed_revision = i
                              /\ db'[x].turns[i].sequence = i + 1
      BY DEF LedgerChain
    <3>1. CASE x # s
      BY <2>5a, <3>1 DEF StoreInv, LedgerChain
    <3>2. CASE x = s
      <4>1. \A i \in 1..Len(turns) : /\ turns[i].turn_number = i /\ turns[i].base_revision = i - 1
                                     /\ turns[i].committed_revision = i /\ turns[i].sequence = i + 1
        BY <2>1, <2>3, NoStoryAssumption DEF StoreInv, LedgerChain, turns
      <4>2. /\ TurnRow(a).turn_number = Len(turns) + 1
            /\ TurnRow(a).base_revision = Len(turns)
            /\ TurnRow(a).committed_revision = Len(turns) + 1
            /\ TurnRow(a).sequence = Len(turns) + 2
        BY <2>1, <2>5 DEF TurnRow, s
      <4>3. \A i \in 1..(Len(turns) + 1) : i \in 1..Len(turns) \/ i = Len(turns) + 1
        BY <2>2
      <4>4. \A i \in 1..(Len(turns) + 1) :
                 LET row == Append(turns, TurnRow(a))[i] IN
                 /\ row.turn_number = i /\ row.base_revision = i - 1
                 /\ row.committed_revision = i /\ row.sequence = i + 1
        BY <2>2, <2>3, <4>1, <4>2, <4>3
      <4> QED BY <2>3, <2>4, <2>5a, <3>2, <4>4
    <3> QED BY <3>1, <3>2
  <2>8. OneTurnPerKey'
    <3> SUFFICES ASSUME NEW x \in Stories, NEW i \in DOMAIN Rows(x)', NEW j \in DOMAIN Rows(x)',
                        Rows(x)'[i].key = Rows(x)'[j].key
                 PROVE  i = j
      BY DEF OneTurnPerKey
    <3>1. CASE x # s
      <4>1. Rows(x)' = Rows(x)
        BY <2>5a, <3>1 DEF Rows
      <4> QED BY <4>1 DEF StoreInv, OneTurnPerKey
    <3>2. CASE x = s
      <4>1. Rows(x)' = Append(turns, TurnRow(a))
        BY <2>4, <2>5a, <3>2 DEF Rows
      <4>2. \A k \in 1..Len(turns) : turns[k].key # TurnRow(a).key
        BY <2>1, <2>3, <2>5 DEF RowsOfKey, TurnRow, s
      <4>3. \A k, l \in 1..Len(turns) : turns[k].key = turns[l].key => k = l
        BY <2>1, <2>3, <2>5 DEF StoreInv, OneTurnPerKey
      <4>4. \A k \in 1..(Len(turns) + 1) : k \in 1..Len(turns) \/ k = Len(turns) + 1
        BY <2>2
      <4> QED BY <2>3, <4>1, <4>2, <4>3, <4>4
    <3> QED BY <3>1, <3>2
  <2>9. TxInv'
    <3> SUFFICES ASSUME NEW b \in Attempts
                 PROVE  /\ pc'[b] \in WithPermit \ {"loading", "finishing"} => db'[Story(b)] # NoStory
                        /\ pc'[b] \in {"writing", "committing"} => mark[b] <= version /\ mark[b] # version + 1
                        /\ pc'[b] # "committing"
      BY <2>1 DEF TxInv, Story, StoreInv, TypeOK
    <3>1. pc'[b] # "committing"
      <4>1. writer = a /\ (pc[b] = "committing" => writer = b)
        BY <1>3 DEF StoreInv, TxInv, Commit
      <4> QED BY <2>1, <4>1 DEF StoreInv, TypeOK
    <3>2. b # a => pc'[b] = pc[b]
      BY <2>1 DEF StoreInv, TypeOK
    <3>3. pc'[a] = "finishing"
      BY <2>1 DEF StoreInv, TypeOK
    <3>4. pc[b] \in WithPermit \ {"loading", "finishing"} => db'[Story(b)] # NoStory
      BY <1>0, <2>5a DEF StoreInv, TxInv
    <3>5. pc[b] \in {"writing", "committing"} => mark[b] <= version /\ mark[b] # version + 1
      BY DEF StoreInv, TypeOK, TxInv
    <3> QED BY <3>1, <3>2, <3>3, <3>4, <3>5
  <2> QED BY <2>6, <2>7, <2>8, <2>9 DEF StoreInv
<1>4. ASSUME Crash PROVE StoreInv'
  <2>1. TypeOK'
    BY <1>4, CrashesAssumption DEF Crash, StoreInv, TypeOK, PC
  <2>2. LedgerChain' /\ OneTurnPerKey'
    BY <1>4 DEF Crash, StoreInv, LedgerChain, OneTurnPerKey, Rows
  <2>3. TxInv'
    BY <1>4 DEF Crash, TxInv, WithPermit, StoreInv, TypeOK
  <2> QED BY <2>1, <2>2, <2>3 DEF StoreInv
<1>5. CASE UNCHANGED vars
  <2>1. TypeOK'
    BY <1>5 DEF vars, StoreInv, TypeOK
  <2>2. LedgerChain' /\ OneTurnPerKey'
    BY <1>5 DEF vars, StoreInv, LedgerChain, OneTurnPerKey, Rows
  <2>3. \A a \in Attempts : Story(a)' = Story(a) /\ (Fresh(a) => Fresh(a)')
    BY <1>5 DEF vars, Fresh, RowsOfKey, Rows, Story
  <2>4. TxInv'
    BY <1>5, <2>3 DEF vars, StoreInv, TxInv
  <2> QED BY <2>1, <2>2, <2>4 DEF StoreInv
<1> QED BY <1>1, <1>2, <1>3, <1>4, <1>5 DEF Next, Step, Reads

\* Every reachable state is well formed, and the write lock is never kept by
\* an attempt that failed or crashed.
LEMMA TurnCommitTypes == Spec => []TypeOK
<1>1. StoreInv => TypeOK
  BY DEF StoreInv
<1> QED BY <1>1, StoreInit, StoreStep, PTL DEF Spec

\* Even without mutual exclusion between the turns of a story, the committed
\* turns of every story form an unbroken chain of revisions.
THEOREM TurnCommitChain == Spec => []LedgerChain
<1>1. StoreInv => LedgerChain
  BY DEF StoreInv
<1> QED BY <1>1, StoreInit, StoreStep, PTL DEF Spec

\* However attempts overlap, retry or crash, an idempotency key is applied to
\* a story at most once.
THEOREM TurnCommitIdempotent == Spec => []OneTurnPerKey
<1>1. StoreInv => OneTurnPerKey
  BY DEF StoreInv
<1> QED BY <1>1, StoreInit, StoreStep, PTL DEF Spec

-----------------------------------------------------------------------------
(* Answers *)

\* An outcome is fixed when the attempt reaches finalize; only a success
\* carries a result; the author of a row was told so, or died before it was.
OutcomeInv ==
    /\ \A a \in Attempts :
          /\ pc[a] \notin {"finishing", "done", "lost"} => outcome[a] = Unanswered
          /\ outcome[a].kind # "committed" => outcome[a].result = NoAnswer
    /\ \A s \in Stories : \A i \in DOMAIN Rows(s) :
          outcome[Rows(s)[i].result.story_text].kind = "committed"

AnswerInv == OutcomeInv /\ AnswersFaithful

LEMMA AnswerInit == Init => AnswerInv
BY DEF Init, AnswerInv, OutcomeInv, AnswersFaithful, Unanswered, Rows

\* Rows are only added: what an answered attempt refers to stays.
LEMMA RowsGrow ==
    ASSUME StoreInv, [Next]_vars, NEW s \in Stories
    PROVE  /\ DOMAIN Rows(s) \subseteq DOMAIN Rows(s)'
           /\ \A i \in DOMAIN Rows(s) : Rows(s)'[i] = Rows(s)[i]
<1>1. CASE UNCHANGED db
  BY <1>1 DEF Rows
<1>2. ASSUME NEW x \in Stories, CreateStory(x)
      PROVE  /\ DOMAIN Rows(s) \subseteq DOMAIN Rows(s)'
             /\ \A i \in DOMAIN Rows(s) : Rows(s)'[i] = Rows(s)[i]
  <2>1. CASE x = s
    BY <1>2, <2>1 DEF CreateStory, Rows
  <2>2. CASE x # s
    BY <1>2, <2>2 DEF CreateStory, Rows, StoreInv, TypeOK
  <2> QED BY <2>1, <2>2
<1>3. ASSUME NEW a \in Attempts, Commit(a)
      PROVE  /\ DOMAIN Rows(s) \subseteq DOMAIN Rows(s)'
             /\ \A i \in DOMAIN Rows(s) : Rows(s)'[i] = Rows(s)[i]
  <2>1. /\ Story(a) \in Stories /\ db[Story(a)] \in StoryRows /\ TurnRow(a) \in TurnRows
        /\ db' = [db EXCEPT ![Story(a)] =
                     [revision |-> base[a] + 1, last_turn_number |-> number[a],
                      turns |-> Append(db[Story(a)].turns, TurnRow(a))]]
    BY <1>3, CommitEffect
  <2>2. CASE s # Story(a)
    BY <2>1, <2>2 DEF Rows, StoreInv, TypeOK
  <2>3. CASE s = Story(a)
    <3>1. db[s].turns \in Seq(TurnRows) /\ Rows(s) = db[s].turns
      BY <2>1, <2>3, NoStoryAssumption DEF Rows, StoryRows
    <3>2. [revision |-> base[a] + 1, last_turn_number |-> number[a],
           turns |-> Append(db[s].turns, TurnRow(a))] \in StoryRows
      BY <2>1, <3>1 DEF StoryRows, StoreInv, TypeOK
    <3>3. Rows(s)' = Append(db[s].turns, TurnRow(a))
      BY <2>1, <2>3, <3>2, NoStoryAssumption DEF Rows, StoreInv, TypeOK
    <3> QED BY <2>1, <3>1, <3>3, AppendRow
  <2> QED BY <2>2, <2>3
<1>4. UNCHANGED db \/ (\E x \in Stories : CreateStory(x)) \/ (\E a \in Attempts : Commit(a))
  BY DEF Next, vars, Step, Submit, Acquire, AcquireFails, GetStory, FindCommittedTurn,
         LoadStorySnapshot, BeginCommit, TakeWriteLock, Fails, Finalize, Crash
<1> QED BY <1>1, <1>2, <1>3, <1>4

\* A step of one attempt that does not change the rows gives that attempt an
\* outcome only at its end, and a truthful one.
LEMMA ReadsAnswer ==
    ASSUME StoreInv, AnswerInv, NEW a \in Attempts, Reads(a)
    PROVE  /\ \A b \in Attempts \ {a} : outcome'[b] = outcome[b] /\ pc'[b] = pc[b]
           /\ pc'[a] \notin {"finishing", "done", "lost"} => outcome'[a] = Unanswered
           /\ outcome'[a].kind # "committed" => outcome'[a].result = NoAnswer
           /\ outcome[a].kind = "committed" => outcome'[a].kind = "committed"
           /\ outcome'[a] # outcome[a] =>
                 \/ outcome'[a].kind \notin {"committed", "idempotency_conflict"}
                 \/ \E i \in RowsOfKey(a) : outcome'[a] = Replay(a, i)
<1> USE DEF StoreInv, TypeOK, Goto, Finish, Refusal
<1>1. CASE Submit(a) \/ Acquire(a)
  BY <1>1 DEF Submit, Acquire, AnswerInv, OutcomeInv
<1>2. CASE Finalize(a)
  BY <1>2 DEF Finalize, AnswerInv, OutcomeInv
<1>3. CASE AcquireFails(a)
  BY <1>3 DEF AcquireFails, AnswerInv, OutcomeInv, Unanswered
<1>4. CASE GetStory(a)
  BY <1>4 DEF GetStory, AnswerInv, OutcomeInv, Unanswered
<1>5. CASE FindCommittedTurn(a)
  <2>1. outcome[a] = Unanswered
    BY <1>5 DEF FindCommittedTurn, AnswerInv, OutcomeInv
  <2>2. CASE \E i \in RowsOfKey(a) : Finish(a, Replay(a, i))
    <3>1. PICK i \in RowsOfKey(a) : Finish(a, Replay(a, i))
      BY <2>2
    <3>2. pc'[a] = "finishing" /\ outcome'[a] = Replay(a, i)
          /\ \A b \in Attempts \ {a} : outcome'[b] = outcome[b] /\ pc'[b] = pc[b]
      BY <3>1
    <3>3. Replay(a, i).kind # "committed" => Replay(a, i).result = NoAnswer
      BY ReplayKind
    <3> QED BY <2>1, <3>2, <3>3 DEF Unanswered
  <2>3. CASE Goto(a, "running") /\ UNCHANGED outcome
    BY <2>1, <2>3 DEF Unanswered
  <2> QED BY <1>5, <2>2, <2>3 DEF FindCommittedTurn
<1>6. CASE LoadStorySnapshot(a)
  BY <1>6 DEF LoadStorySnapshot, AnswerInv, OutcomeInv, Unanswered
<1>7. CASE BeginCommit(a)
  <2>1. outcome[a] = Unanswered
    BY <1>7 DEF BeginCommit, AnswerInv, OutcomeInv
  <2>2. CASE \E i \in RowsOfKey(a) : Finish(a, Replay(a, i))
    <3>1. PICK i \in RowsOfKey(a) : Finish(a, Replay(a, i))
      BY <2>2
    <3>2. pc'[a] = "finishing" /\ outcome'[a] = Replay(a, i)
          /\ \A b \in Attempts \ {a} : outcome'[b] = outcome[b] /\ pc'[b] = pc[b]
      BY <3>1
    <3>3. Replay(a, i).kind # "committed" => Replay(a, i).result = NoAnswer
      BY ReplayKind
    <3> QED BY <2>1, <3>2, <3>3 DEF Unanswered
  <2>3. CASE Finish(a, Refusal("revision_conflict"))
    BY <2>1, <2>3 DEF Unanswered
  <2>4. CASE Goto(a, "writing") /\ UNCHANGED outcome
    BY <2>1, <2>4 DEF Unanswered
  <2> QED BY <1>7, <2>2, <2>3, <2>4 DEF BeginCommit
<1>8. CASE TakeWriteLock(a)
  BY <1>8 DEF TakeWriteLock, AnswerInv, OutcomeInv, Unanswered
<1>9. CASE Fails(a)
  BY <1>9 DEF Fails, AnswerInv, OutcomeInv, Unanswered, WithPermit
<1> QED BY <1>1, <1>2, <1>3, <1>4, <1>5, <1>6, <1>7, <1>8, <1>9 DEF Reads

\* AnswersFaithful for one attempt.
Faithful(b) ==
    /\ outcome[b].kind = "committed" =>
          \E i \in RowsOfKey(b) : /\ Rows(Story(b))[i].digest = request[b].digest
                                  /\ Rows(Story(b))[i].result = outcome[b].result
    /\ outcome[b].kind = "idempotency_conflict" =>
          \E i \in RowsOfKey(b) : Rows(Story(b))[i].digest # request[b].digest

LEMMA FaithfulAll == (\A b \in Attempts : Faithful(b)) <=> AnswersFaithful
BY DEF Faithful, AnswersFaithful

\* Answers given stay true when rows are added.
LEMMA FaithfulStays ==
    ASSUME StoreInv, AnswerInv, [Next]_vars, NEW b \in Attempts, outcome'[b] = outcome[b]
    PROVE  Faithful(b)'
<1>1. Story(b) \in Stories
  BY RequestsAssumption DEF StoreInv, TypeOK, Story
<1>2. request' = request
  BY DEF Next, vars, Step, CreateStory, Submit, Acquire, AcquireFails, GetStory, FindCommittedTurn,
         LoadStorySnapshot, BeginCommit, TakeWriteLock, Commit, Fails, Finalize, Crash
<1>3. Faithful(b)
  BY FaithfulAll DEF AnswerInv
<1>s. PICK s \in Stories : s = request[b].story
  BY <1>1 DEF Story
<1> DEFINE old == Rows(s)
           new == Rows(s)'
           key == request[b].key
<1>4. DOMAIN old \subseteq DOMAIN new /\ \A i \in DOMAIN old : new[i] = old[i]
  BY RowsGrow
<1>5. Faithful(b) <=>
         /\ outcome[b].kind = "committed" =>
               \E i \in DOMAIN old : /\ old[i].key = key
                                     /\ old[i].digest = request[b].digest
                                     /\ old[i].result = outcome[b].result
         /\ outcome[b].kind = "idempotency_conflict" =>
               \E i \in DOMAIN old : old[i].key = key /\ old[i].digest # request[b].digest
  BY <1>s DEF Faithful, RowsOfKey, Story
<1>6. Faithful(b)' <=>
         /\ outcome[b].kind = "committed" =>
               \E i \in DOMAIN new : /\ new[i].key = key
                                     /\ new[i].digest = request[b].digest
                                     /\ new[i].result = outcome[b].result
         /\ outcome[b].kind = "idempotency_conflict" =>
               \E i \in DOMAIN new : new[i].key = key /\ new[i].digest # request[b].digest
  BY <1>2, <1>s DEF Faithful, RowsOfKey, Story, Rows
<1> HIDE DEF old, new, key
<1> QED BY <1>3, <1>4, <1>5, <1>6

LEMMA FaithfulAllNext == (\A b \in Attempts : Faithful(b)') => AnswersFaithful'
BY DEF Faithful, AnswersFaithful, RowsOfKey, Rows, Story

LEMMA AnswerStep == StoreInv /\ StoreInv' /\ AnswerInv /\ [Next]_vars => AnswerInv'
<1> SUFFICES ASSUME StoreInv, StoreInv', AnswerInv, [Next]_vars PROVE AnswerInv'
  OBVIOUS
<1>0. \A a \in Attempts : Story(a) \in Stories
  BY RequestsAssumption DEF StoreInv, TypeOK, Story
<1>a. \A s \in Stories : \A i \in DOMAIN Rows(s) : Rows(s)[i].result.story_text \in Attempts
  <2> TAKE s \in Stories
  <2>1. Rows(s) \in Seq(TurnRows)
    BY DEF StoreInv, TypeOK, Rows, StoryRows
  <2>2. ASSUME NEW i \in DOMAIN Rows(s) PROVE Rows(s)[i] \in TurnRows
    BY <2>1, <2>2
  <2> QED BY <2>2 DEF TurnRows, Results
<1>1. ASSUME NEW a \in Attempts, Reads(a) PROVE AnswerInv'
  <2>1. UNCHANGED <<db, request>>
    BY <1>1 DEF Reads, Submit, Acquire, AcquireFails, GetStory, FindCommittedTurn,
                LoadStorySnapshot, BeginCommit, TakeWriteLock, Fails, Finalize
  <2>2. /\ \A b \in Attempts \ {a} : outcome'[b] = outcome[b] /\ pc'[b] = pc[b]
        /\ pc'[a] \notin {"finishing", "done", "lost"} => outcome'[a] = Unanswered
        /\ outcome'[a].kind # "committed" => outcome'[a].result = NoAnswer
        /\ outcome[a].kind = "committed" => outcome'[a].kind = "committed"
        /\ outcome'[a] # outcome[a] =>
              \/ outcome'[a].kind \notin {"committed", "idempotency_conflict"}
              \/ \E i \in RowsOfKey(a) : outcome'[a] = Replay(a, i)
    BY <1>1, ReadsAnswer
  <2>3. \A s \in Stories : Rows(s)' = Rows(s)
    BY <2>1 DEF Rows
  <2>4. OutcomeInv'
    BY <1>a, <2>2, <2>3 DEF AnswerInv, OutcomeInv
  <2>5. AnswersFaithful'
    <3> SUFFICES ASSUME NEW b \in Attempts PROVE Faithful(b)'
      BY FaithfulAllNext
    <3>1. CASE outcome'[b] = outcome[b]
      BY <3>1, FaithfulStays
    <3>2. CASE outcome'[b] # outcome[b]
      <4>1. b = a
        BY <2>2, <3>2
      <4>2. CASE outcome'[a].kind \notin {"committed", "idempotency_conflict"}
        BY <4>1, <4>2 DEF Faithful
      <4>3. CASE \E i \in RowsOfKey(a) : outcome'[a] = Replay(a, i)
        <5>1. PICK i \in RowsOfKey(a) : outcome'[a] = Replay(a, i)
          BY <4>3
        <5>2. PICK rows : rows = Rows(Story(a))
          OBVIOUS
        <5>3. i \in DOMAIN rows /\ rows[i].key = request[a].key
          BY <5>2 DEF RowsOfKey
        <5>4. outcome'[a] = IF rows[i].digest = request[a].digest
                            THEN Success(rows[i].result) ELSE Refusal("idempotency_conflict")
          BY <5>1, <5>2 DEF Replay
        <5>5. Faithful(a)' <=>
                 /\ outcome'[a].kind = "committed" =>
                       \E j \in DOMAIN rows : /\ rows[j].key = request[a].key
                                              /\ rows[j].digest = request[a].digest
                                              /\ rows[j].result = outcome'[a].result
                 /\ outcome'[a].kind = "idempotency_conflict" =>
                       \E j \in DOMAIN rows : /\ rows[j].key = request[a].key
                                              /\ rows[j].digest # request[a].digest
          BY <2>1, <5>2 DEF Faithful, RowsOfKey, Rows, Story
        <5> QED BY <4>1, <5>3, <5>4, <5>5 DEF Success, Refusal
      <4> QED BY <2>2, <3>2, <4>1, <4>2, <4>3
    <3> QED BY <3>1, <3>2
  <2> QED BY <2>4, <2>5 DEF AnswerInv
<1>2. ASSUME NEW s \in Stories, CreateStory(s) PROVE AnswerInv'
  <2>1. UNCHANGED <<pc, outcome>>
    BY <1>2 DEF CreateStory
  <2>2. \A x \in Stories : Rows(x)' = Rows(x)
    BY <1>2, NoStoryAssumption DEF CreateStory, Rows, NewStory, StoreInv, TypeOK
  <2>3. OutcomeInv'
    BY <2>1, <2>2 DEF AnswerInv, OutcomeInv
  <2>4. AnswersFaithful'
    BY <2>1, FaithfulStays, FaithfulAllNext
  <2> QED BY <2>3, <2>4 DEF AnswerInv
<1>3. ASSUME NEW a \in Attempts, Commit(a) PROVE AnswerInv'
  <2>s. PICK s \in Stories : s = Story(a)
    BY <1>0
  <2> DEFINE turns == db[s].turns
             row == TurnRow(a)
             result == CommittedResult(a)
  <2>1. /\ s \in Stories /\ db[s] \in StoryRows /\ row \in TurnRows
        /\ db' = [db EXCEPT ![s] = [revision |-> base[a] + 1, last_turn_number |-> number[a],
                                    turns |-> Append(turns, row)]]
        /\ pc' = [pc EXCEPT ![a] = "finishing"]
        /\ outcome' = [outcome EXCEPT ![a] = Success(result)]
        /\ UNCHANGED <<request, number, base, mark, crashes>>
    BY <1>3, <2>s, CommitEffect
  <2>2. row.result = result /\ row.key = request[a].key /\ row.digest = request[a].digest
        /\ result.story_text = a
    BY DEF TurnRow, CommittedResult
  <2>3. turns \in Seq(TurnRows) /\ Rows(s) = turns
    BY <2>1, NoStoryAssumption DEF StoryRows, Rows
  <2>4. db'[s] # NoStory /\ db'[s].turns = Append(turns, row)
    <3>1. [revision |-> base[a] + 1, last_turn_number |-> number[a],
           turns |-> Append(turns, row)] \in StoryRows
      <4>1. Append(turns, row) \in Seq(TurnRows) /\ base[a] + 1 \in Nat /\ number[a] \in Nat
        BY <2>1, <2>3, AppendRow DEF StoreInv, TypeOK
      <4> QED BY <4>1 DEF StoryRows
    <3> QED BY <2>1, <3>1, NoStoryAssumption DEF StoreInv, TypeOK
  <2> HIDE DEF turns, row, result
  <2>5. Rows(s)' = Append(turns, row) /\ \A x \in Stories \ {s} : Rows(x)' = Rows(x)
    BY <2>1, <2>4 DEF Rows, StoreInv, TypeOK
  <2>6. /\ DOMAIN turns = 1..Len(turns) /\ DOMAIN Append(turns, row) = 1..(Len(turns) + 1)
        /\ \A i \in 1..Len(turns) : Append(turns, row)[i] = turns[i]
        /\ Append(turns, row)[Len(turns) + 1] = row
        /\ Len(turns) \in Nat
    BY <2>1, <2>3, AppendRow
  <2>7. /\ outcome'[a] = Success(result) /\ pc'[a] = "finishing"
        /\ \A b \in Attempts \ {a} : outcome'[b] = outcome[b] /\ pc'[b] = pc[b]
    BY <2>1 DEF StoreInv, TypeOK
  <2>8. OutcomeInv'
    <3>1. \A b \in Attempts :
              /\ pc'[b] \notin {"finishing", "done", "lost"} => outcome'[b] = Unanswered
              /\ outcome'[b].kind # "committed" => outcome'[b].result = NoAnswer
      BY <2>7 DEF AnswerInv, OutcomeInv, Success
    <3>2. ASSUME NEW x \in Stories, NEW i \in DOMAIN Rows(x)'
          PROVE  outcome'[Rows(x)'[i].result.story_text].kind = "committed"
      <4>0. \A y \in Stories : \A j \in DOMAIN Rows(y) :
                 outcome'[Rows(y)[j].result.story_text].kind = "committed"
        BY <1>a, <2>7 DEF AnswerInv, OutcomeInv, Success
      <4>1. CASE x # s
        BY <2>5, <3>2, <4>0, <4>1
      <4>2. CASE x = s
        <5>1. i \in 1..Len(turns) \/ i = Len(turns) + 1
          BY <2>5, <2>6, <3>2, <4>2
        <5>2. CASE i \in 1..Len(turns)
          <6>1. Rows(x)'[i] = Rows(s)[i] /\ i \in DOMAIN Rows(s)
            BY <2>3, <2>5, <2>6, <4>2, <5>2
          <6> QED BY <4>0, <6>1
        <5>3. CASE i = Len(turns) + 1
          <6>1. Rows(x)'[i] = row
            BY <2>5, <2>6, <4>2, <5>3
          <6> QED BY <2>2, <2>7, <6>1 DEF Success
        <5> QED BY <5>1, <5>2, <5>3
      <4> QED BY <4>1, <4>2
    <3> QED BY <3>1, <3>2 DEF OutcomeInv
  <2>9. AnswersFaithful'
    <3> SUFFICES ASSUME NEW b \in Attempts PROVE Faithful(b)'
      BY FaithfulAllNext
    <3>1. CASE b # a
      BY <2>7, <3>1, FaithfulStays
    <3>2. CASE b = a
      <4>1. db'[s] # NoStory /\ db'[s].turns[Len(turns) + 1] = row /\ Len(turns) + 1 \in DOMAIN db'[s].turns
        BY <2>4, <2>6
      <4>2. request' = request /\ request[a].story = s
        BY <2>1, <2>s DEF Story
      <4> QED BY <2>2, <2>7, <3>2, <4>1, <4>2 DEF Faithful, RowsOfKey, Rows, Story, Success
    <3> QED BY <3>1, <3>2
  <2> QED BY <2>8, <2>9 DEF AnswerInv
<1>4. ASSUME Crash \/ UNCHANGED vars PROVE AnswerInv'
  <2>1. UNCHANGED <<db, outcome>>
    BY <1>4 DEF Crash, vars
  <2>2. \A b \in Attempts : pc'[b] = pc[b] \/ pc'[b] = "lost"
    BY <1>4 DEF Crash, vars, StoreInv, TypeOK
  <2>3. OutcomeInv'
    BY <2>1, <2>2 DEF AnswerInv, OutcomeInv, Rows
  <2>4. AnswersFaithful'
    BY <2>1, FaithfulStays, FaithfulAllNext
  <2> QED BY <2>3, <2>4 DEF AnswerInv
<1> QED BY <1>1, <1>2, <1>3, <1>4 DEF Next, Step, Reads

\* Whatever interleaves, a "committed" answer is the stored result of the
\* caller's own request, and an idempotency conflict is a real one.
THEOREM TurnCommitAnswers == Spec => []AnswersFaithful
<1>1. AnswerInv => AnswersFaithful
  BY DEF AnswerInv
<1> QED BY <1>1, StoreInit, StoreStep, AnswerInit, AnswerStep, PTL DEF Spec

\* An attempt that was refused has left no turn behind.
THEOREM TurnCommitRefusals == Spec => []RefusedNotCommitted
<1>1. StoreInv /\ AnswerInv => RefusedNotCommitted
  <2> SUFFICES ASSUME StoreInv, AnswerInv, NEW a \in Attempts, NEW i \in DOMAIN Rows(Story(a)),
                      outcome[a].kind \notin {"none", "committed"},
                      Rows(Story(a))[i].result.story_text = a
               PROVE  FALSE
    BY DEF RefusedNotCommitted
  <2>1. Story(a) \in Stories
    BY RequestsAssumption DEF StoreInv, TypeOK, Story
  <2> QED BY <2>1 DEF AnswerInv, OutcomeInv
<1> QED BY <1>1, StoreInit, StoreStep, AnswerInit, AnswerStep, PTL DEF Spec

\* Whatever interleaves, fails or crashes, every answer agrees with the ledger.
THEOREM TurnCommitTruthful == Spec => []AnswersTruthful
<1>1. AnswersFaithful /\ RefusedNotCommitted => AnswersTruthful
  BY DEF AnswersTruthful
<1> QED BY <1>1, TurnCommitAnswers, TurnCommitRefusals, PTL

-----------------------------------------------------------------------------
(* The refinement of StoryLedger. *)

Entry(row) == [key |-> row.key, digest |-> row.digest, result |-> row.result]
Entries == {Entry(row) : row \in TurnRows}
View(turns) == [i \in DOMAIN turns |-> Entry(turns[i])]

LEMMA ViewEmpty == View(<< >>) = << >>
BY DEF View

LEMMA ViewSeq ==
    ASSUME NEW turns \in Seq(TurnRows)
    PROVE  /\ View(turns) \in Seq(Entries)
           /\ Len(View(turns)) = Len(turns)
           /\ DOMAIN View(turns) = DOMAIN turns
<1>1. \A i \in 1..Len(turns) : Entry(turns[i]) \in Entries
  BY DEF Entries
<1>2. View(turns) = [i \in 1..Len(turns) |-> Entry(turns[i])]
  BY DEF View
<1> QED BY <1>1, <1>2

LEMMA AppendEntry ==
    ASSUME NEW S, NEW v \in Seq(S), NEW e \in S
    PROVE  /\ Append(v, e) \in Seq(S)
           /\ Len(Append(v, e)) = Len(v) + 1
           /\ \A i \in 1..Len(v) : Append(v, e)[i] = v[i]
           /\ Append(v, e)[Len(v) + 1] = e
OBVIOUS

\* The view of a longer table is the longer ledger.
LEMMA ViewAppend ==
    ASSUME NEW turns \in Seq(TurnRows), NEW row \in TurnRows
    PROVE  View(Append(turns, row)) = Append(View(turns), Entry(row))
<1> DEFINE new == Append(turns, row)
           n == Len(turns)
<1>1. /\ n \in Nat /\ DOMAIN turns = 1..n /\ DOMAIN new = 1..(n + 1)
      /\ new[n + 1] = row /\ \A i \in 1..n : new[i] = turns[i]
  BY AppendRow
<1>2. View(turns) \in Seq(Entries) /\ Len(View(turns)) = n /\ Entry(row) \in Entries
  BY ViewSeq DEF Entries
<1>3. /\ View(new) \in Seq(Entries) /\ Len(View(new)) = n + 1
      /\ \A i \in 1..(n + 1) : View(new)[i] = Entry(new[i])
  BY <1>1, ViewSeq, AppendRow DEF View
<1> DEFINE v == View(turns)
           longer == Append(v, Entry(row))
<1> HIDE DEF v
<1>4. v \in Seq(Entries) /\ Len(v) = n /\ \A i \in 1..n : v[i] = Entry(turns[i])
  BY <1>1, <1>2 DEF v, View
<1>5. /\ longer \in Seq(Entries) /\ Len(longer) = n + 1
      /\ longer[n + 1] = Entry(row) /\ \A i \in 1..n : longer[i] = v[i]
  BY <1>2, <1>4, AppendEntry
<1> HIDE DEF new, n, longer
<1>6. \A i \in 1..(n + 1) : View(new)[i] = longer[i]
  <2> TAKE i \in 1..(n + 1)
  <2>1. CASE i = n + 1
    BY <1>1, <1>3, <1>5, <2>1
  <2>2. CASE i # n + 1
    <3>1. i \in 1..n
      BY <1>1, <2>2
    <3> QED BY <1>1, <1>3, <1>4, <1>5, <3>1
  <2> QED BY <2>1, <2>2
<1>7. View(new) = longer
  <2>1. longer = [i \in 1..(n + 1) |-> longer[i]]
    BY <1>5
  <2>2. View(new) = [i \in 1..(n + 1) |-> View(new)[i]]
    BY <1>1 DEF View
  <2> QED BY <1>6, <2>1, <2>2
<1> QED BY <1>7 DEF new, longer, v

LEMMA LedgerViewIs == LedgerView = [s \in Stories |-> View(Rows(s))]
BY DEF LedgerView, View, Entry

LEMMA LedgerInit == Init => Ledger!Init
<1> SUFFICES ASSUME Init PROVE Ledger!Init
  OBVIOUS
<1>1. \A s \in Stories : View(Rows(s)) = << >>
  BY ViewEmpty DEF Init, Rows
<1>2. LedgerView = [s \in Stories |-> << >>]
  BY <1>1, LedgerViewIs
<1>3. AnswerView = [a \in Attempts |-> NoAnswer]
  BY DEF Init, AnswerView
<1> QED BY <1>2, <1>3, WorkloadsAssumption DEF Init, Ledger!Init

LEMMA LedgerStep ==
    StoreInv /\ AnswerInv /\ [Next]_vars => [Ledger!Next]_(Ledger!vars)
<1> SUFFICES ASSUME StoreInv, AnswerInv, [Next]_vars PROVE [Ledger!Next]_(Ledger!vars)
  OBVIOUS
<1>0. \A a \in Attempts : Story(a) \in Stories
  BY RequestsAssumption DEF StoreInv, TypeOK, Story
<1>r. \A s \in Stories : Rows(s) \in Seq(TurnRows)
  BY DEF StoreInv, TypeOK, Rows, StoryRows
<1>1. ASSUME UNCHANGED <<request>>, \A s \in Stories : Rows(s)' = Rows(s),
             \A a \in Attempts : AnswerView'[a] = AnswerView[a]
      PROVE  UNCHANGED Ledger!vars
  <2>1. LedgerView' = LedgerView
    BY <1>1, LedgerViewIs DEF LedgerView
  <2>2. AnswerView' = AnswerView
    BY <1>1 DEF AnswerView
  <2> QED BY <1>1, <2>1, <2>2 DEF Ledger!vars
<1>2. ASSUME NEW s \in Stories, CreateStory(s) PROVE UNCHANGED Ledger!vars
  <2>1. \A x \in Stories : Rows(x)' = Rows(x)
    BY <1>2, NoStoryAssumption DEF CreateStory, Rows, NewStory, StoreInv, TypeOK
  <2>2. \A a \in Attempts : AnswerView'[a] = AnswerView[a]
    BY <1>2 DEF CreateStory, AnswerView
  <2> QED BY <1>1, <1>2, <2>1, <2>2 DEF CreateStory
<1>3. ASSUME NEW a \in Attempts, Commit(a) PROVE Ledger!Commit(a)
  <2>s. PICK s \in Stories : s = Story(a)
    BY <1>0
  <2> DEFINE turns == db[s].turns
             row == TurnRow(a)
  <2>1. /\ db[s] \in StoryRows /\ row \in TurnRows
        /\ number[a] = Len(turns) + 1 /\ base[a] = Len(turns) /\ RowsOfKey(a) = {}
        /\ db' = [db EXCEPT ![s] = [revision |-> base[a] + 1, last_turn_number |-> number[a],
                                    turns |-> Append(turns, row)]]
        /\ pc' = [pc EXCEPT ![a] = "finishing"]
        /\ outcome' = [outcome EXCEPT ![a] = Success(CommittedResult(a))]
        /\ pc[a] = "committing"
        /\ request' = request
    BY <1>3, <2>s, CommitEffect DEF Commit
  <2>2. turns \in Seq(TurnRows) /\ Rows(s) = turns
    BY <2>1, NoStoryAssumption DEF StoryRows, Rows
  <2>3. Entry(row) = [key |-> request[a].key, digest |-> request[a].digest,
                      result |-> [turn_number |-> Len(turns) + 1,
                                  story_revision |-> Len(turns) + 1, story_text |-> a]]
    BY <2>1 DEF Entry, TurnRow, CommittedResult
  <2> HIDE DEF turns, row
  <2>4. db'[s].turns = Append(turns, row) /\ db'[s] # NoStory
    <3>1. Append(turns, row) \in Seq(TurnRows)
      BY <2>1, <2>2
    <3>2. [revision |-> base[a] + 1, last_turn_number |-> number[a],
           turns |-> Append(turns, row)] \in StoryRows
      BY <2>1, <3>1 DEF StoryRows, StoreInv, TypeOK
    <3> QED BY <2>1, <3>2, NoStoryAssumption DEF StoreInv, TypeOK
  <2>5. Rows(s)' = Append(turns, row) /\ \A x \in Stories \ {s} : Rows(x)' = Rows(x)
    BY <2>1, <2>4 DEF Rows, StoreInv, TypeOK
  <2>6. View(Append(turns, row)) = Append(View(turns), Entry(row))
    BY <2>1, <2>2, ViewAppend
  <2>7. LedgerView' = [LedgerView EXCEPT ![s] = Append(@, Entry(row))]
    <3>1. LedgerView' = [x \in Stories |-> View(Rows(x)')]
      BY DEF LedgerView, View, Entry
    <3> QED BY <2>2, <2>5, <2>6, <3>1, LedgerViewIs
  <2>8. AnswerView' = AnswerView
    BY <2>1 DEF AnswerView, StoreInv, TypeOK
  <2>9. LedgerView[s] = View(turns) /\ Len(LedgerView[s]) = Len(turns)
        /\ DOMAIN LedgerView[s] = DOMAIN turns
        /\ \A i \in DOMAIN turns : LedgerView[s][i].key = turns[i].key
    BY <2>2, LedgerViewIs, ViewSeq DEF View, Entry
  <2>10. \A i \in DOMAIN turns : turns[i].key # request[a].key
    BY <2>1, <2>2, <2>s DEF RowsOfKey
  <2> QED BY <2>s, <2>1, <2>3, <2>7, <2>8, <2>9, <2>10 DEF Ledger!Commit, Story
<1>4. ASSUME NEW a \in Attempts, Reads(a), ~Finalize(a) PROVE UNCHANGED Ledger!vars
  <2>1. UNCHANGED <<db, request>>
    BY <1>4 DEF Reads, Submit, Acquire, AcquireFails, GetStory, FindCommittedTurn,
                LoadStorySnapshot, BeginCommit, TakeWriteLock, Fails, Finalize
  <2>2. \A b \in Attempts \ {a} : outcome'[b] = outcome[b] /\ pc'[b] = pc[b]
    BY <1>4, ReadsAnswer
  <2>3. pc[a] # "done" /\ (pc'[a] = "done" => outcome'[a].result = NoAnswer)
    <3> USE DEF Goto, Finish, StoreInv, TypeOK
    <3>1. CASE Submit(a) \/ Acquire(a) \/ LoadStorySnapshot(a)
      BY <3>1 DEF Submit, Acquire, LoadStorySnapshot
    <3>2. CASE AcquireFails(a)
      BY <3>2 DEF AcquireFails, Refusal
    <3>3. CASE GetStory(a) \/ FindCommittedTurn(a)
      BY <3>3 DEF GetStory, FindCommittedTurn
    <3>4. CASE BeginCommit(a)
      BY <3>4 DEF BeginCommit
    <3>5. CASE TakeWriteLock(a)
      BY <3>5 DEF TakeWriteLock
    <3>6. CASE Fails(a)
      BY <3>6 DEF Fails, WithPermit
    <3> QED BY <1>4, <3>1, <3>2, <3>3, <3>4, <3>5, <3>6 DEF Reads
  <2>4. \A b \in Attempts : AnswerView'[b] = AnswerView[b]
    BY <2>2, <2>3 DEF AnswerView
  <2>5. \A s \in Stories : Rows(s)' = Rows(s)
    BY <2>1 DEF Rows
  <2> QED BY <1>1, <2>1, <2>4, <2>5
<1>5. ASSUME NEW a \in Attempts, Finalize(a) PROVE Ledger!Answer(a) \/ UNCHANGED Ledger!vars
  <2>1. /\ UNCHANGED <<db, request, outcome>>
        /\ pc[a] = "finishing" /\ pc'[a] = "done" /\ \A b \in Attempts \ {a} : pc'[b] = pc[b]
    BY <1>5 DEF Finalize, Goto, StoreInv, TypeOK
  <2>2. \A s \in Stories : Rows(s)' = Rows(s)
    BY <2>1 DEF Rows
  <2>3. CASE outcome[a].kind # "committed"
    <3>1. \A b \in Attempts : AnswerView'[b] = AnswerView[b]
      BY <2>1, <2>3 DEF AnswerView, AnswerInv, OutcomeInv
    <3> QED BY <1>1, <2>1, <2>2, <3>1
  <2>4. CASE outcome[a].kind = "committed"
    <3>s. PICK s \in Stories : s = Story(a)
      BY <1>0
    <3>1. PICK i \in RowsOfKey(a) : /\ Rows(s)[i].digest = request[a].digest
                                    /\ Rows(s)[i].result = outcome[a].result
      BY <2>4, <3>s DEF AnswerInv, AnswersFaithful
    <3>2. i \in DOMAIN Rows(s) /\ Rows(s)[i].key = request[a].key
      BY <3>s DEF RowsOfKey
    <3>3. LedgerView[s] = View(Rows(s)) /\ i \in DOMAIN LedgerView[s]
          /\ LedgerView[s][i] = Entry(Rows(s)[i])
      BY <3>2, LedgerViewIs DEF View
    <3>4. AnswerView' = [AnswerView EXCEPT ![a] = outcome[a].result] /\ AnswerView[a] = NoAnswer
      BY <2>1 DEF AnswerView
    <3>5. LedgerView' = LedgerView
      BY <2>2 DEF LedgerView
    <3>6. /\ LedgerView[s][i].key = request[a].key /\ LedgerView[s][i].digest = request[a].digest
          /\ LedgerView[s][i].result = outcome[a].result
      BY <3>1, <3>2, <3>3 DEF Entry
    <3>7. request[a].story = s
      BY <3>s DEF Story
    <3> HIDE DEF LedgerView, AnswerView
    <3>8. Ledger!Answer(a)
      BY <2>1, <3>3, <3>4, <3>5, <3>6, <3>7 DEF Ledger!Answer
    <3> QED BY <3>8
  <2> QED BY <2>3, <2>4
<1>6. ASSUME Crash \/ UNCHANGED vars PROVE UNCHANGED Ledger!vars
  <2>1. UNCHANGED <<db, request, outcome>>
    BY <1>6 DEF Crash, vars
  <2>2. \A s \in Stories : Rows(s)' = Rows(s)
    BY <2>1 DEF Rows
  <2>3. \A b \in Attempts : pc'[b] = "done" <=> pc[b] = "done"
    BY <1>6 DEF Crash, vars
  <2>4. \A b \in Attempts : AnswerView'[b] = AnswerView[b]
    BY <2>1, <2>3 DEF AnswerView
  <2> QED BY <1>1, <2>1, <2>2, <2>4
<1> QED BY <1>2, <1>3, <1>4, <1>5, <1>6 DEF Next, Step, Reads, Ledger!Next

\* The engine and its store implement the abstract ledger: whatever overlaps,
\* fails or crashes, rows are appended once per key with consecutive numbers,
\* and "committed" is answered from the row of the same request.
THEOREM TurnCommitRefinesLedger == Spec => ImplementsLedger
BY LedgerInit, LedgerStep, StoreInit, StoreStep, AnswerInit, AnswerStep, PTL
   DEF Spec, ImplementsLedger, Ledger!Spec
-----------------------------------------------------------------------------
(* With the coordinator's exclusion, what an attempt read stays current. *)

Held == {"running", "generating", "writing", "committing"}

\* What attempt a read under its permit is what the database holds.
Current(a) == Story(a) \in Serialized =>
    /\ pc[a] \in {"checking"} \cup Held =>
          /\ db[Story(a)] # NoStory
          /\ number[a] = db[Story(a)].last_turn_number + 1
    /\ pc[a] \in Held \ {"running"} => base[a] = db[Story(a)].revision
    /\ pc[a] \in Held => RowsOfKey(a) = {}
    /\ outcome[a].kind # "revision_conflict"

OnePermit ==
    \A a, b \in Attempts :
        /\ Story(a) \in Serialized /\ Story(a) = Story(b)
        /\ pc[a] \in WithPermit /\ pc[b] \in WithPermit
        => a = b

SerialInv == OnePermit /\ \A a \in Attempts : Current(a)

LEMMA SerialInit == Init => SerialInv
BY DEF Init, SerialInv, OnePermit, Current, Held, WithPermit, Unanswered

LEMMA KeyRowsStay ==
    ASSUME NEW b \in Attempts, request' = request,
           db'[request[b].story] = db[request[b].story]
    PROVE  RowsOfKey(b)' = RowsOfKey(b)
BY DEF RowsOfKey, Rows, Story

\* An attempt that does not move stays current when its story does not change.
LEMMA CurrentStays ==
    ASSUME NEW b \in Attempts, Current(b), request' = request,
           db'[request[b].story] = db[request[b].story], pc'[b] = pc[b],
           number'[b] = number[b], base'[b] = base[b], outcome'[b] = outcome[b]
    PROVE  Current(b)'
<1>1. RowsOfKey(b)' = RowsOfKey(b)
  BY KeyRowsStay
<1> QED BY <1>1 DEF Current, Story

LEMMA SerialStep == StoreInv /\ SerialInv /\ [Next]_vars => SerialInv'
<1> SUFFICES ASSUME StoreInv, OnePermit, \A a \in Attempts : Current(a), [Next]_vars
             PROVE  OnePermit' /\ \A a \in Attempts : Current(a)'
  BY DEF SerialInv
<1>0. \A a \in Attempts : Story(a) \in Stories
  BY RequestsAssumption DEF StoreInv, TypeOK, Story
<1>r. request' = request
  BY DEF Next, vars, Step, CreateStory, Submit, Acquire, AcquireFails, GetStory, FindCommittedTurn,
         LoadStorySnapshot, BeginCommit, TakeWriteLock, Commit, Fails, Finalize, Crash
<1>p. ASSUME \A b \in Attempts : pc'[b] \in WithPermit => pc[b] \in WithPermit
      PROVE  OnePermit'
  BY <1>p, <1>r DEF OnePermit, Story
<1>1. ASSUME NEW s \in Stories, CreateStory(s) PROVE OnePermit' /\ \A b \in Attempts : Current(b)'
  <2>1. OnePermit'
    BY <1>1, <1>p DEF CreateStory
  <2>2. \A b \in Attempts : Current(b)'
    <3> TAKE b \in Attempts
    <3>1. CASE Story(b) = s
      <4>1. db[Story(b)] = NoStory /\ UNCHANGED <<pc, outcome>>
        BY <1>1, <3>1 DEF CreateStory
      <4>2. Story(b) \in Serialized =>
               pc[b] \notin {"checking"} \cup Held /\ outcome[b].kind # "revision_conflict"
        BY <4>1 DEF Current
      <4> QED BY <1>r, <4>1, <4>2 DEF Current, Story
    <3>2. CASE Story(b) # s
      <4>1. db'[request[b].story] = db[request[b].story] /\ UNCHANGED <<pc, number, base, outcome>>
        BY <1>0, <1>1, <3>2 DEF CreateStory, Story, StoreInv, TypeOK
      <4> QED BY <1>r, <4>1, CurrentStays
    <3> QED BY <3>1, <3>2
  <2> QED BY <2>1, <2>2
<1>2. ASSUME NEW a \in Attempts, Reads(a) PROVE OnePermit' /\ \A b \in Attempts : Current(b)'
  <2>1. /\ UNCHANGED db
        /\ \A b \in Attempts \ {a} : /\ pc'[b] = pc[b] /\ number'[b] = number[b]
                                     /\ base'[b] = base[b] /\ outcome'[b] = outcome[b]
    BY <1>2 DEF Reads, Submit, Acquire, AcquireFails, GetStory, FindCommittedTurn, LoadStorySnapshot,
                BeginCommit, TakeWriteLock, Fails, Finalize, Goto, Finish, StoreInv, TypeOK
  <2>2. \A b \in Attempts \ {a} : Current(b)'
    BY <1>r, <2>1, CurrentStays
  <2>3. OnePermit'
    <3>1. CASE Acquire(a)
      BY <1>r, <2>1, <3>1 DEF Acquire, OnePermit, Story
    <3>2. CASE ~Acquire(a)
      <4>1. pc'[a] \in WithPermit => pc[a] \in WithPermit
        BY <1>2, <3>2 DEF Reads, Submit, AcquireFails, GetStory, FindCommittedTurn, LoadStorySnapshot,
                BeginCommit, TakeWriteLock, Fails, Finalize, Goto, Finish, WithPermit, StoreInv, TypeOK
      <4> QED BY <1>p, <2>1, <4>1
    <3> QED BY <3>1, <3>2
  <2>4. Current(a)'
    <3> SUFFICES ASSUME Story(a) \in Serialized PROVE Current(a)'
      BY <1>r DEF Current, Story
    <3> USE DEF StoreInv, TypeOK, Goto, Finish, Refusal, Held
    <3>0. Current(a) /\ a \in Attempts
      OBVIOUS
    <3>k. RowsOfKey(a)' = RowsOfKey(a)
      BY <1>r, <2>1, KeyRowsStay
    <3>1. CASE Submit(a) \/ Acquire(a) \/ Finalize(a)
      BY <3>0, <3>1 DEF Submit, Acquire, Finalize, Current
    <3>2. CASE AcquireFails(a) \/ Fails(a)
      BY <3>0, <3>2 DEF AcquireFails, Fails, Current
    <3>3. CASE GetStory(a)
      BY <1>r, <2>1, <3>0, <3>3 DEF GetStory, Current, Story
    <3>4. CASE FindCommittedTurn(a)
      <4>1. CASE \E i \in RowsOfKey(a) : Finish(a, Replay(a, i))
        <5>1. pc'[a] = "finishing" /\ \E i \in RowsOfKey(a) : outcome'[a] = Replay(a, i)
          BY <4>1
        <5>2. outcome'[a].kind \in {"committed", "idempotency_conflict"}
          BY <5>1, ReplayKind
        <5> QED BY <5>1, <5>2 DEF Current
      <4>2. CASE RowsOfKey(a) = {} /\ Goto(a, "running") /\ UNCHANGED outcome
        <5>1. pc[a] = "checking" /\ pc'[a] = "running" /\ UNCHANGED <<db, request, number, base, outcome>>
          BY <3>4, <4>2 DEF FindCommittedTurn
        <5> QED BY <3>0, <3>k, <4>2, <5>1 DEF Current, Story
      <4> QED BY <3>4, <4>1, <4>2 DEF FindCommittedTurn
    <3>5. CASE LoadStorySnapshot(a)
      <4>1. /\ pc[a] = "running" /\ pc'[a] = "generating" /\ base'[a] = db[request[a].story].revision
            /\ UNCHANGED <<db, number, outcome>>
        BY <3>5 DEF LoadStorySnapshot, Story
      <4> QED BY <1>r, <3>0, <3>k, <4>1 DEF Current, Story
    <3>6. CASE BeginCommit(a)
      <4>1. RowsOfKey(a) = {} /\ db[Story(a)].revision = base[a] /\ db[Story(a)].last_turn_number + 1 = number[a]
        BY <3>0, <3>6 DEF BeginCommit, Current
      <4>2. Goto(a, "writing") /\ UNCHANGED <<outcome, number, base>>
        BY <3>6, <4>1 DEF BeginCommit
      <4>3. pc[a] = "generating"
        BY <3>6 DEF BeginCommit
      <4>4. pc'[a] = "writing"
        BY <4>2
      <4> QED BY <1>r, <2>1, <3>0, <3>k, <4>2, <4>3, <4>4 DEF Current, Story
    <3>7. CASE TakeWriteLock(a)
      <4>1. CASE Finish(a, Refusal("store_error"))
        BY <3>7, <4>1 DEF TakeWriteLock, Current
      <4>2. CASE Goto(a, "committing") /\ UNCHANGED outcome
        <5>1. pc[a] = "writing" /\ pc'[a] = "committing" /\ UNCHANGED <<number, base, outcome>>
          BY <3>7, <4>2 DEF TakeWriteLock
        <5> QED BY <1>r, <2>1, <3>0, <3>k, <5>1 DEF Current, Story
      <4> QED BY <3>7, <4>1, <4>2 DEF TakeWriteLock
    <3> QED BY <1>2, <3>1, <3>2, <3>3, <3>4, <3>5, <3>6, <3>7 DEF Reads
  <2> QED BY <2>2, <2>3, <2>4
<1>3. ASSUME NEW a \in Attempts, Commit(a) PROVE OnePermit' /\ \A b \in Attempts : Current(b)'
  <2>s. PICK s \in Stories : s = request[a].story
    BY <1>0 DEF Story
  <2>1. /\ \E rec : db' = [db EXCEPT ![s] = rec]
        /\ pc' = [pc EXCEPT ![a] = "finishing"]
        /\ outcome' = [outcome EXCEPT ![a] = Success(CommittedResult(a))]
        /\ UNCHANGED <<number, base>>
        /\ pc[a] \in WithPermit
    BY <1>3, <2>s, CommitEffect DEF Commit, Story, WithPermit
  <2>2. OnePermit'
    BY <1>p, <2>1 DEF StoreInv, TypeOK
  <2>3. Current(a)'
    BY <2>1 DEF Current, Success, Held, StoreInv, TypeOK
  <2>4. ASSUME NEW b \in Attempts \ {a} PROVE Current(b)'
    <3>1. pc'[b] = pc[b] /\ outcome'[b] = outcome[b] /\ Current(b)
      BY <2>1 DEF StoreInv, TypeOK
    <3>2. CASE request[b].story = s /\ s \in Serialized
      <4>1. pc[b] \notin WithPermit
        BY <2>s, <2>1, <2>4, <3>2 DEF OnePermit, Story
      <4> QED BY <1>r, <3>1, <3>2, <4>1 DEF Current, WithPermit, Held, Story
    <3>3. CASE request[b].story # s
      <4>1. db'[request[b].story] = db[request[b].story]
        BY <1>0, <2>1, <3>3 DEF Story, StoreInv, TypeOK
      <4> QED BY <1>r, <2>1, <3>1, <4>1, CurrentStays
    <3>4. CASE request[b].story \notin Serialized
      BY <1>r, <3>4 DEF Current, Story
    <3> QED BY <3>2, <3>3, <3>4
  <2> QED BY <2>2, <2>3, <2>4
<1>4. ASSUME Crash \/ UNCHANGED vars PROVE OnePermit' /\ \A b \in Attempts : Current(b)'
  <2>1. UNCHANGED <<db, number, base, outcome>> /\ \A b \in Attempts : pc'[b] = pc[b] \/ pc'[b] = "lost"
    BY <1>4 DEF Crash, vars
  <2>2. OnePermit'
    BY <1>p, <2>1 DEF WithPermit
  <2>3. \A b \in Attempts : Current(b)'
    BY <1>r, <2>1 DEF Current, RowsOfKey, Story, Rows, Held
  <2> QED BY <2>2, <2>3
<1> QED BY <1>1, <1>2, <1>3, <1>4 DEF Next, Step, Reads

\* On a story under the coordinator's mutual exclusion (in Serialized) no
\* attempt meets a revision conflict, whatever fails or crashes.
THEOREM TurnCommitNoConflict == Spec => []NoConflict
<1>1. SerialInv => NoConflict
  BY DEF SerialInv, Current, NoConflict
<1> QED BY <1>1, StoreInit, StoreStep, SerialInit, SerialStep, PTL DEF Spec

\* Under the coordinator's mutual exclusion a request whose key is committed
\* is not generated again.
THEOREM TurnCommitNoRegeneration == Spec => []NoRegeneration
<1>1. SerialInv => NoRegeneration
  BY DEF SerialInv, Current, NoRegeneration, Held
<1> QED BY <1>1, StoreInit, StoreStep, SerialInit, SerialStep, PTL DEF Spec

\* On the stories the coordinator serializes, no attempt meets a conflict and
\* no committed request is generated again.
THEOREM TurnCommitSerialized == Spec => []SerializedCleanly
<1>1. NoConflict /\ NoRegeneration => SerializedCleanly
  BY DEF SerializedCleanly
<1> QED BY <1>1, TurnCommitNoConflict, TurnCommitNoRegeneration, PTL
=============================================================================
