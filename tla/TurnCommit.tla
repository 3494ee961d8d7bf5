----------------------------- MODULE TurnCommit -----------------------------
(***************************************************************************)
(* How a turn reaches the database: execute_turn_inner of                  *)
(* crates/aise/src/engine/service.rs (permit, story, idempotency check,    *)
(* pipelines, answer) and the commit_turn transaction of                   *)
(* crates/aise/src/persistence/sqlite_store.rs, for several attempts on    *)
(* several stories that share one SQLite database, with failures at every  *)
(* step and crashes of the process.                                        *)
(*                                                                         *)
(* The database runs in WAL mode and sqlx begins DEFERRED transactions:    *)
(* the reads of commit_turn see one snapshot; its first write must take    *)
(* the database's write lock and is refused at once (SQLITE_BUSY,          *)
(* SQLITE_BUSY_SNAPSHOT) when another transaction has the lock or has      *)
(* committed since the snapshot.                                           *)
(***************************************************************************)
EXTENDS Naturals, Sequences

CONSTANTS
    Attempts,    \* executions of execute_turn, retries included
    Stories,
    Requests,    \* the requests clients send: [story, key, digest]
    Workloads,   \* what the attempts carry: functions from Attempts to Requests
    NoStory,     \* a story that create_story_instance has not made yet
    Nobody,      \* no transaction has the write lock
    NoAnswer,    \* no committed result was answered
    Serialized,  \* the stories whose permits exclude each other
    MaxCrashes

ASSUME SerializedAssumption == Serialized \subseteq Stories
ASSUME CrashesAssumption == MaxCrashes \in Nat
ASSUME RequestsAssumption == \A r \in Requests : r.story \in Stories
ASSUME WorkloadsAssumption == Workloads \subseteq [Attempts -> Requests]
ASSUME NobodyAssumption == Nobody \notin Attempts

VARIABLES
    db,        \* story -> NoStory or its rows: durable
    version,   \* write transactions committed so far (the WAL position): durable
    writer,    \* the attempt that has the database's write lock
    request,   \* attempt -> its request
    pc,        \* where each attempt is
    number,    \* candidate_turn_number
    base,      \* base_revision of the story snapshot
    mark,      \* version of the commit transaction's snapshot
    outcome,   \* how the attempt ends
    crashes

vars == <<db, version, writer, request, pc, number, base, mark, outcome, crashes>>

Unanswered == [kind |-> "none", result |-> NoAnswer]
Refusal(kind) == [kind |-> kind, result |-> NoAnswer]
Success(result) == [kind |-> "committed", result |-> result]

Kinds == {"none", "committed", "failed", "store_error", "not_found",
          "idempotency_conflict", "revision_conflict"}

\* Control points: waiting for the permit; then, with the permit, loading the
\* story, checking the key, running (before the snapshot), generating (after
\* it), writing and committing (inside the transaction), finishing; done.
WithPermit == {"loading", "checking", "running", "generating", "writing", "committing", "finishing"}
PC == {"idle", "waiting", "done", "lost"} \cup WithPermit

Story(a) == request[a].story
Rows(s) == IF db[s] = NoStory THEN << >> ELSE db[s].turns

\* Mutant of RowsOfKey: the lookup also asks for the request digest.
RowsOfKeyAndDigest(a) ==
    {i \in DOMAIN Rows(Story(a)) : /\ Rows(Story(a))[i].key = request[a].key
                                   /\ Rows(Story(a))[i].digest = request[a].digest}

\* SELECT ... FROM story_turns WHERE story_id = ? AND idempotency_key = ?
RowsOfKey(a) == {i \in DOMAIN Rows(Story(a)) : Rows(Story(a))[i].key = request[a].key}

NewStory == [revision |-> 0, last_turn_number |-> 0, turns |-> << >>]

Init ==
    /\ db = [s \in Stories |-> NoStory]
    /\ version = 0
    /\ writer = Nobody
    /\ request \in Workloads
    /\ pc = [a \in Attempts |-> "idle"]
    /\ number = [a \in Attempts |-> 0]
    /\ base = [a \in Attempts |-> 0]
    /\ mark = [a \in Attempts |-> 0]
    /\ outcome = [a \in Attempts |-> Unanswered]
    /\ crashes = 0

Goto(a, p) == pc' = [pc EXCEPT ![a] = p]

\* The attempt goes to finalize with outcome o.
Finish(a, o) == /\ Goto(a, "finishing")
                /\ outcome' = [outcome EXCEPT ![a] = o]

-----------------------------------------------------------------------------
\* create_story_instance, a write transaction of its own; the opening is
\* story segment 1.
CreateStory(s) ==
    /\ db[s] = NoStory
    /\ writer = Nobody
    /\ db' = [db EXCEPT ![s] = NewStory]
    /\ version' = version + 1
    /\ UNCHANGED <<writer, request, pc, number, base, mark, outcome, crashes>>

\* execute_turn is called and waits in coordinator.acquire.
Submit(a) ==
    /\ pc[a] = "idle"
    /\ Goto(a, "waiting")
    /\ UNCHANGED <<db, version, writer, request, number, base, mark, outcome, crashes>>

\* acquire returns a permit.
Acquire(a) ==
    /\ pc[a] = "waiting"
    /\ Story(a) \in Serialized => \A b \in Attempts : Story(b) = Story(a) => pc[b] \notin WithPermit
    /\ Goto(a, "loading")
    /\ UNCHANGED <<db, version, writer, request, number, base, mark, outcome, crashes>>

\* acquire fails (backpressure, cancellation, deadline): answered at once,
\* without a permit.
AcquireFails(a) ==
    /\ pc[a] = "waiting"
    /\ Goto(a, "done")
    /\ outcome' = [outcome EXCEPT ![a] = Refusal("failed")]
    /\ UNCHANGED <<db, version, writer, request, number, base, mark, crashes>>

\* store.get_story; the candidate turn number is taken from this read.
GetStory(a) ==
    /\ pc[a] = "loading"
    /\ \/ /\ db[Story(a)] = NoStory
          /\ Finish(a, Refusal("not_found"))
          /\ UNCHANGED number
       \/ /\ db[Story(a)] # NoStory
          /\ Goto(a, "checking")
          /\ number' = [number EXCEPT ![a] = db[Story(a)].last_turn_number + 1]
          /\ UNCHANGED outcome
    /\ UNCHANGED <<db, version, writer, request, base, mark, crashes>>

\* The answer for a key that has a row: the row's result if the digest of the
\* request is the same, else IdempotencyConflict.
Replay(a, i) ==
    LET row == Rows(Story(a))[i] IN
    IF row.digest = request[a].digest THEN Success(row.result)
                                      ELSE Refusal("idempotency_conflict")

\* Mutant of FindCommittedTurn: the check is left to commit_turn.
FindNothing(a) ==
    /\ pc[a] = "checking"
    /\ Goto(a, "running")
    /\ UNCHANGED <<db, version, writer, request, number, base, mark, outcome, crashes>>

\* store.find_committed_turn and the replay decision.
FindCommittedTurn(a) ==
    /\ pc[a] = "checking"
    /\ \/ \E i \in RowsOfKey(a) : Finish(a, Replay(a, i))
       \/ /\ RowsOfKey(a) = {}
          /\ Goto(a, "running")
          /\ UNCHANGED outcome
    /\ UNCHANGED <<db, version, writer, request, number, base, mark, crashes>>

\* BaselineContextBuilder: load_story_snapshot fixes base_revision.
LoadStorySnapshot(a) ==
    /\ pc[a] = "running"
    /\ base' = [base EXCEPT ![a] = db[Story(a)].revision]
    /\ Goto(a, "generating")
    /\ UNCHANGED <<db, version, writer, request, number, mark, outcome, crashes>>

\* A step fails while the attempt has its permit: cancellation or deadline at
\* a stage, an LLM error, a store error.  An open transaction rolls back.
Fails(a) ==
    /\ pc[a] \in WithPermit \ {"finishing"}
    /\ Finish(a, Refusal("failed"))
    /\ writer' = IF writer = a THEN Nobody ELSE writer
    /\ UNCHANGED <<db, version, request, number, base, mark, crashes>>

\* commit_turn: begin, the idempotency lookup and the checks of revision and
\* turn number, all on one snapshot.  The graph revision and the states of the
\* nodes, which a RevisionConflict also answers for, are in the row that has
\* the revision and change only with it: StoryState has these checks.
BeginCommit(a) ==
    /\ pc[a] = "generating"
    /\ \/ \E i \in RowsOfKey(a) : Finish(a, Replay(a, i)) /\ UNCHANGED mark
       \/ /\ RowsOfKey(a) = {}
          /\ \/ db[Story(a)].revision # base[a]
             \/ db[Story(a)].last_turn_number + 1 # number[a]
          /\ Finish(a, Refusal("revision_conflict"))
          /\ UNCHANGED mark
       \/ /\ RowsOfKey(a) = {}
          /\ db[Story(a)].revision = base[a]
          /\ db[Story(a)].last_turn_number + 1 = number[a]
          /\ Goto(a, "writing")
          /\ mark' = [mark EXCEPT ![a] = version]
          /\ UNCHANGED outcome
    /\ UNCHANGED <<db, version, writer, request, number, base, crashes>>

\* The first write of the transaction (persist_instance_state) takes the
\* write lock, or SQLite refuses it and the store is Unavailable.
TakeWriteLock(a) ==
    /\ pc[a] = "writing"
    /\ \/ /\ writer # Nobody \/ mark[a] # version
          /\ Finish(a, Refusal("store_error"))
          /\ UNCHANGED writer
       \/ /\ writer = Nobody
          /\ mark[a] = version
          /\ Goto(a, "committing")
          /\ writer' = a
          /\ UNCHANGED outcome
    /\ UNCHANGED <<db, version, request, number, base, mark, crashes>>

\* CommittedTurnResult; the text is the one this attempt generated.
CommittedResult(a) ==
    [turn_number |-> number[a], story_revision |-> base[a] + 1, story_text |-> a]

\* The row of story_turns; sequence is MAX(sequence) + 1 over the story's
\* segments, which are the opening and one per turn.
TurnRow(a) ==
    [turn_number |-> number[a], key |-> request[a].key, digest |-> request[a].digest,
     base_revision |-> base[a], committed_revision |-> base[a] + 1,
     sequence |-> Len(Rows(Story(a))) + 2, result |-> CommittedResult(a)]

\* Mutant of Commit: last_turn_number is not advanced with the revision.
CommitKeepsTurnNumber(a) ==
    LET s == Story(a) IN
    /\ pc[a] = "committing"
    /\ db' = [db EXCEPT ![s].revision = base[a] + 1, ![s].turns = Append(@, TurnRow(a))]
    /\ version' = version + 1
    /\ Finish(a, Success(CommittedResult(a)))
    /\ writer' = Nobody
    /\ UNCHANGED <<request, number, base, mark, crashes>>

\* Mutant of Commit: the deadline is looked at again after COMMIT.
CommitThenDeadline(a) ==
    LET s == Story(a) IN
    /\ pc[a] = "committing"
    /\ db' = [db EXCEPT ![s] = [revision |-> base[a] + 1, last_turn_number |-> number[a],
                                turns |-> Append(@.turns, TurnRow(a))]]
    /\ version' = version + 1
    /\ \E o \in {Success(CommittedResult(a)), Refusal("failed")} : Finish(a, o)
    /\ writer' = Nobody
    /\ UNCHANGED <<request, number, base, mark, crashes>>

\* The remaining writes, the compare-and-swap of stories.revision, COMMIT.
Commit(a) ==
    LET s == Story(a) IN
    /\ pc[a] = "committing"
    /\ IF db[s].revision = base[a] /\ db[s].last_turn_number + 1 = number[a]
       THEN /\ db' = [db EXCEPT ![s] = [revision |-> base[a] + 1,
                                        last_turn_number |-> number[a],
                                        turns |-> Append(@.turns, TurnRow(a))]]
            /\ version' = version + 1
            /\ Finish(a, Success(CommittedResult(a)))
       ELSE /\ UNCHANGED <<db, version>>
            /\ Finish(a, Refusal("revision_conflict"))
    /\ writer' = Nobody
    /\ UNCHANGED <<request, number, base, mark, crashes>>

\* finalize: the terminal event is emitted, then the permit is dropped.
Finalize(a) ==
    /\ pc[a] = "finishing"
    /\ Goto(a, "done")
    /\ UNCHANGED <<db, version, writer, request, number, base, mark, outcome, crashes>>

\* The process dies and restarts: attempts in progress are lost, an open
\* transaction is rolled back, what was committed stays.
Crash ==
    /\ crashes < MaxCrashes
    /\ crashes' = crashes + 1
    /\ pc' = [a \in Attempts |-> IF pc[a] \in {"idle", "done"} THEN pc[a] ELSE "lost"]
    /\ writer' = Nobody
    /\ UNCHANGED <<db, version, request, number, base, mark, outcome>>

\* What a submitted attempt does when nothing fails.
Step(a) ==
    \/ Acquire(a) \/ GetStory(a) \/ FindCommittedTurn(a) \/ LoadStorySnapshot(a)
    \/ BeginCommit(a) \/ TakeWriteLock(a) \/ Commit(a) \/ Finalize(a)

Next ==
    \/ \E s \in Stories : CreateStory(s)
    \/ \E a \in Attempts : Submit(a) \/ AcquireFails(a) \/ Fails(a) \/ Step(a)
    \/ Crash

Spec == Init /\ [][Next]_vars

-----------------------------------------------------------------------------
(* properties *)

Results == [turn_number : Nat, story_revision : Nat, story_text : Attempts]
TurnRows == [turn_number : Nat, key : {r.key : r \in Requests}, digest : {r.digest : r \in Requests},
             base_revision : Nat, committed_revision : Nat, sequence : Nat, result : Results]
StoryRows == [revision : Nat, last_turn_number : Nat, turns : Seq(TurnRows)]

ASSUME NoStoryAssumption == NoStory \notin StoryRows

\* Every variable has its type; the write lock belongs to an attempt that is
\* inside its transaction, so no failed or crashed attempt keeps it.
TypeOK ==
    /\ db \in [Stories -> StoryRows \cup {NoStory}]
    /\ version \in Nat
    /\ writer \in {Nobody} \cup {a \in Attempts : pc[a] = "committing"}
    /\ request \in [Attempts -> Requests]
    /\ pc \in [Attempts -> PC]
    /\ number \in [Attempts -> Nat]
    /\ base \in [Attempts -> Nat]
    /\ mark \in [Attempts -> Nat]
    /\ outcome \in [Attempts -> [kind : Kinds, result : Results \cup {NoAnswer}]]
    /\ crashes \in 0..MaxCrashes

\* The turns of a story form an unbroken chain: turn i takes revision i - 1
\* to i and is segment i + 1, and the story row agrees with the last turn,
\* whatever attempts overlapped, failed or crashed.
LedgerChain ==
    \A s \in Stories : db[s] # NoStory =>
        /\ db[s].revision = Len(db[s].turns)
        /\ db[s].last_turn_number = Len(db[s].turns)
        /\ \A i \in DOMAIN db[s].turns :
              LET row == db[s].turns[i] IN
              /\ row.turn_number = i
              /\ row.base_revision = i - 1
              /\ row.committed_revision = i
              /\ row.sequence = i + 1

\* An idempotency key is applied to a story at most once.
OneTurnPerKey ==
    \A s \in Stories : \A i, j \in DOMAIN Rows(s) : Rows(s)[i].key = Rows(s)[j].key => i = j

\* "Committed" answers the stored result of a turn with the attempt's own key
\* and digest (written by it or by an earlier attempt); "idempotency
\* conflict" is answered only when the key belongs to another request.
AnswersFaithful ==
    \A a \in Attempts :
        /\ outcome[a].kind = "committed" =>
              \E i \in RowsOfKey(a) : /\ Rows(Story(a))[i].digest = request[a].digest
                                      /\ Rows(Story(a))[i].result = outcome[a].result
        /\ outcome[a].kind = "idempotency_conflict" =>
              \E i \in RowsOfKey(a) : Rows(Story(a))[i].digest # request[a].digest

\* An attempt that is told it failed or conflicts has not changed its story.
RefusedNotCommitted ==
    \A a \in Attempts : outcome[a].kind \notin {"none", "committed"} =>
        \A i \in DOMAIN Rows(Story(a)) : Rows(Story(a))[i].result.story_text # a

\* What an attempt is told is true of the ledger, for each kind of answer.
AnswersTruthful == AnswersFaithful /\ RefusedNotCommitted

\* With serialized turns the reads before the transaction are never stale:
\* commit_turn does not meet a revision conflict, crashes included.
NoConflict == \A a \in Attempts : Story(a) \in Serialized => outcome[a].kind # "revision_conflict"

\* With serialized turns a request whose key is committed is never generated
\* (and paid for) again: it is answered from the ledger.
NoRegeneration ==
    \A a \in Attempts :
        Story(a) \in Serialized /\ pc[a] \in {"running", "generating", "writing", "committing"} =>
            RowsOfKey(a) = {}

\* What the coordinator's exclusion is for: neither a conflict nor a second
\* generation of a committed request.
SerializedCleanly == NoConflict /\ NoRegeneration

\* The rows of story_turns as a ledger, and what clients have been answered.
LedgerView == [s \in Stories |-> [i \in DOMAIN Rows(s) |->
                  [key |-> Rows(s)[i].key, digest |-> Rows(s)[i].digest,
                   result |-> Rows(s)[i].result]]]
AnswerView == [a \in Attempts |-> IF pc[a] = "done" THEN outcome[a].result ELSE NoAnswer]

Ledger == INSTANCE StoryLedger WITH ledger <- LedgerView, answer <- AnswerView

\* The engine and the store implement the append-only, idempotent ledger.
ImplementsLedger == Ledger!Spec
=============================================================================
