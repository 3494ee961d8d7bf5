------------------------- MODULE TurnTaskSupervisor -------------------------
(***************************************************************************)
(* The task that owns all running turns of the server                      *)
(* (crates/aise-server/src/tasks/supervisor.rs) and its callers: reserve   *)
(* and spawn_reserved as TurnSubmissionService::submit uses them,          *)
(* active_turns, shutdown and shutdown_with_grace as main.rs uses them.    *)
(* Commands go through a bounded channel; a turn needs one of              *)
(* max_active_turns semaphore permits, which travels from the supervisor   *)
(* through the reply, the caller and the SpawnReserved command to the      *)
(* task.  The counters started and rejected are metrics and left out.      *)
(***************************************************************************)
EXTENDS Naturals, Sequences, FiniteSets

CONSTANTS
    Turns,              \* submissions
    None,
    max_active_turns,
    admission_capacity,
    MaxAsks             \* bound on calls of active_turns

ASSUME ConfigAssumption == /\ max_active_turns \in Nat \ {0}
                           /\ admission_capacity \in Nat \ {0}
                           /\ MaxAsks \in Nat
ASSUME TurnsAssumption == IsFiniteSet(Turns) /\ None \notin Turns

VARIABLES
    queue,      \* the command channel
    sup,        \* where run_supervisor is: [at, turn]
    free,       \* available permits of the admission semaphore
    submit,     \* turn -> where its submission is
    reply,      \* turn -> content of the oneshot channel of its Reserve
    task,       \* turn -> its task
    joinset,    \* tasks the JoinSet holds (finished ones until they are joined)
    cancelled,  \* turns whose TurnCancellation is cancelled
    service,    \* service_cancellation is cancelled
    shut,       \* the call of shutdown_with_grace
    asks

vars == <<queue, sup, free, submit, reply, task, joinset, cancelled, service, shut, asks>>

Reserve(t) == [op |-> "reserve", turn |-> t]
SpawnReserved(t) == [op |-> "spawn", turn |-> t]
TurnTaskCommand == [op : {"reserve", "spawn"}, turn : Turns]
                   \cup [op : {"active", "shutdown"}, turn : {None}]
ActiveCommand == [op |-> "active", turn |-> None]
ShutdownCommand == [op |-> "shutdown", turn |-> None]

Has(q, c) == \E i \in DOMAIN q : q[i] = c
Queued(op) == {t \in Turns : Has(queue, [op |-> op, turn |-> t])}
ShutdownQueued == Has(queue, ShutdownCommand)
Gone == sup.at = "gone"
Select == [at |-> "select", turn |-> None]

Init ==
    /\ queue = << >>
    /\ sup = Select
    /\ free = max_active_turns
    /\ submit = [t \in Turns |-> "idle"]
    /\ reply = [t \in Turns |-> "none"]
    /\ task = [t \in Turns |-> "none"]
    /\ joinset = {}
    /\ cancelled = {}
    /\ service = FALSE
    /\ shut = "no"
    /\ asks = 0

-----------------------------------------------------------------------------
(* The submitting side. *)

\* reserve: refused at once when the service is shutting down.
ReserveCall(t) ==
    /\ submit[t] = "idle"
    /\ submit' = [submit EXCEPT ![t] = IF service THEN "refused" ELSE "sending"]
    /\ UNCHANGED <<queue, sup, free, reply, task, joinset, cancelled, service, shut, asks>>

\* command_tx.send(Reserve) gets a slot, or finds the receiver dropped.
SendReserve(t) ==
    /\ submit[t] = "sending"
    /\ \/ /\ ~Gone
          /\ Len(queue) < admission_capacity
          /\ queue' = Append(queue, Reserve(t))
          /\ submit' = [submit EXCEPT ![t] = "awaiting"]
       \/ /\ Gone
          /\ submit' = [submit EXCEPT ![t] = "refused"]
          /\ UNCHANGED queue
    /\ UNCHANGED <<sup, free, reply, task, joinset, cancelled, service, shut, asks>>

\* The timeout around send fires (or the client is gone and the handler is
\* dropped).
SendTimesOut(t) ==
    /\ submit[t] = "sending"
    /\ submit' = [submit EXCEPT ![t] = "refused"]
    /\ UNCHANGED <<queue, sup, free, reply, task, joinset, cancelled, service, shut, asks>>

\* Mutant of ReceiveReply: the permit of a cancelled caller is forgotten.
ReceiveReplyForgets(t) ==
    /\ submit[t] = "awaiting"
    /\ reply[t] # "none"
    /\ reply' = [reply EXCEPT ![t] = "none"]
    /\ submit' = [submit EXCEPT ![t] = IF reply[t] = "permit" /\ t \notin cancelled
                                       THEN "granted" ELSE "refused"]
    /\ UNCHANGED <<free, queue, sup, task, joinset, cancelled, service, shut, asks>>

\* The reply arrives; a caller that is cancelled meanwhile drops its permit.
ReceiveReply(t) ==
    /\ submit[t] = "awaiting"
    /\ reply[t] # "none"
    /\ reply' = [reply EXCEPT ![t] = "none"]
    /\ \/ /\ reply[t] = "permit" /\ t \notin cancelled
          /\ submit' = [submit EXCEPT ![t] = "granted"]
          /\ UNCHANGED free
       \/ /\ reply[t] = "permit" /\ t \in cancelled
          /\ submit' = [submit EXCEPT ![t] = "refused"]
          /\ free' = free + 1
       \/ /\ reply[t] = "refused"
          /\ submit' = [submit EXCEPT ![t] = "refused"]
          /\ UNCHANGED free
    /\ UNCHANGED <<queue, sup, task, joinset, cancelled, service, shut, asks>>

\* The timeout around the reply fires (or the handler is dropped); the
\* receiver is dropped with the permit that may be in it.
ReplyTimesOut(t) ==
    /\ submit[t] = "awaiting"
    /\ submit' = [submit EXCEPT ![t] = "refused"]
    /\ free' = IF reply[t] = "permit" THEN free + 1 ELSE free
    /\ reply' = [reply EXCEPT ![t] = "none"]
    /\ UNCHANGED <<queue, sup, task, joinset, cancelled, service, shut, asks>>

\* spawn_reserved: try_send, which also fails when every slot is taken by
\* a queued command or promised to a waiting sender.  submit answers Ok
\* either way.
SpawnCall(t) ==
    LET senders == {u \in Turns : submit[u] = "sending"} IN
    /\ submit[t] = "granted"
    /\ submit' = [submit EXCEPT ![t] = "accepted"]
    /\ \/ /\ ~Gone
          /\ Len(queue) < admission_capacity
          /\ queue' = Append(queue, SpawnReserved(t))
          /\ task' = [task EXCEPT ![t] = "queued"]
          /\ UNCHANGED free
       \/ /\ Gone \/ Len(queue) + Cardinality(senders) >= admission_capacity
          /\ task' = [task EXCEPT ![t] = "dropped"]
          /\ free' = free + 1
          /\ UNCHANGED queue
    /\ UNCHANGED <<sup, reply, joinset, cancelled, service, shut, asks>>

\* The client disconnects or the caller cancels.
CancelTurn(t) ==
    /\ submit[t] \notin {"idle", "refused"}
    /\ t \notin cancelled
    /\ cancelled' = cancelled \cup {t}
    /\ UNCHANGED <<queue, sup, free, submit, reply, task, joinset, service, shut, asks>>

\* active_turns sends its command.
AskActive ==
    /\ asks < MaxAsks
    /\ ~Gone
    /\ Len(queue) < admission_capacity
    /\ queue' = Append(queue, ActiveCommand)
    /\ asks' = asks + 1
    /\ UNCHANGED <<sup, free, submit, reply, task, joinset, cancelled, service, shut>>

-----------------------------------------------------------------------------
(* Shutdown. *)

\* shutdown: only the token.
Shutdown ==
    /\ ~service
    /\ service' = TRUE
    /\ UNCHANGED <<queue, sup, free, submit, reply, task, joinset, cancelled, shut, asks>>

\* shutdown_with_grace cancels the token, then sends its command.  Any
\* further call finds shutdown_started set and returns Ok at once, whatever
\* still runs: it changes nothing, and is not a step.
ShutdownCall ==
    /\ shut = "no"
    /\ service' = TRUE
    /\ shut' = "sending"
    /\ UNCHANGED <<queue, sup, free, submit, reply, task, joinset, cancelled, asks>>

SendShutdown ==
    /\ shut = "sending"
    /\ \/ /\ ~Gone
          /\ Len(queue) < admission_capacity
          /\ queue' = Append(queue, ShutdownCommand)
          /\ shut' = "waiting"
       \/ /\ Gone
          /\ shut' = "supervisor_gone"
          /\ UNCHANGED queue
    /\ UNCHANGED <<sup, free, submit, reply, task, joinset, cancelled, service, asks>>

-----------------------------------------------------------------------------
(* run_supervisor and shutdown_sequence. *)

Ended(t) == task[t] \in {"finished", "aborted"}

\* while joinset.try_join_next().is_some() {}
Reap == {t \in joinset : ~Ended(t)}

\* command_rx.recv() wins the select.
Receive ==
    /\ sup.at = "select"
    /\ queue # << >>
    /\ queue' = Tail(queue)
    /\ LET c == Head(queue) IN
       \/ /\ c.op = "reserve"
          /\ sup' = [at |-> "reserve", turn |-> c.turn]
          /\ UNCHANGED <<task, joinset>>
       \/ /\ c.op = "spawn"
          /\ task' = [task EXCEPT ![c.turn] = "running"]
          /\ joinset' = joinset \cup {c.turn}
          /\ UNCHANGED sup
       \/ /\ c.op = "active"
          /\ joinset' = Reap
          /\ UNCHANGED <<sup, task>>
       \/ /\ c.op = "shutdown"
          /\ sup' = [at |-> "drain", turn |-> None]
          /\ UNCHANGED <<task, joinset>>
    /\ UNCHANGED <<free, submit, reply, cancelled, service, shut, asks>>

\* service_cancellation.cancelled() wins the select.
SeeCancelled ==
    /\ sup.at = "select"
    /\ service
    /\ sup' = [at |-> "drain", turn |-> None]
    /\ UNCHANGED <<queue, free, submit, reply, task, joinset, cancelled, service, shut, asks>>

\* The reply of a Reserve is lost when its caller stopped waiting.
Answer(t, answer) ==
    reply' = IF submit[t] = "awaiting" THEN [reply EXCEPT ![t] = answer] ELSE reply

\* A permit is available; it is dropped when nobody waits for the reply.
Admit ==
    /\ sup.at = "reserve"
    /\ free > 0
    /\ Answer(sup.turn, "permit")
    /\ free' = IF submit[sup.turn] = "awaiting" THEN free - 1 ELSE free
    /\ sup' = Select
    /\ UNCHANGED <<queue, submit, task, joinset, cancelled, service, shut, asks>>

\* service_cancellation or the sleep of admission_timeout wins the wait for
\* a permit.
AdmitFails ==
    /\ sup.at = "reserve"
    /\ Answer(sup.turn, "refused")
    /\ sup' = Select
    /\ UNCHANGED <<queue, free, submit, task, joinset, cancelled, service, shut, asks>>

\* One round of the try_recv loop of shutdown_sequence.
Drain ==
    /\ sup.at = "drain"
    /\ queue # << >>
    /\ queue' = Tail(queue)
    /\ LET c == Head(queue) IN
       \/ /\ c.op = "reserve"
          /\ Answer(c.turn, "refused")
          /\ UNCHANGED <<free, task, joinset>>
       \/ /\ c.op = "spawn"
          /\ task' = [task EXCEPT ![c.turn] = "dropped"]
          /\ free' = free + 1
          /\ UNCHANGED <<reply, joinset>>
       \/ /\ c.op = "active"
          /\ joinset' = Reap
          /\ UNCHANGED <<free, reply, task>>
       \/ /\ c.op = "shutdown"
          /\ UNCHANGED <<free, reply, task, joinset>>
    /\ UNCHANGED <<sup, submit, cancelled, service, shut, asks>>

\* Mutant of DrainEnds: the supervisor stops at the deadline without
\* aborting and joining what is left.
DrainEndsWithoutAbort ==
    /\ sup.at = "drain"
    /\ queue = << >>
    /\ sup' = [at |-> "leave", turn |-> None]
    /\ joinset' = {}
    /\ UNCHANGED <<queue, free, submit, reply, task, cancelled, service, shut, asks>>

\* Mutant of DrainEnds: the loop waits for the last task without a deadline.
DrainEndsWhenEmpty ==
    /\ sup.at = "drain"
    /\ queue = << >>
    /\ Reap = {}
    /\ sup' = [at |-> "abort", turn |-> None]
    /\ joinset' = Reap
    /\ UNCHANGED <<queue, free, submit, reply, task, cancelled, service, shut, asks>>

\* The channel is empty and the JoinSet is empty after reaping, or the
\* grace deadline has passed; abort_all follows.  (With tasks left and time
\* left the loop sleeps and starts again, which changes nothing but
\* joinset.)
DrainEnds ==
    /\ sup.at = "drain"
    /\ queue = << >>
    /\ sup' = [at |-> "abort", turn |-> None]
    /\ joinset' = Reap
    /\ UNCHANGED <<queue, free, submit, reply, task, cancelled, service, shut, asks>>

\* join_next over the aborted tasks is through.
AllJoined ==
    /\ sup.at = "abort"
    /\ \A t \in joinset : Ended(t)
    /\ sup' = [at |-> "leave", turn |-> None]
    /\ joinset' = {}
    /\ UNCHANGED <<queue, free, submit, reply, task, cancelled, service, shut, asks>>

\* The collected Shutdown replies are sent and command_rx is dropped with
\* the commands still in it: their reply senders, tasks and permits go too.
Leave ==
    /\ sup.at = "leave"
    /\ sup' = [at |-> "gone", turn |-> None]
    /\ queue' = << >>
    /\ shut' = CASE shut # "waiting" -> shut
                  [] shut = "waiting" /\ ShutdownQueued -> "supervisor_gone"
                  [] OTHER -> "ok"
    /\ reply' = [t \in Turns |-> IF t \in Queued("reserve") /\ submit[t] = "awaiting"
                                 THEN "refused" ELSE reply[t]]
    /\ task' = [t \in Turns |-> IF t \in Queued("spawn") THEN "dropped" ELSE task[t]]
    /\ free' = free + Cardinality(Queued("spawn"))
    /\ UNCHANGED <<submit, joinset, cancelled, service, asks>>

-----------------------------------------------------------------------------
(* The spawned task. *)

\* service.cancelled() wins the task's select: the turn's token is cancelled.
TaskCancelled(t) ==
    /\ task[t] = "running"
    /\ service
    /\ t \notin cancelled
    /\ cancelled' = cancelled \cup {t}
    /\ UNCHANGED <<queue, sup, free, submit, reply, task, joinset, service, shut, asks>>

\* The turn's future completes; the permit goes with the task.
TaskFinishes(t) ==
    /\ task[t] = "running"
    /\ task' = [task EXCEPT ![t] = "finished"]
    /\ free' = free + 1
    /\ UNCHANGED <<queue, sup, submit, reply, joinset, cancelled, service, shut, asks>>

\* After abort_all the task is dropped at its next await.
TaskAborted(t) ==
    /\ sup.at = "abort"
    /\ task[t] = "running"
    /\ task' = [task EXCEPT ![t] = "aborted"]
    /\ free' = free + 1
    /\ UNCHANGED <<queue, sup, submit, reply, joinset, cancelled, service, shut, asks>>

-----------------------------------------------------------------------------
Supervisor == Receive \/ SeeCancelled \/ Admit \/ AdmitFails \/ Drain \/ DrainEnds
              \/ AllJoined \/ Leave

Next ==
    \/ \E t \in Turns : \/ ReserveCall(t) \/ SendReserve(t) \/ SendTimesOut(t)
                        \/ ReceiveReply(t) \/ ReplyTimesOut(t) \/ SpawnCall(t)
                        \/ CancelTurn(t)
                        \/ TaskCancelled(t) \/ TaskFinishes(t) \/ TaskAborted(t)
    \/ AskActive \/ Shutdown \/ ShutdownCall \/ SendShutdown
    \/ Supervisor

Spec == Init /\ [][Next]_vars

\* The supervisor runs, its timers (admission_timeout, the grace period)
\* fire, callers that can go on do, and an aborted task is dropped.  A turn
\* need not end by itself, nor does a caller's own timeout have to fire.
Fairness ==
    /\ WF_vars(Supervisor)
    /\ WF_vars(SendShutdown)
    /\ \A t \in Turns : /\ WF_vars(SendReserve(t))
                        /\ WF_vars(ReceiveReply(t))
                        /\ WF_vars(SpawnCall(t))
                        /\ WF_vars(TaskAborted(t))

FairSpec == Spec /\ Fairness

-----------------------------------------------------------------------------
(* Properties. *)

\* The shape of the state of the supervisor, its channel and its callers
\* (supervisor.rs).
TypeOK ==
    /\ queue \in Seq(TurnTaskCommand)
    /\ Len(queue) <= admission_capacity
    /\ sup \in [at : {"select", "reserve", "drain", "abort", "leave", "gone"},
               turn : Turns \cup {None}]
    /\ sup.at = "reserve" <=> sup.turn \in Turns
    /\ free \in 0 .. max_active_turns
    /\ submit \in [Turns -> {"idle", "sending", "awaiting", "granted", "accepted", "refused"}]
    /\ reply \in [Turns -> {"none", "permit", "refused"}]
    /\ task \in [Turns -> {"none", "queued", "running", "finished", "aborted", "dropped"}]
    /\ joinset \subseteq Turns
    /\ cancelled \subseteq Turns
    /\ service \in BOOLEAN
    /\ shut \in {"no", "sending", "waiting", "ok", "supervisor_gone"}
    /\ asks \in 0 .. MaxAsks

\* Who owns an admission permit: a reply, a caller between reserve and
\* spawn_reserved, a queued SpawnReserved, or a running task.
Holders == {t \in Turns : \/ reply[t] = "permit"
                          \/ submit[t] = "granted"
                          \/ task[t] \in {"queued", "running"}}

\* No permit of the admission semaphore is lost or made up, whichever
\* timeout, cancellation, refused try_send or shutdown a submission meets:
\* so at most max_active_turns turns run, and the capacity never shrinks.
PermitsConserved == free + Cardinality(Holders) = max_active_turns

\* When the first call of shutdown_with_grace returns, with Ok or with
\* SupervisorGone, every turn that was spawned has been joined, and none can
\* start any more (supervisor.rs:340).
ShutdownJoinsAll ==
    shut \in {"ok", "supervisor_gone"} =>
        /\ Gone
        /\ joinset = {}
        /\ \A t \in Turns : task[t] \notin {"queued", "running"}

\* Nobody waits for ever.  A caller of reserve gets an answer even if its
\* own timeouts never fire, also when its command is left in the channel that
\* the stopping supervisor drops (supervisor.rs:140); and an accepted turn
\* leaves the channel although the supervisor waits inside the loop for the
\* permit of a Reserve before it, which may be the one in the waiting
\* SpawnReserved (supervisor.rs:225).
SubmissionsEnd ==
    \A t \in Turns : /\ (submit[t] = "sending") ~> (submit[t] \in {"accepted", "refused"})
                     /\ (task[t] = "queued") ~> (task[t] # "queued")

\* shutdown_with_grace returns although no turn ends by itself
\* (supervisor.rs:180).
ShutdownReturns == (shut = "sending") ~> (shut \in {"ok", "supervisor_gone"})

\* Nobody waits for ever on the supervisor: submissions are answered, accepted
\* turns start or are dropped, and shutdown returns.
NothingHangs == SubmissionsEnd /\ ShutdownReturns

\* A submission that was answered with Ok gets a task while the service is
\* not shutting down (service.rs:135).
AcceptedIsSpawned ==
    \A t \in Turns : submit[t] = "accepted" /\ ~service => task[t] # "dropped"

=============================================================================
