----------------------------- MODULE TurnStream -----------------------------
(***************************************************************************)
(* A turn and the client that watches it: TurnRuntime emits its events     *)
(* into the sink of SseDelivery, a client that goes away cancels the turn, *)
(* and the supervisor may abort the task between any two of its steps.     *)
(***************************************************************************)
EXTENDS TurnRuntime

CONSTANT Capacity

ASSUME SseAssumption == Capacity \in Nat \ {0}

VARIABLES turn, terminal_sent, progress, terminal, stream, terminal_done, received

Sse == INSTANCE SseDelivery

sinkVars == <<turn, terminal_sent, progress, terminal, stream, terminal_done, received>>
turnVars == <<ctx, stage, at, thought, expired, failure, llm_cancelled, stored, events>>
all == <<vars, sinkVars>>

StreamInit == Init /\ Sse!Init

\* A step of the task; an event of it goes to the sink.
Work ==
    /\ turn = "running"
    /\ Step
    /\ IF events' = events THEN UNCHANGED sinkVars
       ELSE LET e == events'[Len(events')] IN
            IF IsTerminal(e) THEN Sse!emit_terminal(e) ELSE Sse!emit_progress(e)

Environment == turn = "running" /\ (Cancel \/ Expire) /\ UNCHANGED sinkVars

\* The future returns, or is dropped: by abort_all at the end of the grace
\* period, or unspawned because the supervisor is shutting down.
TaskEnds == Sse!TurnEnds /\ UNCHANGED turnVars

Connection == (Sse!DropSender \/ Sse!Deliver \/ Sse!Disconnect) /\ UNCHANGED turnVars

StreamNext == Work \/ Environment \/ TaskEnds \/ Connection

StreamSpec ==
    /\ StreamInit /\ [][StreamNext]_all
    /\ WF_all(Work) /\ WF_all(Done /\ TaskEnds) /\ Sse!Fairness

-----------------------------------------------------------------------------
\* Where among the events it received the client was told how the turn ended.
Told == {i \in DOMAIN received : IsTerminal(received[i])}

\* The client is told the truth, and told it: at most one terminal event,
\* Committed only of a turn the store has, any other only of a turn it has
\* not, whatever cancellation, deadline or disconnection raced the commit; and
\* a stream the server ends was drained, its terminal event included, however
\* slowly the client read (service.rs:239, sse.rs:94, sse.rs:191).
ClientToldTheStore ==
    /\ \A i, j \in Told : i = j
    /\ \A i \in Told : (received[i].event = "Committed") <=> (stored # None)
    /\ stream = "ended" =>
         /\ turn # "running" /\ progress = << >> /\ terminal = << >>
         /\ Done => Told # {}

\* Every turn ends, and ends its stream: the client is not left waiting, also
\* not on an aborted or silent turn (sse.rs:193).
StreamEnds == <>(turn # "running" /\ ~Sse!Connected)

\* A turn that is cancelled before its committer runs, or whose client is gone
\* by then, ends without having committed anything.
CancelStops ==
    (cancelled /\ ~CommitStarted /\ stored = None) ~> (turn # "running" /\ stored = None)
=============================================================================
