---------------------------- MODULE SseDelivery ----------------------------
(***************************************************************************)
(* One SSE answer of the server (crates/aise-server/src/api/sse.rs): the   *)
(* turn's task emits progress events and one terminal event into two       *)
(* bounded lanes (SseSink), sse_merged_stream merges them for the client,  *)
(* and a client that goes away cancels the turn (ClientDisconnectGuard).   *)
(* TurnStream composes this module with the turn that emits the events.    *)
(***************************************************************************)
EXTENDS Integers, Sequences

CONSTANT
    Capacity        \* SSE_CHANNEL_CAPACITY

VARIABLES
    turn,           \* the task: "running", then "done" (its future returned),
                    \* "half" (progress_tx dropped), "dropped" (sink dropped)
    terminal_sent,
    progress,       \* the progress lane
    terminal,       \* the terminal lane, of capacity 1
    stream,         \* where sse_merged_stream is
    terminal_done,
    received,       \* what the client received
    cancelled       \* the turn's cancellation

vars == <<turn, terminal_sent, progress, terminal, stream, terminal_done, received, cancelled>>

TerminalCapacity == 1
Connected == stream \notin {"ended", "gone"}

Init ==
    /\ turn = "running"
    /\ terminal_sent = FALSE
    /\ progress = << >>
    /\ terminal = << >>
    /\ stream = "try"
    /\ terminal_done = FALSE
    /\ received = << >>
    /\ cancelled = FALSE

-----------------------------------------------------------------------------
(* SseSink::emit *)

\* A progress event is dropped when its lane is full or the client is gone.
emit_progress(e) ==
    /\ progress' = IF Connected /\ Len(progress) < Capacity THEN Append(progress, e) ELSE progress
    /\ UNCHANGED <<turn, terminal_sent, terminal, stream, terminal_done, received>>

\* Mutant of emit_terminal: both kinds of event share the progress lane, as
\* in SseSink::new_shared.
emit_terminal_shared(e) ==
    /\ terminal_sent' = TRUE
    /\ progress' = IF ~terminal_sent /\ Connected /\ Len(progress) < Capacity
                   THEN Append(progress, e) ELSE progress
    /\ UNCHANGED <<turn, terminal, stream, terminal_done, received>>

\* The first terminal event takes the terminal lane; a second one is refused.
emit_terminal(e) ==
    /\ terminal_sent' = TRUE
    /\ terminal' = IF ~terminal_sent /\ Connected /\ Len(terminal) < TerminalCapacity
                   THEN Append(terminal, e) ELSE terminal
    /\ UNCHANGED <<turn, progress, stream, terminal_done, received>>

\* The task's future ends, is aborted by the supervisor, or was never run:
\* with or without a terminal event.
TurnEnds ==
    /\ turn = "running"
    /\ turn' = "done"
    /\ UNCHANGED <<terminal_sent, progress, terminal, stream, terminal_done, received, cancelled>>

\* Dropping the sink drops progress_tx, then terminal_tx.
DropSender ==
    \/ /\ turn = "done"
       /\ turn' = "half"
       /\ UNCHANGED <<terminal_sent, progress, terminal, stream, terminal_done, received, cancelled>>
    \/ /\ turn = "half"
       /\ turn' = "dropped"
       /\ UNCHANGED <<terminal_sent, progress, terminal, stream, terminal_done, received, cancelled>>

-----------------------------------------------------------------------------
(* sse_merged_stream.  A lane is closed when its sender is dropped; recv on *)
(* a closed lane first returns what is left in it.                          *)

ProgressClosed == turn \in {"half", "dropped"}
TerminalClosed == turn = "dropped"

DeliverTerminal(next) ==
    /\ received' = Append(received, Head(terminal))
    /\ terminal' = Tail(terminal)
    /\ terminal_done' = TRUE
    /\ stream' = next
    /\ UNCHANGED <<turn, terminal_sent, progress, cancelled>>

\* terminal.try_recv() at the head of the loop.
TryTerminal ==
    /\ stream = "try"
    /\ \/ /\ ~terminal_done /\ terminal # << >>
          /\ DeliverTerminal("try")
       \/ /\ terminal_done \/ terminal = << >>
          /\ stream' = "select"
          /\ terminal_done' = (terminal_done \/ TerminalClosed)
          /\ UNCHANGED <<turn, terminal_sent, progress, terminal, received, cancelled>>

\* Dropping the stream's state drops the guard, which cancels the turn.
EndStream ==
    /\ stream' = "ended"
    /\ cancelled' = TRUE
    /\ UNCHANGED <<turn, terminal_sent, progress, terminal, terminal_done, received>>

\* Mutant of SelectProgress: the loop goes on when the progress lane is
\* closed.
SelectProgressLoops ==
    /\ stream = "select"
    /\ progress # << >> \/ ProgressClosed
    /\ received' = IF progress = << >> THEN received ELSE Append(received, Head(progress))
    /\ progress' = IF progress = << >> THEN progress ELSE Tail(progress)
    /\ stream' = "try"
    /\ UNCHANGED <<turn, terminal_sent, terminal, terminal_done, cancelled>>

\* progress.recv() wins the select.
SelectProgress ==
    /\ stream = "select"
    /\ \/ /\ progress # << >>
          /\ received' = Append(received, Head(progress))
          /\ progress' = Tail(progress)
          /\ stream' = "try"
          /\ UNCHANGED <<turn, terminal_sent, terminal, terminal_done, cancelled>>
       \/ /\ progress = << >> /\ ProgressClosed
          /\ IF terminal_done THEN EndStream
             ELSE /\ stream' = "last"
                  /\ UNCHANGED <<turn, terminal_sent, progress, terminal,
                                 terminal_done, received, cancelled>>

\* terminal.recv() wins the select.
SelectTerminal ==
    /\ stream = "select"
    /\ \/ /\ terminal # << >>
          /\ DeliverTerminal("try")
       \/ /\ terminal = << >> /\ TerminalClosed
          /\ terminal_done' = TRUE
          /\ stream' = "try"
          /\ UNCHANGED <<turn, terminal_sent, progress, terminal, received, cancelled>>

\* terminal.recv() after the progress lane is closed.
LastTerminal ==
    /\ stream = "last"
    /\ \/ /\ terminal # << >>
          /\ DeliverTerminal("try")
       \/ /\ terminal = << >> /\ TerminalClosed
          /\ EndStream

\* The client goes away: axum drops the stream, with its lanes and its guard.
Disconnect ==
    /\ Connected
    /\ stream' = "gone"
    /\ cancelled' = TRUE
    /\ progress' = << >>
    /\ terminal' = << >>
    /\ UNCHANGED <<turn, terminal_sent, terminal_done, received>>

\* The steps of the server's connection.
Deliver == TryTerminal \/ SelectProgress \/ SelectTerminal \/ LastTerminal

\* The connection polls the stream; the sink of a finished task is dropped;
\* tokio's select! picks ready branches at random, so a branch that is ready
\* again and again is taken.
Fairness == /\ WF_vars(TryTerminal) /\ WF_vars(LastTerminal) /\ WF_vars(DropSender)
            /\ SF_vars(SelectProgress) /\ WF_vars(SelectProgress \/ SelectTerminal)
=============================================================================
