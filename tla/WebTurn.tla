------------------------------ MODULE WebTurn -------------------------------
(***************************************************************************)
(* The web service of aise-service around the aise-core engine: a handler  *)
(* per posted turn, a gate of one permit, the task that runs the turn, and *)
(* the bounded channel that streams its events to the client.              *)
(***************************************************************************)
EXTENDS CoreTurn

CONSTANTS Clients, Capacity, NoClient
ASSUME ClientsAssumption == NoClient \notin Clients

VARIABLES gate,       \* permits of turn_gate
          owner,      \* whose turn the task runs, or NoClient
          client,     \* per client: its stream, the channel, what it was told
          committed   \* whose turns the store holds
vars == <<t, cancelled, late, gate, owner, client, committed>>

Init ==
    /\ t = Fresh /\ cancelled = FALSE /\ late = FALSE
    /\ gate = 1 /\ owner = NoClient /\ committed = {}
    /\ client = [c \in Clients |-> [st |-> "idle", chan |-> <<>>, told |-> <<>>]]

\* run_turn up to the stream: bad input and a taken gate are refused, else a
\* task is spawned that holds the permit.
Refuse(c) ==
    /\ client[c].st = "idle"
    /\ client' = [client EXCEPT ![c].st = "refused"]
    /\ UNCHANGED <<t, cancelled, late, gate, owner, committed>>

Post(c) ==
    /\ client[c].st = "idle" /\ gate = 1
    /\ gate' = 0 /\ owner' = c
    /\ client' = [client EXCEPT ![c].st = "open"]
    /\ cancelled' = FALSE /\ late' = FALSE
    /\ \E n \in DOMAIN Stories : Load(n)
    /\ UNCHANGED committed

\* WebTurnEventSink::emit: try_send; a full channel drops the event, a closed
\* one cancels the turn.
emit ==
    IF client[owner].st = "open"
    THEN /\ client' = IF Len(client[owner].chan) < Capacity
                      THEN [client EXCEPT ![owner].chan = Append(@, "status")] ELSE client
         /\ cancelled' = cancelled
    ELSE cancelled' = TRUE /\ UNCHANGED client

\* A stage is announced, then run.
Enter ==
    /\ RunStage /\ emit
    /\ committed' = IF t'.result # <<>> /\ t'.result[1] = "committed" THEN committed \cup {owner} ELSE committed
    /\ UNCHANGED <<late, gate, owner>>

\* The model call of a stage.
Wait == \E i \in DOMAIN t.calls : Acquire(i) \/ Answer(i) \/ CallFails(i) \/ CallStops(i)
Model == Wait /\ UNCHANGED <<cancelled, late, gate, owner, client, committed>>

Deadline ==
    /\ owner # NoClient /\ ~late /\ late' = TRUE
    /\ UNCHANGED <<t, cancelled, gate, owner, client, committed>>

terminal_event == IF t.result[1] = "committed" THEN "committed" ELSE "error"

\* A task that gives its terminal event to a channel with room and else drops it.
FinishTaskDropping ==
    /\ t.stage = "done"
    /\ client' = IF client[owner].st = "open" /\ Len(client[owner].chan) < Capacity
                 THEN [client EXCEPT ![owner].chan = Append(@, terminal_event)] ELSE client
    /\ t' = Fresh /\ gate' = 1 /\ owner' = NoClient /\ late' = FALSE /\ cancelled' = FALSE
    /\ UNCHANGED committed

\* The task's last lines: the terminal event waits for room, a closed receiver
\* refuses it, and the permit goes back with the task.
FinishTask ==
    /\ t.stage = "done"
    /\ client[owner].st = "open" => Len(client[owner].chan) < Capacity
    /\ client' = IF client[owner].st = "open"
                 THEN [client EXCEPT ![owner].chan = Append(@, terminal_event)] ELSE client
    /\ t' = Fresh /\ gate' = 1 /\ owner' = NoClient /\ late' = FALSE /\ cancelled' = FALSE
    /\ UNCHANGED committed

\* event_stream: the connection takes the next event, or ends the stream once
\* the task dropped its senders.
Receive(c) ==
    /\ client[c].st = "open"
    /\ IF client[c].chan # <<>>
       THEN LET e == Head(client[c].chan)
            IN  client' = [client EXCEPT ![c].chan = Tail(@),
                                         ![c].told = IF e = "status" THEN @ ELSE Append(@, e)]
       ELSE owner # c /\ client' = [client EXCEPT ![c].st = "ended"]
    /\ UNCHANGED <<t, cancelled, late, gate, owner, committed>>

\* The client goes away: the receiver is dropped, then DisconnectGuard.
Disconnect(c) ==
    /\ client[c].st = "open"
    /\ client' = [client EXCEPT ![c].st = "dropping", ![c].chan = <<>>]
    /\ UNCHANGED <<t, cancelled, late, gate, owner, committed>>

DropGuard(c) ==
    /\ client[c].st = "dropping"
    /\ client' = [client EXCEPT ![c].st = "closed"]
    /\ cancelled' = (cancelled \/ owner = c)
    /\ UNCHANGED <<t, late, gate, owner, committed>>

Next ==
    \/ Enter \/ Model \/ Deadline \/ FinishTask
    \/ \E c \in Clients : Refuse(c) \/ Post(c) \/ Receive(c) \/ Disconnect(c) \/ DropGuard(c)

\* The runtime polls the task, time passes, and a connection takes its events
\* or goes away.  Nothing is assumed of the model: a call may never be answered.
Stop == (\E i \in DOMAIN t.calls : CallStops(i)) /\ UNCHANGED <<cancelled, late, gate, owner, client, committed>>
Fairness ==
    /\ WF_vars(Enter \/ Stop \/ Deadline \/ FinishTask)
    /\ \A c \in Clients : WF_vars(Receive(c) \/ Disconnect(c))

Spec == Init /\ [][Next]_vars /\ Fairness

-----------------------------------------------------------------------------
\* Properties.

\* A client hears one terminal event at most, and after it nothing; one whose
\* stream ended hears it unless it left, and "committed" if and only if the
\* store holds its turn.
WebClientTold ==
    \A c \in Clients :
        LET told == client[c].told
            queued == {i \in DOMAIN client[c].chan : client[c].chan[i] # "status"}
            heard == Range(told) \cup {client[c].chan[i] : i \in queued}
        IN  /\ Len(told) <= 1 /\ \A i, j \in queued : i = j
            /\ told # <<>> => client[c].chan = <<>>
            /\ client[c].st = "ended" => Len(told) = 1
            /\ \A e \in heard : e = "committed" <=> c \in committed

\* The gate opens again: no turn keeps the service busy for ever, even when the
\* model never answers and the client leaves half-way.
GateOpens == gate = 0 ~> gate = 1
=============================================================================
