---------------------- MODULE TurnTaskSupervisorProofs ----------------------
(***************************************************************************)
(* The supervisor keeps its permits and owns its tasks until they end, for *)
(* any number of submissions, permits and channel slots.                   *)
(***************************************************************************)
EXTENDS TurnTaskSupervisor, FiniteSetTheorems, TLAPS

\* A turn has at most one Reserve and one SpawnReserved in the channel.
Unique(q) == \A i, j \in DOMAIN q : q[i] = q[j] /\ q[i].turn \in Turns => i = j

\* Where a turn's commands are agrees with how far its submission is.
Pending(t) == submit[t] \in {"awaiting", "refused"} /\ reply[t] = "none"

ChannelInv ==
    /\ Unique(queue)
    /\ \A t \in Turns : task[t] = "queued" <=> t \in Queued("spawn")
    /\ \A t \in Queued("reserve") : Pending(t)
    /\ sup.at = "reserve" => Pending(sup.turn) /\ sup.turn \notin Queued("reserve")

SubmitInv ==
    \A t \in Turns : /\ reply[t] # "none" => submit[t] = "awaiting"
                     /\ task[t] # "none" => submit[t] = "accepted"

\* Running tasks are in the JoinSet, and the supervisor leaves without any.
OwnInv ==
    /\ \A t \in Turns : task[t] = "running" => t \in joinset
    /\ sup.at \in {"leave", "gone"} => joinset = {}
    /\ Gone => queue = << >>
    /\ shut \in {"ok", "supervisor_gone"} => Gone

\* TypeOK without the upper bound of free, which PermitsConserved gives.
TypeInv ==
    /\ queue \in Seq(TurnTaskCommand)
    /\ Len(queue) <= admission_capacity
    /\ sup \in [at : {"select", "reserve", "drain", "abort", "leave", "gone"},
               turn : Turns \cup {None}]
    /\ sup.at = "reserve" <=> sup.turn \in Turns
    /\ free \in Nat
    /\ submit \in [Turns -> {"idle", "sending", "awaiting", "granted", "accepted", "refused"}]
    /\ reply \in [Turns -> {"none", "permit", "refused"}]
    /\ task \in [Turns -> {"none", "queued", "running", "finished", "aborted", "dropped"}]
    /\ joinset \subseteq Turns
    /\ cancelled \subseteq Turns
    /\ service \in BOOLEAN
    /\ shut \in {"no", "sending", "waiting", "ok", "supervisor_gone"}
    /\ asks \in 0 .. MaxAsks

SupInv == TypeInv /\ ChannelInv /\ SubmitInv /\ OwnInv /\ PermitsConserved

-----------------------------------------------------------------------------
(* The channel. *)

LEMMA HasAppend ==
    ASSUME NEW q \in Seq(TurnTaskCommand), NEW c \in TurnTaskCommand, NEW d
    PROVE  Has(Append(q, c), d) <=> Has(q, d) \/ c = d
<1>1. Len(Append(q, c)) = Len(q) + 1 /\ DOMAIN q = 1 .. Len(q) /\ Len(q) \in Nat
      /\ DOMAIN Append(q, c) = 1 .. Len(q) + 1
    OBVIOUS
<1>2. /\ \A i \in 1 .. Len(q) : Append(q, c)[i] = q[i]
      /\ Append(q, c)[Len(q) + 1] = c
    OBVIOUS
<1> QED BY <1>1, <1>2 DEF Has

LEMMA UniqueAppend ==
    ASSUME NEW q \in Seq(TurnTaskCommand), NEW c \in TurnTaskCommand,
           Unique(q), c.turn \in Turns => ~Has(q, c)
    PROVE  Unique(Append(q, c))
<1>1. Len(Append(q, c)) = Len(q) + 1 /\ DOMAIN q = 1 .. Len(q) /\ Len(q) \in Nat
      /\ DOMAIN Append(q, c) = 1 .. Len(q) + 1
    OBVIOUS
<1>2. /\ \A i \in 1 .. Len(q) : Append(q, c)[i] = q[i]
      /\ Append(q, c)[Len(q) + 1] = c
    OBVIOUS
<1>3. SUFFICES ASSUME NEW i \in 1 .. Len(q) + 1, NEW j \in 1 .. Len(q) + 1,
                      Append(q, c)[i] = Append(q, c)[j], Append(q, c)[i].turn \in Turns
               PROVE  i = j
    BY <1>1 DEF Unique
<1>4. CASE i \in 1 .. Len(q) /\ j \in 1 .. Len(q)
    BY <1>1, <1>2, <1>3, <1>4 DEF Unique
<1>5. CASE i = Len(q) + 1 /\ j \in 1 .. Len(q)
    BY <1>1, <1>2, <1>3, <1>5 DEF Has
<1>6. CASE i \in 1 .. Len(q) /\ j = Len(q) + 1
    BY <1>1, <1>2, <1>3, <1>6 DEF Has
<1> QED BY <1>1, <1>4, <1>5, <1>6

LEMMA TailFacts ==
    ASSUME NEW q \in Seq(TurnTaskCommand), q # << >>, Unique(q)
    PROVE  /\ Head(q) \in TurnTaskCommand
           /\ Tail(q) \in Seq(TurnTaskCommand)
           /\ Len(Tail(q)) <= Len(q)
           /\ Has(q, Head(q))
           /\ Unique(Tail(q))
           /\ \A d : d.turn \in Turns => (Has(Tail(q), d) <=> Has(q, d) /\ d # Head(q))
<1>1. /\ Len(q) \in Nat \ {0} /\ DOMAIN q = 1 .. Len(q)
      /\ Tail(q) \in Seq(TurnTaskCommand)
      /\ Len(Tail(q)) = Len(q) - 1
      /\ Head(q) = q[1] /\ Head(q) \in TurnTaskCommand
    OBVIOUS
<1>2. \A i \in 1 .. Len(q) - 1 : Tail(q)[i] = q[i + 1]
    OBVIOUS
<1>3. DOMAIN Tail(q) = 1 .. Len(q) - 1
    BY <1>1
<1>4. Unique(Tail(q))
    BY <1>1, <1>2, <1>3 DEF Unique
<1>5. ASSUME NEW d, d.turn \in Turns
      PROVE  Has(Tail(q), d) <=> Has(q, d) /\ d # Head(q)
  <2>1. ASSUME Has(Tail(q), d) PROVE Has(q, d) /\ d # Head(q)
    <3>1. PICK i \in 1 .. Len(q) - 1 : Tail(q)[i] = d
        BY <1>3, <2>1 DEF Has
    <3>2. i + 1 \in 1 .. Len(q) /\ q[i + 1] = d /\ i + 1 # 1
        BY <1>1, <1>2, <3>1
    <3>3. ASSUME d = Head(q) PROVE FALSE
        BY <1>1, <1>5, <3>2, <3>3 DEF Unique
    <3> QED BY <1>1, <3>2, <3>3 DEF Has
  <2>2. ASSUME Has(q, d), d # Head(q) PROVE Has(Tail(q), d)
    <3>1. PICK i \in 1 .. Len(q) : q[i] = d
        BY <1>1, <2>2 DEF Has
    <3>2. i - 1 \in 1 .. Len(q) - 1 /\ Tail(q)[i - 1] = d
        BY <1>1, <1>2, <2>2, <3>1
    <3> QED BY <1>3, <3>2 DEF Has
  <2> QED BY <2>1, <2>2
<1>6. Has(q, Head(q))
    BY <1>1 DEF Has
<1> QED BY <1>1, <1>4, <1>5, <1>6

LEMMA EmptyHas == \A c : ~Has(<< >>, c)
BY DEF Has

-----------------------------------------------------------------------------
(* The permits. *)

LEMMA HoldersFinite == IsFiniteSet(Holders) /\ Cardinality(Holders) \in Nat
BY TurnsAssumption, FS_Subset, FS_CardinalityType DEF Holders

\* One holder less and one free permit more.
LEMMA PermitFreed ==
    ASSUME PermitsConserved, free \in Nat, NEW t \in Holders,
           Holders' = Holders \ {t}, free' = free + 1
    PROVE  PermitsConserved' /\ free' \in Nat
<1>1. Cardinality(Holders \ {t}) = Cardinality(Holders) - 1
    BY HoldersFinite, FS_RemoveElement
<1> QED BY <1>1, HoldersFinite, ConfigAssumption DEF PermitsConserved

\* One holder more and one free permit less.
LEMMA PermitTaken ==
    ASSUME PermitsConserved, free \in Nat, free > 0, NEW t, t \notin Holders,
           Holders' = Holders \cup {t}, free' = free - 1
    PROVE  PermitsConserved' /\ free' \in Nat
<1>1. Cardinality(Holders \cup {t}) = Cardinality(Holders) + 1
    BY HoldersFinite, FS_AddElement
<1> QED BY <1>1, HoldersFinite, ConfigAssumption DEF PermitsConserved

\* A holder stays one.
LEMMA PermitKept ==
    ASSUME PermitsConserved, free \in Nat, Holders' = Holders, free' = free
    PROVE  PermitsConserved' /\ free' \in Nat
BY DEF PermitsConserved

LEMMA InitInv == Init => SupInv
<1> SUFFICES ASSUME Init PROVE SupInv
    OBVIOUS
<1>1. TypeInv
  <2>1. queue \in Seq(TurnTaskCommand) /\ Len(queue) = 0
      BY DEF Init
  <2>2. /\ sup \in [at : {"select", "reserve", "drain", "abort", "leave", "gone"},
                   turn : Turns \cup {None}]
        /\ sup.at = "reserve" <=> sup.turn \in Turns
      BY TurnsAssumption DEF Init, Select
  <2>3. Len(queue) <= admission_capacity /\ free \in Nat /\ asks \in 0 .. MaxAsks
      BY <2>1, ConfigAssumption DEF Init
  <2>4. joinset \subseteq Turns /\ cancelled \subseteq Turns /\ service \in BOOLEAN
      BY DEF Init
  <2> QED BY <2>1, <2>2, <2>3, <2>4 DEF Init, TypeInv
<1>2. ChannelInv
    BY EmptyHas DEF Init, ChannelInv, Unique, Queued, Select
<1>3. SubmitInv /\ OwnInv
    BY DEF Init, SubmitInv, OwnInv, Gone, Select
<1>4. Holders = {}
    BY DEF Init, Holders
<1>5. PermitsConserved
    BY <1>4, FS_EmptySet, ConfigAssumption DEF Init, PermitsConserved
<1> QED BY <1>1, <1>2, <1>3, <1>5 DEF SupInv

-----------------------------------------------------------------------------
(* The callers. *)

LEMMA ReserveCallStep ==
    ASSUME SupInv, NEW t \in Turns, ReserveCall(t) \/ SendTimesOut(t)
    PROVE  SupInv'
<1> USE DEF SupInv
<1>1. TypeInv'
    BY DEF ReserveCall, SendTimesOut, TypeInv
<1>2. Queued("spawn")' = Queued("spawn") /\ Queued("reserve")' = Queued("reserve")
    BY DEF Queued, ReserveCall, SendTimesOut
<1>3. t \notin Queued("reserve") /\ (sup.at = "reserve" => sup.turn # t)
    BY DEF ChannelInv, Pending, ReserveCall, SendTimesOut
<1>4. ChannelInv'
  <2>1. /\ queue' = queue /\ sup' = sup /\ task' = task /\ reply' = reply
        /\ \A u \in Turns \ {t} : submit'[u] = submit[u]
      BY DEF ReserveCall, SendTimesOut, TypeInv
  <2>2. \A u \in Turns \ {t} : Pending(u)' = Pending(u)
      BY <2>1 DEF Pending
  <2>3. Unique(queue)'
      BY <2>1 DEF ChannelInv, Unique
  <2>4. sup.at = "reserve" => sup.turn \in Turns \ {t}
      BY <1>3 DEF TypeInv
  <2>5. Queued("reserve") \subseteq Turns \ {t}
      BY <1>3 DEF Queued
  <2>6. (sup.at = "reserve" => Pending(sup.turn))'
      BY <2>1, <2>4 DEF ChannelInv, Pending
  <2> QED BY <1>2, <2>1, <2>2, <2>3, <2>4, <2>5, <2>6 DEF ChannelInv
<1>5. SubmitInv' /\ OwnInv'
    BY DEF SubmitInv, OwnInv, Gone, ReserveCall, SendTimesOut, TypeInv
<1>6. Holders' = Holders
    BY DEF Holders, ReserveCall, SendTimesOut, TypeInv
<1>7. PermitsConserved'
    BY <1>6, PermitKept DEF ReserveCall, SendTimesOut, TypeInv
<1> QED BY <1>1, <1>4, <1>5, <1>7

LEMMA ReserveCommand == \A t \in Turns : /\ Reserve(t) \in TurnTaskCommand
                                          /\ SpawnReserved(t) \in TurnTaskCommand
                                          /\ Reserve(t).turn = t
                                          /\ SpawnReserved(t).turn = t
BY DEF Reserve, SpawnReserved, TurnTaskCommand

LEMMA SendReserveStep ==
    ASSUME SupInv, NEW t \in Turns, SendReserve(t)
    PROVE  SupInv'
<1> USE DEF SupInv
<1>1. t \notin Queued("reserve") /\ (sup.at = "reserve" => sup.turn # t)
    BY DEF ChannelInv, Pending, SendReserve
<1>2. Holders' = Holders
    BY DEF Holders, SendReserve, TypeInv
<1>3. PermitsConserved'
    BY <1>2, PermitKept DEF SendReserve, TypeInv
<1>4. SubmitInv' /\ OwnInv'
    BY DEF SubmitInv, OwnInv, Gone, SendReserve, TypeInv
<1>5. CASE Gone /\ UNCHANGED queue /\ submit' = [submit EXCEPT ![t] = "refused"]
  <2>1. TypeInv'
      BY <1>5 DEF SendReserve, TypeInv
  <2>2. Queued("spawn")' = Queued("spawn") /\ Queued("reserve")' = Queued("reserve")
      BY <1>5 DEF Queued
  <2>3. ChannelInv'
      BY <1>1, <1>5, <2>2 DEF ChannelInv, Pending, Unique, SendReserve, TypeInv
  <2> QED BY <1>3, <1>4, <2>1, <2>3
<1>6. CASE /\ Len(queue) < admission_capacity /\ queue' = Append(queue, Reserve(t))
           /\ submit' = [submit EXCEPT ![t] = "awaiting"]
  <2>1. TypeInv'
    <3>1. queue' \in Seq(TurnTaskCommand) /\ Len(queue') = Len(queue) + 1
        BY <1>6, ReserveCommand DEF TypeInv
    <3>2. Len(queue) \in Nat /\ Len(queue') <= admission_capacity
        BY <1>6, <3>1, ConfigAssumption DEF TypeInv
    <3> QED BY <1>6, <3>1, <3>2 DEF SendReserve, TypeInv
  <2>2. \A c : Has(queue', c) <=> Has(queue, c) \/ Reserve(t) = c
      BY <1>6, HasAppend, ReserveCommand DEF TypeInv
  <2>3. Queued("spawn")' = Queued("spawn") /\ Queued("reserve")' = Queued("reserve") \cup {t}
      BY <2>2 DEF Queued, Reserve
  <2>4. Unique(queue')
      BY <1>1, <1>6, UniqueAppend, ReserveCommand DEF Queued, Reserve, ChannelInv, TypeInv
  <2>5. reply[t] = "none"
      BY DEF SendReserve, SubmitInv, TypeInv
  <2>6. ChannelInv'
      BY <1>1, <1>6, <2>3, <2>4, <2>5 DEF ChannelInv, Pending, SendReserve, TypeInv
  <2> QED BY <1>3, <1>4, <2>1, <2>6
<1> QED BY <1>5, <1>6 DEF SendReserve

LEMMA ReceiveReplyStep ==
    ASSUME SupInv, NEW t \in Turns, ReceiveReply(t) \/ ReplyTimesOut(t)
    PROVE  SupInv'
<1> USE DEF SupInv
<1>1. submit[t] = "awaiting" /\ task[t] = "none" /\ queue' = queue /\ sup' = sup
      /\ task' = task /\ reply' = [reply EXCEPT ![t] = "none"]
      /\ joinset' = joinset /\ shut' = shut
    BY DEF ReceiveReply, ReplyTimesOut, SubmitInv, TypeInv
<1>2. \/ submit' = [submit EXCEPT ![t] = "granted"] /\ reply[t] = "permit" /\ free' = free
      \/ submit' = [submit EXCEPT ![t] = "refused"] /\ reply[t] = "permit" /\ free' = free + 1
      \/ submit' = [submit EXCEPT ![t] = "refused"] /\ reply[t] # "permit" /\ free' = free
  <2>1. CASE ReceiveReply(t)
      BY <2>1 DEF ReceiveReply
  <2>2. CASE ReplyTimesOut(t)
      BY <2>2 DEF ReplyTimesOut
  <2> QED BY <2>1, <2>2
<1>3. PermitsConserved' /\ free' \in Nat
  <2>1. CASE submit' = [submit EXCEPT ![t] = "refused"] /\ reply[t] = "permit" /\ free' = free + 1
    <3>1. t \in Holders /\ Holders' = Holders \ {t}
        BY <1>1, <2>1 DEF Holders, TypeInv
    <3> QED BY <2>1, <3>1, PermitFreed DEF TypeInv
  <2>2. CASE \/ submit' = [submit EXCEPT ![t] = "granted"] /\ reply[t] = "permit" /\ free' = free
             \/ submit' = [submit EXCEPT ![t] = "refused"] /\ reply[t] # "permit" /\ free' = free
    <3>1. Holders' = Holders
        BY <1>1, <2>2 DEF Holders, TypeInv
    <3> QED BY <2>2, <3>1, PermitKept DEF TypeInv
  <2> QED BY <1>2, <2>1, <2>2
<1>4. TypeInv'
    BY <1>1, <1>2, <1>3 DEF ReceiveReply, ReplyTimesOut, TypeInv
<1>5. Queued("spawn")' = Queued("spawn") /\ Queued("reserve")' = Queued("reserve")
    BY <1>1 DEF Queued
<1>6. reply[t] # "none" => t \notin Queued("reserve") /\ (sup.at = "reserve" => sup.turn # t)
    BY DEF ChannelInv, Pending
<1>7. ChannelInv'
  <2>1. Unique(queue)'
      BY <1>1 DEF ChannelInv, Unique
  <2>2. ASSUME NEW u \in Turns, Pending(u) PROVE Pending(u)'
      BY <1>1, <1>2, <2>2 DEF Pending, TypeInv
  <2>3. (sup.at = "reserve" => Pending(sup.turn))'
      BY <1>1, <1>2 DEF ChannelInv, Pending, TypeInv
  <2>4. Queued("reserve") \subseteq Turns
      BY DEF Queued
  <2> QED BY <1>1, <1>5, <2>1, <2>2, <2>3, <2>4 DEF ChannelInv
<1>8. SubmitInv' /\ OwnInv'
    BY <1>1, <1>2 DEF SubmitInv, OwnInv, Gone, TypeInv
<1> QED BY <1>3, <1>4, <1>7, <1>8

LEMMA SpawnCallStep ==
    ASSUME SupInv, NEW t \in Turns, SpawnCall(t)
    PROVE  SupInv'
<1> USE DEF SupInv
<1>1. /\ submit[t] = "granted" /\ submit' = [submit EXCEPT ![t] = "accepted"]
      /\ sup' = sup /\ reply' = reply /\ joinset' = joinset /\ shut' = shut
      /\ cancelled' = cancelled /\ service' = service /\ asks' = asks
    BY DEF SpawnCall
<1>2. reply[t] = "none" /\ task[t] = "none" /\ t \in Holders
    BY <1>1 DEF SubmitInv, Holders, TypeInv
<1>3. t \notin Queued("reserve") /\ t \notin Queued("spawn")
      /\ (sup.at = "reserve" => sup.turn # t)
    BY <1>1, <1>2 DEF ChannelInv, Pending
<1>4. \A u \in Turns \ {t} : Pending(u)' = Pending(u)
    BY <1>1 DEF Pending, TypeInv
<1>5. (sup.at = "reserve" => Pending(sup.turn))'
    BY <1>1, <1>3 DEF ChannelInv, Pending, TypeInv
<1>6. Queued("reserve") \subseteq Turns \ {t}
    BY <1>3 DEF Queued
<1>7. CASE /\ ~Gone /\ Len(queue) < admission_capacity
           /\ queue' = Append(queue, SpawnReserved(t))
           /\ task' = [task EXCEPT ![t] = "queued"] /\ free' = free
  <2>1. Holders' = Holders
      BY <1>1, <1>2, <1>7 DEF Holders, TypeInv
  <2>2. PermitsConserved' /\ free' \in Nat
      BY <1>7, <2>1, PermitKept DEF TypeInv
  <2>3. queue' \in Seq(TurnTaskCommand) /\ Len(queue') = Len(queue) + 1
      BY <1>7, ReserveCommand DEF TypeInv
  <2>4. Len(queue') <= admission_capacity
      BY <1>7, <2>3, ConfigAssumption DEF TypeInv
  <2>5. TypeInv'
      BY <1>1, <1>7, <2>2, <2>3, <2>4 DEF TypeInv
  <2>6. \A c : Has(queue', c) <=> Has(queue, c) \/ SpawnReserved(t) = c
      BY <1>7, HasAppend, ReserveCommand DEF TypeInv
  <2>7. Queued("reserve")' = Queued("reserve") /\ Queued("spawn")' = Queued("spawn") \cup {t}
      BY <2>6 DEF Queued, SpawnReserved
  <2>8. Unique(queue')
      BY <1>3, <1>7, UniqueAppend, ReserveCommand DEF Queued, SpawnReserved, ChannelInv, TypeInv
  <2>9. \A u \in Turns : (task'[u] = "queued" <=> u \in Queued("spawn")')
      BY <1>3, <1>7, <2>7 DEF ChannelInv, TypeInv
  <2>10. ChannelInv'
      BY <1>1, <1>4, <1>5, <1>6, <2>7, <2>8, <2>9 DEF ChannelInv
  <2>11. SubmitInv' /\ OwnInv'
      BY <1>1, <1>2, <1>7 DEF SubmitInv, OwnInv, Gone, TypeInv
  <2> QED BY <2>2, <2>5, <2>10, <2>11
<1>8. CASE queue' = queue /\ task' = [task EXCEPT ![t] = "dropped"] /\ free' = free + 1
  <2>1. Holders' = Holders \ {t}
      BY <1>1, <1>2, <1>8 DEF Holders, TypeInv
  <2>2. PermitsConserved' /\ free' \in Nat
      BY <1>2, <1>8, <2>1, PermitFreed DEF TypeInv
  <2>3. TypeInv'
      BY <1>1, <1>8, <2>2 DEF TypeInv
  <2>4. Queued("reserve")' = Queued("reserve") /\ Queued("spawn")' = Queued("spawn")
      BY <1>8 DEF Queued
  <2>5. Unique(queue)' /\ \A u \in Turns : (task'[u] = "queued" <=> u \in Queued("spawn")')
      BY <1>3, <1>8, <2>4 DEF ChannelInv, Unique, TypeInv
  <2>6. ChannelInv'
      BY <1>1, <1>4, <1>5, <1>6, <2>4, <2>5 DEF ChannelInv
  <2>7. SubmitInv' /\ OwnInv'
      BY <1>1, <1>2, <1>8 DEF SubmitInv, OwnInv, Gone, TypeInv
  <2> QED BY <2>2, <2>3, <2>6, <2>7
<1> QED BY <1>7, <1>8 DEF SpawnCall

\* Steps that touch neither the channel, nor a permit, nor a task.
LEMMA FlagStep ==
    ASSUME SupInv,
           \/ \E t \in Turns : CancelTurn(t) \/ TaskCancelled(t)
           \/ Shutdown \/ ShutdownCall \/ SeeCancelled
           \/ UNCHANGED vars
    PROVE  SupInv'
<1> USE DEF SupInv
<1>1. /\ queue' = queue /\ free' = free /\ submit' = submit /\ reply' = reply
      /\ task' = task /\ joinset' = joinset
    BY DEF CancelTurn, TaskCancelled, Shutdown, ShutdownCall, SeeCancelled, vars
<1>2. \/ sup' = sup
      \/ sup.at = "select" /\ sup' = [at |-> "drain", turn |-> None]
    BY DEF CancelTurn, TaskCancelled, Shutdown, ShutdownCall, SeeCancelled, vars
<1>3. /\ cancelled' \subseteq Turns /\ service' \in BOOLEAN
      /\ shut' = shut \/ shut' = "sending"
      /\ asks' = asks
    BY DEF CancelTurn, TaskCancelled, Shutdown, ShutdownCall, SeeCancelled, vars, TypeInv
<1>4. TypeInv'
    BY <1>1, <1>2, <1>3, TurnsAssumption DEF TypeInv
<1>5. Queued("reserve")' = Queued("reserve") /\ Queued("spawn")' = Queued("spawn")
      /\ Unique(queue)'
    BY <1>1 DEF Queued, ChannelInv, Unique
<1>6. ChannelInv'
  <2>1. (\A t \in Queued("reserve") : Pending(t))'
      BY <1>1, <1>5 DEF ChannelInv, Pending
  <2>2. sup'.at = "reserve" => sup' = sup
      BY <1>2
  <2>3. (sup.at = "reserve" => Pending(sup.turn) /\ sup.turn \notin Queued("reserve"))'
      BY <1>1, <1>5, <2>2 DEF ChannelInv, Pending
  <2> QED BY <1>1, <1>5, <2>1, <2>3 DEF ChannelInv
<1>7. SubmitInv'
    BY <1>1 DEF SubmitInv
<1>8. OwnInv'
    BY <1>1, <1>2, <1>3 DEF OwnInv, Gone, TypeInv
<1>9. PermitsConserved'
  <2>1. Holders' = Holders
      BY <1>1 DEF Holders
  <2> QED BY <1>1, <2>1, PermitKept DEF TypeInv
<1> QED BY <1>4, <1>6, <1>7, <1>8, <1>9

LEMMA OtherCommand == /\ ActiveCommand \in TurnTaskCommand /\ ActiveCommand.turn = None
                      /\ ShutdownCommand \in TurnTaskCommand /\ ShutdownCommand.turn = None
BY DEF ActiveCommand, ShutdownCommand, TurnTaskCommand

LEMMA OtherSendStep ==
    ASSUME SupInv, AskActive \/ SendShutdown
    PROVE  SupInv'
<1> USE DEF SupInv
<1>1. /\ sup' = sup /\ free' = free /\ submit' = submit /\ reply' = reply
      /\ task' = task /\ joinset' = joinset /\ cancelled' = cancelled /\ service' = service
    BY DEF AskActive, SendShutdown
<1>2. asks' \in 0 .. MaxAsks
    BY ConfigAssumption DEF AskActive, SendShutdown, TypeInv
<1>3. PermitsConserved'
  <2>1. Holders' = Holders
      BY <1>1 DEF Holders
  <2> QED BY <1>1, <2>1, PermitKept DEF TypeInv
<1>4. SubmitInv'
    BY <1>1 DEF SubmitInv
<1>5. CASE Gone /\ queue' = queue /\ shut' = "supervisor_gone"
  <2>1. TypeInv' /\ OwnInv'
      BY <1>1, <1>2, <1>5 DEF TypeInv, OwnInv, Gone
  <2>2. ChannelInv'
      BY <1>1, <1>5 DEF ChannelInv, Pending, Queued, Unique
  <2> QED BY <1>3, <1>4, <2>1, <2>2
<1>6. ASSUME NEW c \in {ActiveCommand, ShutdownCommand}, ~Gone,
             Len(queue) < admission_capacity, queue' = Append(queue, c),
             shut' = shut \/ shut' = "waiting"
      PROVE  SupInv'
  <2>1. c \in TurnTaskCommand /\ c.turn = None
      BY <1>6, OtherCommand
  <2>2. queue' \in Seq(TurnTaskCommand) /\ Len(queue') = Len(queue) + 1
      BY <1>6, <2>1 DEF TypeInv
  <2>3. Len(queue') <= admission_capacity
      BY <1>6, <2>2, ConfigAssumption DEF TypeInv
  <2>4. TypeInv' /\ OwnInv'
      BY <1>1, <1>2, <1>6, <2>2, <2>3 DEF TypeInv, OwnInv, Gone
  <2>5. \A d : Has(queue', d) <=> Has(queue, d) \/ c = d
      BY <1>6, <2>1, HasAppend DEF TypeInv
  <2>6. Queued("reserve")' = Queued("reserve") /\ Queued("spawn")' = Queued("spawn")
      BY <2>1, <2>5, TurnsAssumption DEF Queued
  <2>7. Unique(queue')
      BY <1>6, <2>1, UniqueAppend, TurnsAssumption DEF ChannelInv, TypeInv
  <2>8. (\A t \in Queued("reserve") : Pending(t))'
      BY <1>1, <2>6 DEF ChannelInv, Pending
  <2>9. (sup.at = "reserve" => Pending(sup.turn) /\ sup.turn \notin Queued("reserve"))'
      BY <1>1, <2>6 DEF ChannelInv, Pending
  <2>10. ChannelInv'
      BY <1>1, <2>6, <2>7, <2>8, <2>9 DEF ChannelInv
  <2> QED BY <1>3, <1>4, <2>4, <2>10
<1>7. CASE AskActive
    BY <1>6, <1>7 DEF AskActive
<1>8. CASE SendShutdown
    BY <1>5, <1>6, <1>8 DEF SendShutdown
<1> QED BY <1>7, <1>8

-----------------------------------------------------------------------------
(* The supervisor. *)

\* What taking the head of the channel does to the commands in it.
LEMMA HeadTaken ==
    ASSUME SupInv, queue # << >>, queue' = Tail(queue)
    PROVE  /\ queue' \in Seq(TurnTaskCommand) /\ Len(queue') <= admission_capacity
           /\ Unique(queue)'
           /\ Head(queue) \in TurnTaskCommand
           /\ Head(queue).op \in {"reserve", "spawn"} =>
                 Head(queue).turn \in Queued(Head(queue).op)
           /\ Queued("reserve")' = {t \in Queued("reserve") : Head(queue) # Reserve(t)}
           /\ Queued("spawn")' = {t \in Queued("spawn") : Head(queue) # SpawnReserved(t)}
<1> USE DEF SupInv
<1>1. /\ Head(queue) \in TurnTaskCommand /\ Tail(queue) \in Seq(TurnTaskCommand)
      /\ Len(Tail(queue)) <= Len(queue)
      /\ Has(queue, Head(queue)) /\ Unique(Tail(queue))
      /\ \A d : d.turn \in Turns => (Has(Tail(queue), d) <=> Has(queue, d) /\ d # Head(queue))
    BY TailFacts DEF TypeInv, ChannelInv
<1>2. Len(queue') <= admission_capacity
    BY <1>1, ConfigAssumption DEF TypeInv
<1>3. Head(queue).op \in {"reserve", "spawn"} =>
          /\ Head(queue).turn \in Turns
          /\ Head(queue) = [op |-> Head(queue).op, turn |-> Head(queue).turn]
    BY <1>1 DEF TurnTaskCommand
<1>4. Queued("reserve")' = {t \in Queued("reserve") : Head(queue) # Reserve(t)}
    BY <1>1 DEF Queued, Reserve
<1>5. Queued("spawn")' = {t \in Queued("spawn") : Head(queue) # SpawnReserved(t)}
    BY <1>1 DEF Queued, SpawnReserved
<1>6. Head(queue).op \in {"reserve", "spawn"} => Head(queue).turn \in Queued(Head(queue).op)
    BY <1>1, <1>3 DEF Queued
<1> QED BY <1>1, <1>2, <1>4, <1>5, <1>6

LEMMA ReapFacts == Reap \subseteq joinset /\ \A t \in joinset : task[t] = "running" => t \in Reap
BY DEF Reap, Ended

LEMMA ReceiveStep ==
    ASSUME SupInv, Receive
    PROVE  SupInv'
<1> USE DEF SupInv
<1> DEFINE c == Head(queue)
<1>1. /\ sup.at = "select" /\ queue # << >> /\ queue' = Tail(queue)
      /\ free' = free /\ submit' = submit /\ reply' = reply /\ cancelled' = cancelled
      /\ service' = service /\ shut' = shut /\ asks' = asks
    BY DEF Receive
<1>2. /\ queue' \in Seq(TurnTaskCommand) /\ Len(queue') <= admission_capacity
      /\ Unique(queue)' /\ c \in TurnTaskCommand
      /\ c.op \in {"reserve", "spawn"} => c.turn \in Queued(c.op)
      /\ Queued("reserve")' = {t \in Queued("reserve") : c # Reserve(t)}
      /\ Queued("spawn")' = {t \in Queued("spawn") : c # SpawnReserved(t)}
    BY <1>1, HeadTaken
<1>3. c.op \in {"reserve", "spawn"} => c = [op |-> c.op, turn |-> c.turn] /\ c.turn \in Turns
    BY <1>2 DEF TurnTaskCommand
<1>4. (\A t \in Queued("reserve") : Pending(t))'
    BY <1>1, <1>2 DEF ChannelInv, Pending
<1>5. shut \notin {"ok", "supervisor_gone"} /\ sup.at \notin {"leave", "gone"}
    BY <1>1 DEF OwnInv, Gone
<1>6. CASE c.op = "reserve" /\ sup' = [at |-> "reserve", turn |-> c.turn]
           /\ task' = task /\ joinset' = joinset
  <2>1. TypeInv'
      BY <1>1, <1>2, <1>3, <1>6 DEF TypeInv
  <2>2. Pending(c.turn) /\ c = Reserve(c.turn)
      BY <1>2, <1>3, <1>6 DEF ChannelInv, Reserve
  <2>3. (Pending(sup.turn) /\ sup.turn \notin Queued("reserve"))'
      BY <1>1, <1>2, <1>6, <2>2 DEF Pending
  <2>4. Queued("spawn")' = Queued("spawn")
    <3>1. \A t : c # SpawnReserved(t)
        BY <1>6 DEF SpawnReserved
    <3> HIDE DEF c
    <3> QED BY <1>2, <3>1
  <2>5. ChannelInv'
      BY <1>2, <1>4, <1>6, <2>3, <2>4 DEF ChannelInv
  <2>6. SubmitInv' /\ OwnInv'
      BY <1>1, <1>5, <1>6 DEF SubmitInv, OwnInv, Gone
  <2>7. Holders' = Holders
      BY <1>1, <1>6 DEF Holders
  <2> QED BY <1>1, <2>1, <2>5, <2>6, <2>7, PermitKept DEF TypeInv
<1>7. CASE c.op = "spawn" /\ task' = [task EXCEPT ![c.turn] = "running"]
           /\ joinset' = joinset \cup {c.turn} /\ sup' = sup
  <2>1. TypeInv'
      BY <1>1, <1>2, <1>3, <1>7 DEF TypeInv
  <2>2. task[c.turn] = "queued" /\ c = SpawnReserved(c.turn) /\ c.turn \in Turns
      BY <1>2, <1>3, <1>7 DEF ChannelInv, SpawnReserved
  <2>3. \A t \in Turns : task'[t] = "queued" <=> t \in Queued("spawn")'
    <3> SUFFICES ASSUME NEW t \in Turns PROVE task'[t] = "queued" <=> t \in Queued("spawn")'
        OBVIOUS
    <3>1. CASE t = c.turn
        BY <1>2, <1>7, <2>2, <3>1 DEF TypeInv
    <3>2. CASE t # c.turn
      <4>1. c # SpawnReserved(t)
          BY <3>2 DEF SpawnReserved
      <4> QED BY <1>2, <1>7, <3>2, <4>1 DEF ChannelInv, TypeInv
    <3> QED BY <3>1, <3>2
  <2>4. ChannelInv'
      BY <1>1, <1>2, <1>4, <1>7, <2>3 DEF ChannelInv
  <2>5. SubmitInv' /\ OwnInv'
      BY <1>1, <1>5, <1>7, <2>2 DEF SubmitInv, OwnInv, Gone, TypeInv
  <2>6. Holders' = Holders
      BY <1>1, <1>7, <2>2 DEF Holders, TypeInv
  <2> QED BY <1>1, <2>1, <2>4, <2>5, <2>6, PermitKept DEF TypeInv
<1>8. CASE /\ c.op \in {"active", "shutdown"} /\ task' = task
           /\ joinset' = Reap \/ joinset' = joinset
           /\ sup' = sup \/ sup' = [at |-> "drain", turn |-> None]
  <2>1. TypeInv'
      BY <1>1, <1>2, <1>8, ReapFacts, TurnsAssumption DEF TypeInv
  <2>2. Queued("spawn")' = Queued("spawn")
    <3>1. \A t : c # SpawnReserved(t)
        BY <1>8 DEF SpawnReserved
    <3> HIDE DEF c
    <3> QED BY <1>2, <3>1
  <2>3. ChannelInv'
      BY <1>1, <1>2, <1>4, <1>8, <2>2 DEF ChannelInv
  <2>4. SubmitInv' /\ OwnInv'
      BY <1>1, <1>5, <1>8, ReapFacts DEF SubmitInv, OwnInv, Gone
  <2>5. Holders' = Holders
      BY <1>1, <1>8 DEF Holders
  <2> QED BY <1>1, <2>1, <2>3, <2>4, <2>5, PermitKept DEF TypeInv
<1> QED BY <1>6, <1>7, <1>8 DEF Receive

LEMMA AdmitStep ==
    ASSUME SupInv, Admit \/ AdmitFails
    PROVE  SupInv'
<1> USE DEF SupInv
<1> DEFINE t == sup.turn
<1>1. /\ sup.at = "reserve" /\ sup' = Select /\ queue' = queue /\ submit' = submit
      /\ task' = task /\ joinset' = joinset /\ cancelled' = cancelled
      /\ service' = service /\ shut' = shut /\ asks' = asks
    BY DEF Admit, AdmitFails
<1>2. t \in Turns /\ Pending(t) /\ t \notin Queued("reserve")
    BY <1>1 DEF TypeInv, ChannelInv
<1>3. \/ reply' = reply /\ free' = free
      \/ submit[t] = "awaiting" /\ reply' = [reply EXCEPT ![t] = "refused"] /\ free' = free
      \/ /\ submit[t] = "awaiting" /\ reply' = [reply EXCEPT ![t] = "permit"]
         /\ free > 0 /\ free' = free - 1
    BY DEF Admit, AdmitFails, Answer
<1>4. PermitsConserved' /\ free' \in Nat
  <2>1. CASE submit[t] = "awaiting" /\ reply' = [reply EXCEPT ![t] = "permit"]
             /\ free > 0 /\ free' = free - 1
    <3>1. t \notin Holders
        BY <1>2, <2>1 DEF Holders, Pending, SubmitInv, TypeInv
    <3>2. Holders' = Holders \cup {t}
        BY <1>1, <1>2, <2>1 DEF Holders, TypeInv
    <3> QED BY <2>1, <3>1, <3>2, PermitTaken DEF TypeInv
  <2>2. CASE \/ reply' = reply /\ free' = free
             \/ reply' = [reply EXCEPT ![t] = "refused"] /\ free' = free
    <3>1. Holders' = Holders
        BY <1>1, <1>2, <2>2 DEF Holders, Pending, TypeInv
    <3> QED BY <2>2, <3>1, PermitKept DEF TypeInv
  <2> QED BY <1>3, <2>1, <2>2
<1>5. sup' \in [at : {"select"}, turn : {None}] /\ sup'.at = "select" /\ sup'.turn = None
    BY <1>1 DEF Select
<1>6. TypeInv'
    BY <1>1, <1>2, <1>3, <1>4, <1>5, TurnsAssumption DEF TypeInv
<1>7. Queued("reserve")' = Queued("reserve") /\ Queued("spawn")' = Queued("spawn")
      /\ Unique(queue)'
    BY <1>1 DEF Queued, ChannelInv, Unique
<1>8. \A u \in Turns \ {t} : Pending(u)' = Pending(u)
    BY <1>1, <1>3 DEF Pending, TypeInv
<1>9. Queued("reserve") \subseteq Turns \ {t}
    BY <1>2 DEF Queued
<1>10. ChannelInv'
    BY <1>1, <1>5, <1>7, <1>8, <1>9 DEF ChannelInv
<1>11. SubmitInv' /\ OwnInv'
    BY <1>1, <1>2, <1>3, <1>5 DEF SubmitInv, OwnInv, Gone, TypeInv
<1> QED BY <1>4, <1>6, <1>10, <1>11

LEMMA DrainStep ==
    ASSUME SupInv, Drain
    PROVE  SupInv'
<1> USE DEF SupInv
<1> DEFINE c == Head(queue)
<1>1. /\ sup.at = "drain" /\ queue # << >> /\ queue' = Tail(queue) /\ sup' = sup
      /\ submit' = submit /\ cancelled' = cancelled
      /\ service' = service /\ shut' = shut /\ asks' = asks
    BY DEF Drain
<1>2. /\ queue' \in Seq(TurnTaskCommand) /\ Len(queue') <= admission_capacity
      /\ Unique(queue)' /\ c \in TurnTaskCommand
      /\ c.op \in {"reserve", "spawn"} => c.turn \in Queued(c.op)
      /\ Queued("reserve")' = {t \in Queued("reserve") : c # Reserve(t)}
      /\ Queued("spawn")' = {t \in Queued("spawn") : c # SpawnReserved(t)}
    BY <1>1, HeadTaken
<1>3. c.op \in {"reserve", "spawn"} => c = [op |-> c.op, turn |-> c.turn] /\ c.turn \in Turns
    BY <1>2 DEF TurnTaskCommand
<1>4. shut \notin {"ok", "supervisor_gone"} /\ sup.at \notin {"leave", "gone"}
    BY <1>1 DEF OwnInv, Gone
<1>5. Queued("reserve") \subseteq Turns
    BY DEF Queued
<1>6. CASE c.op = "reserve" /\ Answer(c.turn, "refused") /\ free' = free /\ task' = task
           /\ joinset' = joinset
  <2>1. Pending(c.turn) /\ c = Reserve(c.turn) /\ c.turn \in Turns
      BY <1>2, <1>3, <1>6 DEF ChannelInv, Reserve
  <2>2. \/ reply' = reply
        \/ submit[c.turn] = "awaiting" /\ reply' = [reply EXCEPT ![c.turn] = "refused"]
      BY <1>6 DEF Answer
  <2>3. TypeInv'
      BY <1>1, <1>2, <1>6, <2>1, <2>2 DEF TypeInv
  <2>4. \A u \in Turns \ {c.turn} : Pending(u)' = Pending(u)
      BY <1>1, <2>2 DEF Pending, TypeInv
  <2>5. Queued("reserve")' \subseteq Queued("reserve") \ {c.turn}
      BY <1>2, <2>1
  <2>6. (\A u \in Queued("reserve") : Pending(u))'
      BY <1>5, <2>4, <2>5 DEF ChannelInv
  <2>7. Queued("spawn")' = Queued("spawn")
    <3>1. \A t : c # SpawnReserved(t)
        BY <1>6 DEF SpawnReserved
    <3> HIDE DEF c
    <3> QED BY <1>2, <3>1
  <2>8. ChannelInv'
      BY <1>1, <1>2, <1>6, <2>6, <2>7 DEF ChannelInv
  <2>9. SubmitInv' /\ OwnInv'
      BY <1>1, <1>4, <1>6, <2>1, <2>2 DEF SubmitInv, OwnInv, Gone, TypeInv
  <2>10. Holders' = Holders
      BY <1>1, <1>6, <2>1, <2>2 DEF Holders, Pending, TypeInv
  <2> QED BY <1>6, <2>3, <2>8, <2>9, <2>10, PermitKept DEF TypeInv
<1>7. CASE c.op # "reserve" /\ reply' = reply
  <2>1. (\A u \in Queued("reserve") : Pending(u))'
      BY <1>1, <1>2, <1>7 DEF ChannelInv, Pending
  <2>2. CASE c.op = "spawn" /\ task' = [task EXCEPT ![c.turn] = "dropped"]
             /\ free' = free + 1 /\ joinset' = joinset
    <3>1. task[c.turn] = "queued" /\ c = SpawnReserved(c.turn) /\ c.turn \in Turns
        BY <1>2, <1>3, <2>2 DEF ChannelInv, SpawnReserved
    <3>2. \A t \in Turns : task'[t] = "queued" <=> t \in Queued("spawn")'
      <4> SUFFICES ASSUME NEW t \in Turns PROVE task'[t] = "queued" <=> t \in Queued("spawn")'
          OBVIOUS
      <4>1. CASE t = c.turn
          BY <1>2, <2>2, <3>1, <4>1 DEF TypeInv
      <4>2. CASE t # c.turn
        <5>1. c # SpawnReserved(t)
            BY <4>2 DEF SpawnReserved
        <5> QED BY <1>2, <2>2, <4>2, <5>1 DEF ChannelInv, TypeInv
      <4> QED BY <4>1, <4>2
    <3>3. ChannelInv'
        BY <1>1, <1>2, <2>1, <3>2 DEF ChannelInv
    <3>4. submit[c.turn] = "accepted" /\ reply[c.turn] = "none"
        BY <3>1 DEF SubmitInv, TypeInv
    <3>5. c.turn \in Holders /\ Holders' = Holders \ {c.turn}
        BY <1>1, <1>7, <2>2, <3>1, <3>4 DEF Holders, TypeInv
    <3>6. PermitsConserved' /\ free' \in Nat
        BY <2>2, <3>5, PermitFreed DEF TypeInv
    <3>7. TypeInv'
        BY <1>1, <1>2, <1>7, <2>2, <3>1, <3>6 DEF TypeInv
    <3>8. SubmitInv' /\ OwnInv'
        BY <1>1, <1>4, <1>7, <2>2, <3>1, <3>4 DEF SubmitInv, OwnInv, Gone, TypeInv
    <3> QED BY <3>3, <3>6, <3>7, <3>8
  <2>3. CASE c.op # "spawn" /\ task' = task /\ free' = free /\ joinset' \in {Reap, joinset}
    <3>1. TypeInv'
        BY <1>1, <1>2, <1>7, <2>3, ReapFacts DEF TypeInv
    <3>2. Queued("spawn")' = Queued("spawn")
      <4>1. \A t : c # SpawnReserved(t)
          BY <2>3 DEF SpawnReserved
      <4> HIDE DEF c
      <4> QED BY <1>2, <4>1
    <3>3. ChannelInv'
        BY <1>1, <1>2, <2>1, <2>3, <3>2 DEF ChannelInv
    <3>4. SubmitInv' /\ OwnInv'
        BY <1>1, <1>4, <1>7, <2>3, ReapFacts DEF SubmitInv, OwnInv, Gone
    <3>5. Holders' = Holders
        BY <1>1, <1>7, <2>3 DEF Holders
    <3> QED BY <2>3, <3>1, <3>3, <3>4, <3>5, PermitKept DEF TypeInv
  <2> QED BY <1>7, <2>2, <2>3 DEF Drain
<1> QED BY <1>6, <1>7 DEF Drain

LEMMA JoinStep ==
    ASSUME SupInv, DrainEnds \/ AllJoined
    PROVE  SupInv'
<1> USE DEF SupInv
<1>1. /\ queue' = queue /\ free' = free /\ submit' = submit /\ reply' = reply
      /\ task' = task /\ cancelled' = cancelled /\ service' = service /\ shut' = shut
      /\ asks' = asks
    BY DEF DrainEnds, AllJoined
<1>2. /\ sup.at \in {"drain", "abort"}
      /\ \/ sup' = [at |-> "abort", turn |-> None] /\ joinset' = Reap
         \/ /\ sup' = [at |-> "leave", turn |-> None] /\ joinset' = {}
            /\ \A t \in joinset : Ended(t)
    BY DEF DrainEnds, AllJoined
<1>3. TypeInv'
    BY <1>1, <1>2, ReapFacts, TurnsAssumption DEF TypeInv
<1>4. ChannelInv'
    BY <1>1, <1>2 DEF ChannelInv, Queued, Unique, Pending
<1>5. SubmitInv'
    BY <1>1 DEF SubmitInv
<1>6. OwnInv'
    BY <1>1, <1>2, ReapFacts DEF OwnInv, Gone, Ended
<1>7. Holders' = Holders
    BY <1>1 DEF Holders
<1> QED BY <1>1, <1>3, <1>4, <1>5, <1>6, <1>7, PermitKept DEF TypeInv

LEMMA LeaveStep ==
    ASSUME SupInv, Leave
    PROVE  SupInv'
<1> USE DEF SupInv
<1> DEFINE S == Queued("spawn")
<1>1. /\ sup' = [at |-> "gone", turn |-> None] /\ queue' = << >> /\ joinset = {}
      /\ submit' = submit /\ joinset' = joinset /\ cancelled' = cancelled
      /\ service' = service /\ asks' = asks
      /\ free' = free + Cardinality(S)
      /\ task' = [t \in Turns |-> IF t \in S THEN "dropped" ELSE task[t]]
    BY DEF Leave, OwnInv
<1>2. shut' \in {"no", "sending", "waiting", "ok", "supervisor_gone"}
    BY DEF Leave, TypeInv
<1>3. reply' \in [Turns -> {"none", "permit", "refused"}]
    BY DEF Leave, TypeInv
<1>4. \A t \in Turns : \/ reply'[t] = reply[t]
                       \/ reply[t] = "none" /\ reply'[t] = "refused" /\ submit[t] = "awaiting"
    BY DEF Leave, ChannelInv, Pending, TypeInv
<1>5. S \subseteq Turns /\ \A t \in Turns : task[t] = "queued" <=> t \in S
    BY DEF Queued, ChannelInv
<1>6. \A t \in S : submit[t] = "accepted" /\ reply[t] = "none" /\ t \in Holders
    BY <1>5 DEF SubmitInv, Holders, TypeInv
<1>7. Holders' = Holders \ S
  <2> HIDE DEF S
  <2>1. \A t \in Turns : task'[t] \in {"queued", "running"} <=> task[t] \in {"queued", "running"} /\ t \notin S
      BY <1>1, <1>5
  <2>2. \A t \in Turns : reply'[t] = "permit" <=> reply[t] = "permit"
      BY <1>4
  <2> QED BY <1>1, <1>6, <2>1, <2>2 DEF Holders
<1>8. PermitsConserved' /\ free' \in Nat
  <2>1. IsFiniteSet(S) /\ Cardinality(S) \in Nat
      BY <1>5, TurnsAssumption, FS_Subset, FS_CardinalityType
  <2>2. Holders \cap S = S
      BY <1>6
  <2>3. Cardinality(Holders \ S) = Cardinality(Holders) - Cardinality(S)
      BY <2>1, <2>2, HoldersFinite, FS_Difference
  <2> HIDE DEF S
  <2> QED BY <1>1, <1>7, <2>1, <2>3, HoldersFinite, ConfigAssumption DEF PermitsConserved, TypeInv
<1>9. TypeInv'
  <2>1. queue' \in Seq(TurnTaskCommand) /\ Len(queue') = 0
      BY <1>1
  <2>2. Len(queue') <= admission_capacity
      BY <2>1, ConfigAssumption
  <2>3. task' \in [Turns -> {"none", "queued", "running", "finished", "aborted", "dropped"}]
      BY <1>1 DEF TypeInv
  <2> QED BY <1>1, <1>2, <1>3, <1>8, <2>1, <2>2, <2>3, TurnsAssumption DEF TypeInv
<1>10. ChannelInv'
  <2>1. Queued("spawn")' = {} /\ Queued("reserve")' = {}
      BY <1>1, EmptyHas DEF Queued
  <2>2. \A t \in Turns : task'[t] # "queued"
      BY <1>1, <1>5
  <2>3. Unique(queue)' /\ sup'.at = "gone"
      BY <1>1 DEF Unique
  <2> QED BY <2>1, <2>2, <2>3 DEF ChannelInv
<1>11. SubmitInv'
    BY <1>1, <1>4, <1>6 DEF SubmitInv, TypeInv
<1>12. OwnInv'
    BY <1>1 DEF OwnInv, Gone, TypeInv
<1> QED BY <1>8, <1>9, <1>10, <1>11, <1>12

LEMMA TaskEndStep ==
    ASSUME SupInv, NEW t \in Turns, TaskFinishes(t) \/ TaskAborted(t)
    PROVE  SupInv'
<1> USE DEF SupInv
<1>1. /\ task[t] = "running" /\ free' = free + 1
      /\ queue' = queue /\ sup' = sup /\ submit' = submit /\ reply' = reply
      /\ joinset' = joinset /\ cancelled' = cancelled /\ service' = service
      /\ shut' = shut /\ asks' = asks
      /\ \/ task' = [task EXCEPT ![t] = "finished"]
         \/ task' = [task EXCEPT ![t] = "aborted"]
    BY DEF TaskFinishes, TaskAborted
<1>2. submit[t] = "accepted" /\ reply[t] = "none"
    BY <1>1 DEF SubmitInv, TypeInv
<1>3. t \in Holders /\ Holders' = Holders \ {t}
    BY <1>1, <1>2 DEF Holders, TypeInv
<1>4. PermitsConserved' /\ free' \in Nat
    BY <1>1, <1>3, PermitFreed DEF TypeInv
<1>5. TypeInv'
    BY <1>1, <1>4 DEF TypeInv
<1>6. ChannelInv'
  <2>1. Queued("reserve")' = Queued("reserve") /\ Queued("spawn")' = Queued("spawn")
        /\ Unique(queue)'
      BY <1>1 DEF Queued, ChannelInv, Unique
  <2>2. \A u \in Turns : task'[u] = "queued" <=> task[u] = "queued"
      BY <1>1 DEF TypeInv
  <2>3. (\A u \in Queued("reserve") : Pending(u))'
      BY <1>1, <2>1 DEF ChannelInv, Pending
  <2>4. (sup.at = "reserve" => Pending(sup.turn) /\ sup.turn \notin Queued("reserve"))'
      BY <1>1, <2>1 DEF ChannelInv, Pending
  <2> QED BY <2>1, <2>2, <2>3, <2>4 DEF ChannelInv
<1>7. SubmitInv' /\ OwnInv'
    BY <1>1, <1>2 DEF SubmitInv, OwnInv, Gone, TypeInv
<1> QED BY <1>4, <1>5, <1>6, <1>7

-----------------------------------------------------------------------------
LEMMA StepInv == SupInv /\ [Next]_vars => SupInv'
<1> SUFFICES ASSUME SupInv, [Next]_vars PROVE SupInv'
    OBVIOUS
<1>1. ASSUME NEW t \in Turns,
             \/ ReserveCall(t) \/ SendReserve(t) \/ SendTimesOut(t) \/ ReceiveReply(t)
             \/ ReplyTimesOut(t) \/ SpawnCall(t) \/ CancelTurn(t)
             \/ TaskCancelled(t) \/ TaskFinishes(t) \/ TaskAborted(t)
      PROVE  SupInv'
    BY <1>1, ReserveCallStep, SendReserveStep, ReceiveReplyStep, SpawnCallStep, FlagStep, TaskEndStep
<1>2. CASE AskActive \/ Shutdown \/ ShutdownCall \/ SendShutdown
    BY <1>2, OtherSendStep, FlagStep
<1>3. CASE Supervisor
    BY <1>3, ReceiveStep, FlagStep, AdmitStep, DrainStep, JoinStep, LeaveStep DEF Supervisor
<1>4. CASE UNCHANGED vars
    BY <1>4, FlagStep
<1> QED BY <1>1, <1>2, <1>3, <1>4 DEF Next

LEMMA SupInvHolds == Spec => []SupInv
BY InitInv, StepInv, PTL DEF Spec

LEMMA InvGivesTypes == SupInv => TypeOK
<1> SUFFICES ASSUME SupInv PROVE TypeOK
    OBVIOUS
<1>1. free \in 0 .. max_active_turns
    BY HoldersFinite, ConfigAssumption DEF SupInv, TypeInv, PermitsConserved
<1> QED BY <1>1 DEF SupInv, TypeInv, TypeOK

LEMMA InvGivesJoined == SupInv => ShutdownJoinsAll
<1> SUFFICES ASSUME SupInv, shut \in {"ok", "supervisor_gone"}
             PROVE  /\ Gone /\ joinset = {}
                    /\ \A t \in Turns : task[t] \notin {"queued", "running"}
    BY DEF ShutdownJoinsAll
<1>1. Gone /\ joinset = {} /\ queue = << >>
    BY DEF SupInv, OwnInv, Gone
<1>2. Queued("spawn") = {}
    BY <1>1, EmptyHas DEF Queued
<1> QED BY <1>1, <1>2 DEF SupInv, OwnInv, ChannelInv

\* The state keeps its shape; the channel stays within admission_capacity
\* and free within 0 .. max_active_turns.
LEMMA SupervisorTypes == Spec => []TypeOK
BY SupInvHolds, InvGivesTypes, PTL

\* No permit of the admission semaphore is ever lost or made up, whatever
\* timeouts, cancellations, refusals and shutdown steps interleave.
THEOREM SupervisorPermits == Spec => []PermitsConserved
<1>1. SupInv => PermitsConserved
    BY DEF SupInv
<1> QED BY <1>1, SupInvHolds, PTL

\* shutdown_with_grace returns only after every spawned turn was joined and
\* no queued one can start.
THEOREM SupervisorShutdown == Spec => []ShutdownJoinsAll
BY SupInvHolds, InvGivesJoined, PTL

=============================================================================
