-------------------------- MODULE LlmGatewayProofs --------------------------
(***************************************************************************)
(* Proofs about the budgets and the concurrency permits of model calls,    *)
(* for any number of turns and any limits, requests and reports.  A        *)
(* budget is exact because a turn without a call has no reservation, and   *)
(* the number of calls holds because a call starts only below the limit:   *)
(* both are part of the inductive invariant BudgetInv.  The token rate is  *)
(* bounded because the window of the gate is what was granted in the last  *)
(* minute, and a request leaves soon after its grant: RateInv.             *)
(***************************************************************************)
EXTENDS LlmGateway, FiniteSetTheorems, WellFoundedInduction, TLAPS

Tokened == [input : Nat, output : Nat]
NoCall == {"idle", "ended"}

BudgetTypes ==
    /\ usage \in [Turns -> Usage] /\ llm_calls \in [Turns -> Usage]
    /\ request \in [Turns -> Tokened] /\ at \in [Turns -> Place]

\* What the budget, the record, the reservation and the place of a turn have
\* to do with each other.
Balanced(u, l, r, p) ==
    /\ u = Add(l, r)
    /\ Within(u) /\ u.llm_calls =< max_llm_calls
    /\ p \in NoCall => r = NoTokens
    /\ p \notin NoCall => u.llm_calls < max_llm_calls

BudgetInv == BudgetTypes /\ \A t \in Turns : Balanced(usage[t], llm_calls[t], request[t], at[t])

-----------------------------------------------------------------------------
(* The arithmetic of TurnBudget. *)

LEMMA AddFields ==
    ASSUME NEW u \in Usage, NEW r \in Tokened
    PROVE  /\ Add(u, r) = [llm_calls |-> u.llm_calls, input |-> u.input + r.input,
                           output |-> u.output + r.output, total |-> u.total + (r.input + r.output)]
           /\ Add(u, r) \in Usage
<1>1. /\ u.llm_calls \in Nat /\ u.input \in Nat /\ u.output \in Nat /\ u.total \in Nat
      /\ r.input \in Nat /\ r.output \in Nat
  BY Zenon DEF Usage, Tokened
<1>2. Add(u, r) = [llm_calls |-> u.llm_calls, input |-> u.input + r.input,
                   output |-> u.output + r.output, total |-> u.total + (r.input + r.output)]
  BY Zenon DEF Usage, Add, Tokens
<1> QED  BY <1>1, <1>2 DEF Usage

LEMMA CountFields ==
    ASSUME NEW u \in Usage
    PROVE  /\ Count(u) \in Usage /\ Count(u).llm_calls = u.llm_calls + 1
           /\ Within(Count(u)) <=> Within(u)
BY DEF Count, Usage, Within

\* What was reserved can be taken back exactly: saturation does not happen.
LEMMA SubtractAdd ==
    ASSUME NEW u \in Usage, NEW r \in Tokened
    PROVE  Subtract(Add(u, r), r) = u
<1>1. /\ u.llm_calls \in Nat /\ u.input \in Nat /\ u.output \in Nat /\ u.total \in Nat
      /\ r.input \in Nat /\ r.output \in Nat
  BY Zenon DEF Usage, Tokened
<1>2. ASSUME NEW a \in Nat, NEW b \in Nat PROVE Minus(a + b, b) = a
  BY DEF Minus
<1>3. PICK s \in Usage : s = Add(u, r)
  BY AddFields, Zenon
<1>4. /\ s.llm_calls = u.llm_calls /\ s.input = u.input + r.input
      /\ s.output = u.output + r.output /\ s.total = u.total + (r.input + r.output)
  BY <1>3, AddFields
<1>5. Subtract(s, r) = [llm_calls |-> s.llm_calls, input |-> Minus(s.input, r.input),
                        output |-> Minus(s.output, r.output), total |-> Minus(s.total, r.input + r.output)]
  BY Zenon DEF Subtract, Usage, Tokens
<1>6. /\ Minus(s.input, r.input) = u.input /\ Minus(s.output, r.output) = u.output
      /\ Minus(s.total, r.input + r.output) = u.total
  BY <1>1, <1>2, <1>4
<1>7. Subtract(s, r) = [llm_calls |-> u.llm_calls, input |-> u.input, output |-> u.output, total |-> u.total]
  BY <1>4, <1>5, <1>6, Zenon
<1>8. u = [llm_calls |-> u.llm_calls, input |-> u.input, output |-> u.output, total |-> u.total]
  BY Zenon DEF Usage
<1> QED  BY <1>3, <1>7, <1>8, Zenon

\* A budget with less in it stays within the limits.
LEMMA SmallerWithin ==
    ASSUME NEW u \in Usage, NEW r \in Tokened, Within(Add(u, r))
    PROVE  Within(u) /\ Add(u, r).llm_calls = u.llm_calls
BY AddFields, LimitsAssumption DEF Within, Usage, Tokened

LEMMA AddNothing ==
    ASSUME NEW u \in Usage
    PROVE  Add(u, NoTokens) = u /\ NoTokens \in Tokened
<1>1. NoTokens \in Tokened /\ NoTokens.input = 0 /\ NoTokens.output = 0
  BY Zenon DEF NoTokens, Tokened
<1>2. /\ u.llm_calls \in Nat /\ u.input \in Nat /\ u.output \in Nat /\ u.total \in Nat
  BY Zenon DEF Usage
<1>3. Add(u, NoTokens) = [llm_calls |-> u.llm_calls, input |-> u.input, output |-> u.output, total |-> u.total]
  BY <1>1, <1>2, AddFields
<1>4. u = [llm_calls |-> u.llm_calls, input |-> u.input, output |-> u.output, total |-> u.total]
  BY Zenon DEF Usage
<1> QED  BY <1>1, <1>3, <1>4, Zenon

-----------------------------------------------------------------------------
\* A step that leaves one turn balanced and touches no other keeps BudgetInv.
LEMMA OneTurnMoves ==
    ASSUME BudgetInv, NEW t \in Turns,
           NEW u \in Usage, NEW l \in Usage, NEW r \in Tokened, NEW p \in Place,
           Balanced(u, l, r, p),
           usage' = [usage EXCEPT ![t] = u], llm_calls' = [llm_calls EXCEPT ![t] = l],
           request' = [request EXCEPT ![t] = r], at' = [at EXCEPT ![t] = p]
    PROVE  BudgetInv'
<1>1. BudgetTypes'
  BY Zenon DEF BudgetInv, BudgetTypes
<1>2. ASSUME NEW v \in Turns PROVE Balanced(usage[v], llm_calls[v], request[v], at[v])'
  <2>1. CASE v = t
    <3>1. usage'[v] = u /\ llm_calls'[v] = l /\ request'[v] = r /\ at'[v] = p
      BY <2>1, Zenon DEF BudgetInv, BudgetTypes
    <3> QED  BY <3>1, Zenon DEF Balanced, Within, Add, Tokens
  <2>2. CASE v # t
    <3>1. /\ usage'[v] = usage[v] /\ llm_calls'[v] = llm_calls[v]
          /\ request'[v] = request[v] /\ at'[v] = at[v]
      BY <2>2, Zenon DEF BudgetInv, BudgetTypes
    <3> QED  BY <3>1, Zenon DEF BudgetInv, Balanced, Within, Add, Tokens
  <2> QED  BY <2>1, <2>2, Zenon
<1> QED  BY <1>1, <1>2, Zenon DEF BudgetInv

\* A call that goes on from one place of run_call to the next.
LEMMA CallGoesOn ==
    ASSUME BudgetInv, NEW t \in Turns, at[t] \notin NoCall, NEW p \in Place, p \notin NoCall,
           at' = [at EXCEPT ![t] = p], UNCHANGED <<usage, request, llm_calls>>
    PROVE  BudgetInv'
<1>1. /\ usage[t] \in Usage /\ llm_calls[t] \in Usage /\ request[t] \in Tokened
      /\ Balanced(usage[t], llm_calls[t], request[t], p)
  BY Zenon DEF BudgetInv, BudgetTypes, Balanced
<1>2. /\ usage' = [usage EXCEPT ![t] = usage[t]] /\ llm_calls' = [llm_calls EXCEPT ![t] = llm_calls[t]]
      /\ request' = [request EXCEPT ![t] = request[t]]
  BY Zenon DEF BudgetInv, BudgetTypes
<1> QED  BY <1>1, <1>2, OneTurnMoves, Zenon

LEMMA ReleaseBalanced ==
    ASSUME BudgetInv, NEW t \in Turns, release_llm(t)
    PROVE  BudgetInv'
<1> DEFINE l == llm_calls[t]
<1>1. l \in Usage /\ request[t] \in Tokened /\ usage[t] = Add(l, request[t])
  BY Zenon DEF BudgetInv, BudgetTypes, Balanced
<1>2. Subtract(usage[t], request[t]) = l
  BY <1>1, SubtractAdd, Zenon
<1>3. /\ usage' = [usage EXCEPT ![t] = l] /\ llm_calls' = [llm_calls EXCEPT ![t] = l]
      /\ request' = [request EXCEPT ![t] = NoTokens] /\ at' = [at EXCEPT ![t] = "ended"]
  BY <1>2, Zenon DEF release_llm, BudgetInv, BudgetTypes
<1>4. Within(l) /\ l.llm_calls =< max_llm_calls
  BY <1>1, SmallerWithin DEF BudgetInv, Balanced
<1>5. Balanced(l, l, NoTokens, "ended")
  BY <1>1, <1>4, AddNothing, Zenon DEF Balanced, NoCall
<1> HIDE DEF l
<1> QED  BY <1>1, <1>3, <1>5, OneTurnMoves, AddNothing, Zenon DEF Place

LEMMA ReserveBalanced ==
    ASSUME BudgetInv, NEW t \in Turns, NEW r \in Requests, reserve_llm(t, r)
    PROVE  BudgetInv'
<1> DEFINE l == llm_calls[t]
<1>1. /\ l \in Usage /\ r \in Tokened /\ at[t] = "idle" /\ request[t] = NoTokens /\ usage[t] = l
  BY TokensAssumption, AddNothing, Zenon DEF BudgetInv, BudgetTypes, Balanced, NoCall, Tokened, reserve_llm
<1>2. CASE usage[t].llm_calls < max_llm_calls /\ Within(Add(usage[t], r))
  <2> DEFINE u == Add(l, r)
  <2>1. u \in Usage /\ Balanced(u, l, r, "reserved")
    BY <1>1, <1>2, AddFields, LimitsAssumption DEF Balanced, NoCall, Usage
  <2>2. /\ usage' = [usage EXCEPT ![t] = u] /\ llm_calls' = [llm_calls EXCEPT ![t] = l]
        /\ request' = [request EXCEPT ![t] = r] /\ at' = [at EXCEPT ![t] = "reserved"]
    BY <1>1, <1>2, Zenon DEF reserve_llm, BudgetInv, BudgetTypes
  <2> HIDE DEF u
  <2> QED  BY <1>1, <2>1, <2>2, OneTurnMoves, Zenon DEF Place
<1>3. CASE ~(usage[t].llm_calls < max_llm_calls /\ Within(Add(usage[t], r)))
  <2>1. /\ usage' = [usage EXCEPT ![t] = l] /\ llm_calls' = [llm_calls EXCEPT ![t] = l]
        /\ request' = [request EXCEPT ![t] = NoTokens] /\ at' = [at EXCEPT ![t] = "ended"]
    BY <1>1, <1>3, Zenon DEF reserve_llm, BudgetInv, BudgetTypes
  <2>2. Balanced(l, l, NoTokens, "ended")
    BY <1>1, AddNothing, Zenon DEF Balanced, NoCall, BudgetInv
  <2> HIDE DEF l
  <2> QED  BY <1>1, <2>1, <2>2, OneTurnMoves, AddNothing, Zenon DEF Place
<1> QED  BY <1>2, <1>3, Zenon

\* Whether or not the reported usage fits, the reservation is exchanged
\* exactly; p is where the call goes.
LEMMA SettleBalanced ==
    ASSUME BudgetInv, NEW t \in Turns, at[t] \notin NoCall, NEW v \in Tokened, NEW p \in NoCall,
           settle_llm(t, v), at' = [at EXCEPT ![t] = p]
    PROVE  BudgetInv'
<1> DEFINE l == llm_calls[t]
<1>1. /\ l \in Usage /\ request[t] \in Tokened /\ usage[t] = Add(l, request[t])
      /\ usage[t].llm_calls < max_llm_calls /\ Within(usage[t])
  BY Zenon DEF BudgetInv, BudgetTypes, Balanced
<1>2. Subtract(usage[t], request[t]) = l
  BY <1>1, SubtractAdd, Zenon
<1>3. Within(l) /\ l.llm_calls < max_llm_calls
  BY <1>1, SmallerWithin
<1>4. p \in Place
  BY Zenon DEF NoCall, Place
<1>5. CASE Settles(t, v)
  <2> DEFINE u == Count(Add(l, v))
  <2>1. u \in Usage /\ Within(u)
    BY <1>1, <1>2, <1>5, AddFields, CountFields, Zenon DEF Settles
  <2>2. u.llm_calls =< max_llm_calls
    BY <1>1, <1>3, AddFields, CountFields, LimitsAssumption DEF Usage
  <2>3. Balanced(u, u, NoTokens, p)
    BY <1>1, <2>1, <2>2, AddNothing, Zenon DEF Balanced
  <2>4. /\ usage' = [usage EXCEPT ![t] = u] /\ llm_calls' = [llm_calls EXCEPT ![t] = u]
        /\ request' = [request EXCEPT ![t] = NoTokens]
    BY <1>2, <1>5, Zenon DEF settle_llm
  <2> HIDE DEF u
  <2> QED  BY <1>4, <2>1, <2>3, <2>4, OneTurnMoves, AddNothing, Zenon
<1>6. CASE ~Settles(t, v)
  <2>1. l.llm_calls =< max_llm_calls
    BY <1>1, <1>3, LimitsAssumption DEF Usage
  <2>2. Balanced(l, l, NoTokens, p)
    BY <1>1, <1>3, <2>1, AddNothing, Zenon DEF Balanced
  <2>3. /\ usage' = [usage EXCEPT ![t] = l] /\ llm_calls' = [llm_calls EXCEPT ![t] = l]
        /\ request' = [request EXCEPT ![t] = NoTokens]
    BY <1>2, <1>6, Zenon DEF settle_llm
  <2> HIDE DEF l
  <2> QED  BY <1>1, <1>4, <2>2, <2>3, OneTurnMoves, AddNothing, Zenon
<1> QED  BY <1>5, <1>6, Zenon

-----------------------------------------------------------------------------
LEMMA BudgetInit == Init => BudgetInv
<1> SUFFICES ASSUME Init PROVE BudgetInv
  BY Zenon
<1>1. Nothing \in Usage /\ NoTokens \in Tokened
  BY Zenon DEF Nothing, Usage, NoTokens, Tokened
<1>2. BudgetTypes
  BY <1>1, Zenon DEF Init, BudgetTypes, Place
<1>3. Balanced(Nothing, Nothing, NoTokens, "idle")
  BY <1>1, AddNothing, LimitsAssumption DEF Balanced, Nothing, Within, NoCall
<1>4. \A t \in Turns : /\ usage[t] = Nothing /\ llm_calls[t] = Nothing
                       /\ request[t] = NoTokens /\ at[t] = "idle"
  BY Zenon DEF Init
<1> QED  BY <1>2, <1>3, <1>4, Zenon DEF BudgetInv

LEMMA BudgetNext == BudgetInv /\ [Next]_vars => BudgetInv'
<1> SUFFICES ASSUME BudgetInv, [Next]_vars PROVE BudgetInv'
  BY Zenon
<1>0. ASSUME UNCHANGED <<usage, request, llm_calls, at>> PROVE BudgetInv'
  BY <1>0, Zenon DEF BudgetInv, BudgetTypes, Balanced, Within, Add, Tokens
<1> USE DEF NoCall
<1>1. ASSUME NEW t \in Turns, CheckCall(t) PROVE BudgetInv'
  <2>1. CASE stopped[t]
    BY <1>1, <2>1, ReleaseBalanced, Zenon DEF CheckCall
  <2>2. CASE ~stopped[t]
    BY <1>1, <2>2, CallGoesOn, Zenon DEF CheckCall, Place
  <2> QED  BY <2>1, <2>2, Zenon
<1>2. ASSUME NEW t \in Turns, AcquireQuota(t) PROVE BudgetInv'
  BY <1>2, CallGoesOn, Zenon DEF AcquireQuota, Acquire, Place
<1>3. ASSUME NEW t \in Turns, QuotaFails(t) PROVE BudgetInv'
  BY <1>3, ReleaseBalanced, Zenon DEF QuotaFails
<1>11. ASSUME NEW t \in Turns, WaitQuota(t) PROVE BudgetInv'
  <2>1. CASE stopped[t]
    BY <1>11, <2>1, ReleaseBalanced, Zenon DEF WaitQuota, Wait
  <2>2. CASE ~stopped[t]
    BY <1>11, <2>2, CallGoesOn, Zenon DEF WaitQuota, Wait, Place
  <2> QED  BY <2>1, <2>2, Zenon
<1>12. ASSUME NEW t \in Turns, Retry(t) PROVE BudgetInv'
  <2>1. PICK p \in {"rpm", "tpm"} : at' = [at EXCEPT ![t] = p]
    BY <1>12, Zenon DEF Retry
  <2> QED  BY <1>12, <2>1, CallGoesOn, Zenon DEF Retry, Place
<1>4. ASSUME NEW t \in Turns, EnterQueue(t) PROVE BudgetInv'
  <2>1. CASE stopped[t]
    BY <1>4, <2>1, ReleaseBalanced, Zenon DEF EnterQueue
  <2>2. CASE ~stopped[t]
    BY <1>4, <2>2, CallGoesOn, Zenon DEF EnterQueue, Place
  <2> QED  BY <2>1, <2>2, Zenon
<1>5. ASSUME NEW t \in Turns, AcquirePermit(t) PROVE BudgetInv'
  BY <1>5, CallGoesOn, Zenon DEF AcquirePermit, Place
<1>6. ASSUME NEW t \in Turns, QueueFails(t) PROVE BudgetInv'
  BY <1>6, ReleaseBalanced, Zenon DEF QueueFails
<1>7. ASSUME NEW t \in Turns, Answer(t) PROVE BudgetInv'
  <2>1. PICK u \in Reported, p \in NoCall : settle_llm(t, u) /\ at' = [at EXCEPT ![t] = p]
    BY <1>7, Zenon DEF Answer
  <2>2. u \in Tokened /\ at[t] \notin NoCall
    BY <1>7, TokensAssumption, Zenon DEF Tokened, Answer
  <2> QED  BY <2>1, <2>2, SettleBalanced, Zenon
<1>8. ASSUME NEW t \in Turns, CallFails(t) PROVE BudgetInv'
  <2>1. [input |-> request[t].input, output |-> 0] \in Tokened /\ at[t] \notin NoCall
    BY <1>8, Zenon DEF BudgetInv, BudgetTypes, Tokened, CallFails
  <2> QED  BY <1>8, <2>1, SettleBalanced, Zenon DEF CallFails
<1>9. ASSUME NEW t \in Turns, NEW r \in Requests, reserve_llm(t, r) PROVE BudgetInv'
  BY <1>9, ReserveBalanced, Zenon
<1>10. ASSUME (\E t \in Turns : Stop(t)) \/ Tick \/ UNCHANGED vars PROVE BudgetInv'
  BY <1>0, <1>10, Zenon DEF Stop, Tick, vars
<1> QED  BY <1>1, <1>2, <1>3, <1>4, <1>5, <1>6, <1>7, <1>8, <1>9, <1>10, <1>11, <1>12, Zenon DEF Next, Step

\* On every way out of a call, in whatever order turns call, wait and fail, a
\* turn's budget is its recorded usage plus its current reservation.
THEOREM GatewayBudgetExact == Spec => []BudgetExact
<1>1. BudgetInv => BudgetExact
  BY Zenon DEF BudgetInv, Balanced, BudgetExact
<1> QED  BY BudgetInit, BudgetNext, <1>1, PTL DEF Spec

\* Reserved and recorded usage together stay within the limits of the turn,
\* whatever the provider reports.
THEOREM GatewayBudgetHeld == Spec => []BudgetHeld
<1>1. BudgetInv => BudgetHeld
  BY Zenon DEF BudgetInv, Balanced, BudgetHeld
<1> QED  BY BudgetInit, BudgetNext, <1>1, PTL DEF Spec

\* For any number of turns, limits, requests and reports, budgets are exact and
\* kept.
THEOREM GatewayBudget == Spec => []BudgetSound
<1>1. BudgetExact /\ BudgetHeld => BudgetSound
  BY Zenon DEF BudgetSound
<1> QED  BY <1>1, GatewayBudgetExact, GatewayBudgetHeld, PTL

-----------------------------------------------------------------------------
(* The permits of the semaphore. *)

Calling == {t \in Turns : at[t] = "calling"}
PermitInv == permits \in Int /\ PermitsConserved

\* The set of calling turns is finite; one turn more or less counts one.
LEMMA CallingCounts ==
    ASSUME NEW S \in SUBSET Turns, NEW t \in Turns
    PROVE  /\ Cardinality(S) \in Nat
           /\ t \notin S => Cardinality(S \cup {t}) = Cardinality(S) + 1
           /\ t \in S => Cardinality(S \ {t}) = Cardinality(S) - 1
<1>1. IsFiniteSet(S)
  BY TurnsAssumption, FS_Subset, Zenon
<1> QED  BY <1>1, FS_CardinalityType, FS_AddElement, FS_RemoveElement, Zenon

LEMMA PermitNext == BudgetInv /\ PermitInv /\ [Next]_vars => PermitInv'
<1> SUFFICES ASSUME BudgetInv, PermitInv, [Next]_vars PROVE PermitInv'
  BY Zenon
<1>0. at \in [Turns -> Place]
  BY Zenon DEF BudgetInv, BudgetTypes
<1> USE DEF PermitInv, PermitsConserved
<1>a. ASSUME permits' = permits, Calling' = Calling PROVE PermitInv'
  BY <1>a, Zenon DEF Calling
<1>b. ASSUME NEW t \in Turns, NEW p \in Place, at[t] # "calling", p # "calling",
             at' = [at EXCEPT ![t] = p], permits' = permits
      PROVE  PermitInv'
  BY <1>0, <1>a, <1>b, Zenon DEF Calling
<1>c. ASSUME NEW t \in Turns, at[t] = "calling", NEW p \in NoCall,
             at' = [at EXCEPT ![t] = p], permits' = permits + 1
      PROVE  PermitInv'
  <2>1. Calling' = Calling \ {t} /\ t \in Calling /\ Calling \in SUBSET Turns
    BY <1>0, <1>c, Zenon DEF Calling, NoCall
  <2>2. Cardinality(Calling \ {t}) = Cardinality(Calling) - 1 /\ Cardinality(Calling) \in Nat
    BY <2>1, CallingCounts, Zenon
  <2>3. permits + Cardinality(Calling) = max_concurrent /\ permits \in Int /\ permits >= 0
    BY Zenon DEF Calling
  <2>4. permits' + Cardinality(Calling') = max_concurrent
    BY <1>c, <2>1, <2>2, <2>3
  <2> QED  BY <1>c, <2>3, <2>4 DEF Calling
<1>1. ASSUME NEW t \in Turns, CheckCall(t) PROVE PermitInv'
  BY <1>1, <1>b, Zenon DEF CheckCall, release_llm, limiter, Place
<1>2. ASSUME NEW t \in Turns, AcquireQuota(t) PROVE PermitInv'
  BY <1>2, <1>b, Zenon DEF AcquireQuota, Acquire, Place
<1>3. ASSUME NEW t \in Turns, QuotaFails(t) \/ QueueFails(t) PROVE PermitInv'
  BY <1>3, <1>b, Zenon DEF QuotaFails, QueueFails, release_llm, limiter, Place
<1>10. ASSUME NEW t \in Turns, WaitQuota(t) PROVE PermitInv'
  BY <1>10, <1>b, Zenon DEF WaitQuota, Wait, release_llm, Place
<1>11. ASSUME NEW t \in Turns, Retry(t) PROVE PermitInv'
  <2>1. PICK p \in {"rpm", "tpm"} : at' = [at EXCEPT ![t] = p]
    BY <1>11, Zenon DEF Retry
  <2> QED  BY <1>11, <1>b, <2>1, Zenon DEF Retry, limiter, Place
<1>4. ASSUME NEW t \in Turns, EnterQueue(t) PROVE PermitInv'
  BY <1>4, <1>b, Zenon DEF EnterQueue, release_llm, Place
<1>5. ASSUME NEW t \in Turns, AcquirePermit(t) PROVE PermitInv'
  <2>1. Calling' = Calling \cup {t} /\ t \notin Calling /\ Calling \in SUBSET Turns
    BY <1>0, <1>5, Zenon DEF Calling, AcquirePermit, Place
  <2>2. Cardinality(Calling \cup {t}) = Cardinality(Calling) + 1 /\ Cardinality(Calling) \in Nat
    BY <2>1, CallingCounts, Zenon
  <2>3. permits + Cardinality(Calling) = max_concurrent /\ permits \in Int /\ permits' = permits - 1 /\ permits > 0
    BY <1>5, Zenon DEF Calling, AcquirePermit
  <2>4. permits' + Cardinality(Calling') = max_concurrent
    BY <2>1, <2>2, <2>3
  <2> QED  BY <2>3, <2>4 DEF Calling
<1>6. ASSUME NEW t \in Turns, Answer(t) PROVE PermitInv'
  <2>1. PICK u \in Reported, p \in NoCall : settle_llm(t, u) /\ at' = [at EXCEPT ![t] = p]
    BY <1>6, Zenon DEF Answer, NoCall
  <2> QED  BY <1>6, <1>c, <2>1, Zenon DEF Answer, settle_llm
<1>7. ASSUME NEW t \in Turns, CallFails(t) PROVE PermitInv'
  BY <1>7, <1>c, Zenon DEF CallFails, settle_llm, NoCall
<1>8. ASSUME NEW t \in Turns, NEW r \in Requests, reserve_llm(t, r) PROVE PermitInv'
  BY <1>8, <1>b, Zenon DEF reserve_llm, limiter, Place
<1>9. ASSUME (\E t \in Turns : Stop(t)) \/ Tick \/ UNCHANGED vars PROVE PermitInv'
  BY <1>9, Zenon DEF Stop, Tick, limiter, vars
<1> QED  BY <1>1, <1>2, <1>3, <1>4, <1>5, <1>6, <1>7, <1>8, <1>9, <1>10, <1>11, Zenon DEF Next, Step

LEMMA PermitInit == Init => PermitInv
<1> SUFFICES ASSUME Init PROVE PermitInv
  BY Zenon
<1>1. {t \in Turns : at[t] = "calling"} = {}
  BY Zenon DEF Init
<1>2. Cardinality({t \in Turns : at[t] = "calling"}) = 0
  BY <1>1, FS_EmptySet, Zenon
<1>3. permits = max_concurrent /\ max_concurrent \in Nat
  BY LimitsAssumption, Zenon DEF Init
<1> QED  BY <1>2, <1>3 DEF PermitInv, PermitsConserved

\* Every permit of the limiter is free or held by a turn whose call is at the
\* provider, however calls end.
THEOREM GatewayPermits == Spec => []PermitsConserved
<1>1. PermitInv => PermitsConserved
  BY Zenon DEF PermitInv
<1> QED  BY BudgetInit, BudgetNext, PermitInit, PermitNext, <1>1, PTL DEF Spec

-----------------------------------------------------------------------------
(* Induction. *)

(* A set of natural numbers that is not empty has a least one.              *)
LEMMA LeastNat ==
    ASSUME NEW T, T \subseteq Nat, T # {}
    PROVE  \E x \in T : \A y \in T : x <= y
<1> DEFINE R == {ss \in Nat \X Nat : ss[1] < ss[2]}
<1>1. IsWellFoundedOn(R, Nat)
  BY NatLessThanWellFounded, Zenon DEF OpToRel
<1> HIDE DEF R
<1>2. PICK x \in T : \A y \in T : ~ (<<y, x>> \in R)
  BY <1>1, WFMin, Zenon
<1>3. ASSUME NEW y \in T PROVE x <= y
  <2>1. <<y, x>> \notin R
    BY <1>2, Zenon
  <2>2. <<y, x>> \in Nat \X Nat
    BY Zenon
  <2>3. ~(y < x)
    BY <2>1, <2>2, Zenon DEF R
  <2> QED BY <2>3
<1> QED BY <1>3, Zenon

(* Induction, as a fact about sets.                                         *)
LEMMA Induct ==
    ASSUME NEW S, 0 \in S, \A n \in Nat : n \in S => n + 1 \in S
    PROVE  Nat \subseteq S
<1> DEFINE T == Nat \ S
<1> SUFFICES ASSUME T # {} PROVE FALSE
  BY Zenon
<1>1. PICK x \in T : \A y \in T : x <= y
  BY LeastNat, Zenon
<1>2. x # 0 /\ x \in Nat
  BY <1>1, Zenon
<1>3. x - 1 \in Nat /\ x - 1 \notin T
  BY <1>1, <1>2
<1> QED BY <1>1, <1>2, <1>3

-----------------------------------------------------------------------------
(* The tokens of a window. *)

Part(w, I, i) == IF i \in I THEN w[i].tokens ELSE 0
Tallied(w) == Len(w) \in Nat /\ \A i \in 1 .. Len(w) : w[i].tokens \in Nat

\* Total, as the steps of its recursion.
LEMMA TotalDef ==
    ASSUME NEW w, NEW I, Len(w) \in Nat
    PROVE  \E sum : /\ Total(w, I) = sum[Len(w)]
                    /\ sum[0] = 0
                    /\ \A i \in 1 .. Len(w) : sum[i] = sum[i - 1] + Part(w, I, i)
<1> DEFINE n == Len(w)
           Base == 0
           Plus(v, i) == v + IF i \in I THEN w[i].tokens ELSE 0
           Is(f, m) == f = [i \in 0 .. m |-> IF i = 0 THEN Base ELSE Plus(f[i - 1], i)]
           S == {m \in Nat : \E f : Is(f, m)}
           all == CHOOSE f : Is(f, n)
<1>n. n \in Nat
  BY Zenon
<1>all. Total(w, I) = all[n]
  BY Zenon DEF Total
<1> HIDE DEF Base, Plus, n
<1>1. 0 \in S
  <2> DEFINE f == [i \in 0 .. 0 |-> Base]
  <2>1. \A i \in 0 .. 0 : i = 0
    OBVIOUS
  <2>2. Is(f, 0)
    <3> HIDE DEF f
    <3> QED BY <2>1, Zenon DEF f
  <2> QED BY <2>2, Zenon
<1>2. ASSUME NEW m \in Nat, m \in S PROVE m + 1 \in S
  <2>1. PICK f : Is(f, m)
    BY <1>2, Zenon
  <2> DEFINE g == [i \in 0 .. m + 1 |-> IF i <= m THEN f[i] ELSE Plus(f[m], m + 1)]
             h == [i \in 0 .. m + 1 |-> IF i = 0 THEN Base ELSE Plus(g[i - 1], i)]
  <2>2. ASSUME NEW i \in 0 .. m + 1 PROVE g[i] = h[i]
    <3>1. CASE i = 0
      BY <2>1, <3>1
    <3>2. CASE i \in 1 .. m
      <4>1. g[i] = f[i] /\ g[i - 1] = f[i - 1]
        BY <3>2
      <4>2. h[i] = Plus(f[i - 1], i) /\ f[i] = Plus(f[i - 1], i)
        BY <2>1, <3>2, <4>1
      <4> QED BY <4>1, <4>2, Zenon
    <3>3. CASE i = m + 1
      <4>1. g[i] = Plus(f[m], i) /\ g[i - 1] = f[m]
        BY <3>3
      <4> QED BY <3>3, <4>1
    <3> QED BY <3>1, <3>2, <3>3
  <2>3. g = h
    <3>1. g = [i \in 0 .. m + 1 |-> g[i]] /\ h = [i \in 0 .. m + 1 |-> h[i]]
      OBVIOUS
    <3> HIDE DEF g, h
    <3> QED BY <2>2, <3>1, Zenon
  <2>4. Is(g, m + 1)
    <3> HIDE DEF g
    <3> QED BY <2>3, Zenon
  <2> HIDE DEF Is, g
  <2> QED BY <2>4
<1>3. Is(all, n)
  <2>1. n \in S
    <3> HIDE DEF S
    <3> QED BY <1>1, <1>2, <1>n, Induct, Zenon
  <2> HIDE DEF Is
  <2> QED BY <2>1, Zenon
<1>4. all[0] = Base /\ \A i \in 1 .. n : all[i] = Plus(all[i - 1], i)
  <2> HIDE DEF all
  <2> QED BY <1>n, <1>3
<1> HIDE DEF all
<1> QED BY <1>all, <1>4, Zenon DEF Base, Plus, n, Part

\* What holds of each position holds of the total: the tokens of one window
\* are no more than those of two others when that is so position by position.
LEMMA TotalAtMost ==
    ASSUME NEW w, NEW I, NEW v, NEW J, NEW u, NEW K, NEW n \in Nat,
           Len(w) = n, Len(v) = n, Len(u) = n, Tallied(w), Tallied(v), Tallied(u),
           \A i \in 1 .. n : Part(w, I, i) <= Part(v, J, i) + Part(u, K, i)
    PROVE  /\ Total(w, I) \in Nat /\ Total(v, J) \in Nat /\ Total(u, K) \in Nat
           /\ Total(w, I) <= Total(v, J) + Total(u, K)
<1>1. PICK a : /\ Total(w, I) = a[n] /\ a[0] = 0
               /\ \A i \in 1 .. n : a[i] = a[i - 1] + Part(w, I, i)
  BY TotalDef
<1>2. PICK b : /\ Total(v, J) = b[n] /\ b[0] = 0
               /\ \A i \in 1 .. n : b[i] = b[i - 1] + Part(v, J, i)
  BY TotalDef
<1>3. PICK c : /\ Total(u, K) = c[n] /\ c[0] = 0
               /\ \A i \in 1 .. n : c[i] = c[i - 1] + Part(u, K, i)
  BY TotalDef
<1>4. \A i \in 1 .. n : Part(w, I, i) \in Nat /\ Part(v, J, i) \in Nat /\ Part(u, K, i) \in Nat
  BY Zenon DEF Part, Tallied
<1> DEFINE OK == {m \in Nat : m <= n => /\ a[m] \in Nat /\ b[m] \in Nat /\ c[m] \in Nat
                                        /\ a[m] <= b[m] + c[m]}
<1>5. 0 \in OK
  BY <1>1, <1>2, <1>3
<1>6. ASSUME NEW m \in Nat, m \in OK PROVE m + 1 \in OK
  <2> SUFFICES ASSUME m + 1 <= n
               PROVE  /\ a[m + 1] \in Nat /\ b[m + 1] \in Nat /\ c[m + 1] \in Nat
                      /\ a[m + 1] <= b[m + 1] + c[m + 1]
    OBVIOUS
  <2>1. m + 1 \in 1 .. n /\ (m + 1) - 1 = m
    OBVIOUS
  <2>2. /\ a[m] \in Nat /\ b[m] \in Nat /\ c[m] \in Nat /\ a[m] <= b[m] + c[m]
    BY <1>6
  <2>3. /\ a[m + 1] = a[m] + Part(w, I, m + 1) /\ b[m + 1] = b[m] + Part(v, J, m + 1)
        /\ c[m + 1] = c[m] + Part(u, K, m + 1)
    BY <1>1, <1>2, <1>3, <2>1, Zenon
  <2>4. /\ Part(w, I, m + 1) \in Nat /\ Part(v, J, m + 1) \in Nat /\ Part(u, K, m + 1) \in Nat
        /\ Part(w, I, m + 1) <= Part(v, J, m + 1) + Part(u, K, m + 1)
    BY <1>4, <2>1, Zenon
  <2> HIDE DEF OK
  <2>5. a[m + 1] \in Nat
    BY <2>2, <2>3, <2>4
  <2>6. b[m + 1] \in Nat
    BY <2>2, <2>3, <2>4
  <2>7. c[m + 1] \in Nat
    BY <2>2, <2>3, <2>4
  <2>8. a[m] + Part(w, I, m + 1) <= (b[m] + c[m]) + (Part(v, J, m + 1) + Part(u, K, m + 1))
    BY <2>2, <2>4
  <2>9. (b[m] + c[m]) + (Part(v, J, m + 1) + Part(u, K, m + 1)) = b[m + 1] + c[m + 1]
    BY <2>2, <2>3, <2>4
  <2> QED BY <2>3, <2>5, <2>6, <2>7, <2>8, <2>9, Zenon
<1>7. n \in OK
  <2> HIDE DEF OK
  <2> QED BY <1>5, <1>6, Induct, Zenon
<1> QED BY <1>1, <1>2, <1>3, <1>7

\* Fewer positions, fewer tokens; and of two windows with the same tokens the
\* same positions have the same total.
LEMMA TotalOf ==
    ASSUME NEW w, NEW v, NEW I, NEW J, Tallied(w), Tallied(v), Len(v) = Len(w),
           \A i \in 1 .. Len(w) : i \in I => i \in J /\ w[i].tokens = v[i].tokens
    PROVE  Total(w, I) \in Nat /\ Total(v, J) \in Nat /\ Total(w, I) <= Total(v, J)
<1> DEFINE n == Len(w)
<1>0. n \in Nat
  BY Zenon DEF Tallied
<1>1. \A i \in 1 .. n : Part(w, I, i) <= Part(v, J, i) + Part(w, {}, i)
  BY DEF Part, Tallied
<1>2. \A i \in 1 .. n : Part(w, {}, i) <= Part(w, {}, i) + Part(w, {}, i)
  BY DEF Part
<1>3. PICK c : Total(w, {}) = c[n] /\ c[0] = 0 /\ \A i \in 1 .. n : c[i] = c[i - 1] + Part(w, {}, i)
  BY <1>0, TotalDef
<1> DEFINE OK == {m \in Nat : m <= n => c[m] = 0}
<1>4. 0 \in OK
  BY <1>3, Zenon
<1>5. ASSUME NEW m \in Nat, m \in OK PROVE m + 1 \in OK
  <2> SUFFICES ASSUME m + 1 <= n PROVE c[m + 1] = 0
    OBVIOUS
  <2>1. m + 1 \in 1 .. n /\ (m + 1) - 1 = m /\ c[m] = 0
    BY <1>0, <1>5
  <2> QED BY <1>3, <2>1 DEF Part
<1>6. n \in OK
  <2> HIDE DEF OK, n
  <2> QED BY <1>0, <1>4, <1>5, Induct, Zenon
<1>7. Total(w, {}) = 0
  BY <1>3, <1>6
<1>8. /\ Total(w, I) \in Nat /\ Total(v, J) \in Nat
      /\ Total(w, I) <= Total(v, J) + Total(w, {})
  <2> HIDE DEF n
  <2> QED BY <1>0, <1>1, TotalAtMost, Zenon DEF n
<1> QED BY <1>7, <1>8

\* The total of a window, of which v leaves out the first k positions.
LEMMA TotalShift ==
    ASSUME NEW w, NEW I, NEW v, NEW J, NEW n \in Nat, NEW k \in Nat, Len(w) = k + n, Len(v) = n,
           \A i \in 1 .. k : Part(w, I, i) = 0,
           \A i \in 1 .. n : Part(v, J, i) = Part(w, I, k + i)
    PROVE  Total(v, J) = Total(w, I)
<1>1. PICK a : /\ Total(w, I) = a[k + n] /\ a[0] = 0
               /\ \A i \in 1 .. k + n : a[i] = a[i - 1] + Part(w, I, i)
  <2>1. Len(w) \in Nat
    OBVIOUS
  <2>2. \E a : /\ Total(w, I) = a[Len(w)]
               /\ a[0] = 0
               /\ \A i \in 1 .. Len(w) : a[i] = a[i - 1] + Part(w, I, i)
    BY <2>1, TotalDef, Zenon
  <2> QED BY <2>2, Zenon
<1>2. PICK b : /\ Total(v, J) = b[n] /\ b[0] = 0
               /\ \A i \in 1 .. n : b[i] = b[i - 1] + Part(v, J, i)
  BY TotalDef
<1> DEFINE Zero == {m \in Nat : m <= k => a[m] = 0}
           OK == {m \in Nat : m <= n => a[k + m] = b[m]}
<1>3. 0 \in Zero
  BY <1>1, Zenon
<1>4. ASSUME NEW m \in Nat, m \in Zero PROVE m + 1 \in Zero
  <2> SUFFICES ASSUME m + 1 <= k PROVE a[m + 1] = 0
    OBVIOUS
  <2>1. m + 1 \in 1 .. k /\ m + 1 \in 1 .. k + n /\ (m + 1) - 1 = m /\ a[m] = 0
    BY <1>4
  <2> QED BY <1>1, <2>1
<1>5. k \in Zero
  <2> HIDE DEF Zero
  <2> QED BY <1>3, <1>4, Induct, Zenon
<1>6. 0 \in OK
  <2>1. a[k] = 0 /\ k + 0 = k
    BY <1>5
  <2> QED BY <1>2, <2>1, Zenon
<1>7. ASSUME NEW m \in Nat, m \in OK PROVE m + 1 \in OK
  <2> SUFFICES ASSUME m + 1 <= n PROVE a[k + (m + 1)] = b[m + 1]
    OBVIOUS
  <2>1. /\ m + 1 \in 1 .. n /\ k + (m + 1) \in 1 .. k + n /\ (m + 1) - 1 = m /\ (k + (m + 1)) - 1 = k + m
        /\ a[k + m] = b[m]
    BY <1>7
  <2>2. a[k + (m + 1)] = a[k + m] + Part(w, I, k + (m + 1)) /\ b[m + 1] = b[m] + Part(v, J, m + 1)
    BY <1>1, <1>2, <2>1, Zenon
  <2>3. Part(v, J, m + 1) = Part(w, I, k + (m + 1))
    BY <2>1, Zenon
  <2> QED BY <2>1, <2>2, <2>3, Zenon
<1>8. n \in OK
  <2> HIDE DEF OK
  <2> QED BY <1>6, <1>7, Induct, Zenon
<1> QED BY <1>1, <1>2, <1>8

\* One grant more.
LEMMA TotalAppend ==
    ASSUME NEW w, NEW I, NEW v, NEW J, NEW n \in Nat, Len(w) = n, Len(v) = n + 1,
           \A i \in 1 .. n : Part(v, J, i) = Part(w, I, i)
    PROVE  Total(v, J) = Total(w, I) + Part(v, J, n + 1)
<1>1. PICK a : /\ Total(v, J) = a[n + 1] /\ a[0] = 0
               /\ \A i \in 1 .. n + 1 : a[i] = a[i - 1] + Part(v, J, i)
  <2>1. Len(v) \in Nat
    OBVIOUS
  <2> QED BY <2>1, TotalDef
<1>2. PICK b : /\ Total(w, I) = b[n] /\ b[0] = 0
               /\ \A i \in 1 .. n : b[i] = b[i - 1] + Part(w, I, i)
  BY TotalDef
<1> DEFINE OK == {m \in Nat : m <= n => a[m] = b[m]}
<1>3. 0 \in OK
  BY <1>1, <1>2, Zenon
<1>4. ASSUME NEW m \in Nat, m \in OK PROVE m + 1 \in OK
  <2> SUFFICES ASSUME m + 1 <= n PROVE a[m + 1] = b[m + 1]
    OBVIOUS
  <2>1. m + 1 \in 1 .. n /\ m + 1 \in 1 .. n + 1 /\ (m + 1) - 1 = m /\ a[m] = b[m]
    BY <1>4
  <2> QED BY <1>1, <1>2, <2>1, Zenon
<1>5. n \in OK
  <2> HIDE DEF OK
  <2> QED BY <1>3, <1>4, Induct, Zenon
<1>6. n + 1 \in 1 .. n + 1 /\ (n + 1) - 1 = n
  OBVIOUS
<1> QED BY <1>1, <1>2, <1>5, <1>6

-----------------------------------------------------------------------------
(* The token gate. *)

Later(w, y) == {i \in DOMAIN w : w[i].at > y}
Between(w, x, y) == {i \in DOMAIN w : x <= w[i].at /\ w[i].at <= y}
Window == Seq([at : Nat, tokens : Nat])
Grants == Seq([turn : Turns, at : Nat, tokens : Nat, left : Nat \cup {Never}])

\* A request leaves, if at all, when it was granted or while it waits for a
\* permit; a grant that was not used yet belongs to a call that waits, or to
\* one that was given up.
GrantsOK ==
    /\ now \in Nat /\ timer \in [Turns -> Nat] /\ grants \in Grants
    /\ \A k \in DOMAIN grants :
          /\ grants[k].at <= now
          /\ grants[k].left # Never => /\ grants[k].at <= grants[k].left
                                       /\ grants[k].left <= grants[k].at + queue_timeout
          /\ grants[k].left = Never =>
                /\ at[grants[k].turn] \in {"permit", "queue", "ended"}
                /\ at[grants[k].turn] = "permit" => grants[k].at = now
                /\ at[grants[k].turn] = "queue" => grants[k].at + queue_timeout = timer[grants[k].turn]
    /\ \A t \in Turns : at[t] = "queue" => now <= timer[t]

\* What the gate remembers is what it granted in the last minute.
WindowOK ==
    /\ window \in [Gate -> Window]
    /\ \A y \in Int : y >= now - WINDOW =>
          Total(window["tpm"], Later(window["tpm"], y)) = Total(grants, Later(grants, y))

\* In no minute more is granted than the limit.
RateOK == \A x \in Int : Total(grants, Between(grants, x, x + WINDOW - 1)) <= tpm

RateInv == GrantsOK /\ WindowOK /\ RateOK

LEMMA Elements ==
    ASSUME NEW S, NEW w \in Seq(S)
    PROVE  Len(w) \in Nat /\ DOMAIN w = 1 .. Len(w) /\ \A i \in 1 .. Len(w) : w[i] \in S
OBVIOUS

LEMMA AppendElement ==
    ASSUME NEW S, NEW w \in Seq(S), NEW e \in S
    PROVE  /\ Append(w, e) \in Seq(S) /\ Len(Append(w, e)) = Len(w) + 1
           /\ DOMAIN Append(w, e) = 1 .. Len(w) + 1
           /\ \A i \in 1 .. Len(w) : Append(w, e)[i] = w[i]
           /\ Append(w, e)[Len(w) + 1] = e
OBVIOUS

LEMMA WindowTallied ==
    ASSUME NEW w \in Window
    PROVE  /\ Tallied(w) /\ Len(w) \in Nat /\ DOMAIN w = 1 .. Len(w)
           /\ \A i \in 1 .. Len(w) : w[i].at \in Nat /\ w[i].tokens \in Nat
<1>1. w \in Seq([at : Nat, tokens : Nat])
  BY Zenon DEF Window
<1>2. Len(w) \in Nat /\ DOMAIN w = 1 .. Len(w) /\ \A i \in 1 .. Len(w) : w[i] \in [at : Nat, tokens : Nat]
  BY <1>1, Elements, Zenon
<1>3. \A i \in 1 .. Len(w) : w[i].at \in Nat /\ w[i].tokens \in Nat
  BY <1>2, Zenon
<1> QED BY <1>2, <1>3, Zenon DEF Tallied

LEMMA GrantsTallied ==
    ASSUME NEW w \in Grants
    PROVE  /\ Tallied(w) /\ Len(w) \in Nat /\ DOMAIN w = 1 .. Len(w)
           /\ \A i \in 1 .. Len(w) : /\ w[i].turn \in Turns /\ w[i].at \in Nat /\ w[i].tokens \in Nat
                                     /\ w[i].left \in Nat \cup {Never}
<1>1. w \in Seq([turn : Turns, at : Nat, tokens : Nat, left : Nat \cup {Never}])
  BY Zenon DEF Grants
<1>2. Len(w) \in Nat /\ DOMAIN w = 1 .. Len(w)
      /\ \A i \in 1 .. Len(w) : w[i] \in [turn : Turns, at : Nat, tokens : Nat, left : Nat \cup {Never}]
  BY <1>1, Elements, Zenon
<1>3. \A i \in 1 .. Len(w) : /\ w[i].turn \in Turns /\ w[i].at \in Nat /\ w[i].tokens \in Nat
                             /\ w[i].left \in Nat \cup {Never}
  BY <1>2, Zenon
<1> QED BY <1>2, <1>3, Zenon DEF Tallied

\* Live drops grants of the front that are a minute old, and only those.
LEMMA LiveSplit ==
    ASSUME NEW g \in Gate, window[g] \in Window, now \in Nat
    PROVE  \E n \in 0 .. Len(window[g]) :
              /\ Live(g) = Without(window[g], n)
              /\ \A i \in 1 .. n : now - window[g][i].at >= WINDOW
<1> DEFINE w == window[g]
           old(i) == now - w[i].at >= WINDOW
           Cut(n) == (\A i \in 1 .. n : old(i)) /\ (n < Len(w) => ~old(n + 1))
           S == {n \in 0 .. Len(w) : n < Len(w) => ~old(n + 1)}
<1>0. Len(w) \in Nat
  BY WindowTallied, Zenon
<1>1. Live(g) = Without(w, CHOOSE n \in 0 .. Len(w) : Cut(n))
  BY Zenon DEF Live
<1> HIDE DEF w
<1>2. S \subseteq Nat /\ Len(w) \in S
  BY <1>0
<1>3. PICK n \in S : \A y \in S : n <= y
  <2> HIDE DEF S
  <2> QED BY <1>2, LeastNat, Zenon
<1>4. ASSUME NEW i \in 1 .. n PROVE old(i)
  <2>1. i - 1 \in 0 .. Len(w) /\ ~(n <= i - 1) /\ i - 1 < Len(w) /\ (i - 1) + 1 = i
    BY <1>0, <1>3
  <2>2. i - 1 \notin S
    <3> HIDE DEF S
    <3> QED BY <1>3, <2>1, Zenon
  <2> HIDE DEF old
  <2> QED BY <2>1, <2>2, Zenon
<1>5. n \in 0 .. Len(w) /\ Cut(n)
  <2> HIDE DEF old
  <2> QED BY <1>3, <1>4, Zenon
<1>6. (CHOOSE m \in 0 .. Len(w) : Cut(m)) \in 0 .. Len(w) /\ Cut(CHOOSE m \in 0 .. Len(w) : Cut(m))
  <2> HIDE DEF Cut
  <2> QED BY <1>5, Zenon
<1>7. PICK m \in 0 .. Len(w) : Live(g) = Without(w, m) /\ Cut(m)
  <2> HIDE DEF Cut
  <2> QED BY <1>1, <1>6, Zenon
<1> QED BY <1>7, Zenon DEF w

LEMMA LiveWindow ==
    ASSUME NEW g \in Gate, window[g] \in Window, now \in Nat
    PROVE  /\ Live(g) \in Window
           /\ \A y \in Int : y >= now - WINDOW => Total(Live(g), Later(Live(g), y)) = Total(window[g], Later(window[g], y))
<1> DEFINE w == window[g]
           v == Live(g)
<1>1. PICK n \in 0 .. Len(w) : v = Without(w, n) /\ \A i \in 1 .. n : now - w[i].at >= WINDOW
  BY LiveSplit, Zenon
<1>2. Len(w) \in Nat /\ DOMAIN w = 1 .. Len(w) /\ \A i \in 1 .. Len(w) : w[i].at \in Nat /\ w[i].tokens \in Nat
      /\ w \in Window
  BY WindowTallied, Zenon
<1>a. n \in Nat /\ Len(w) - n \in Nat /\ n + (Len(w) - n) = Len(w)
  BY <1>1, <1>2
<1>3. v = [i \in 1 .. Len(w) - n |-> w[n + i]]
  BY <1>1, Zenon DEF Without
<1> HIDE DEF v, w
<1>4. ASSUME NEW i \in 1 .. Len(w) - n PROVE n + i \in 1 .. Len(w) /\ v[i] = w[n + i]
  BY <1>a, <1>2, <1>3
<1>5. v \in Window
  <2>1. \A j \in 1 .. Len(w) : w[j] \in [at : Nat, tokens : Nat]
    BY <1>2, Elements, Zenon DEF Window
  <2>2. \A i \in 1 .. Len(w) - n : w[n + i] \in [at : Nat, tokens : Nat]
    BY <1>4, <2>1, Zenon
  <2> QED BY <1>a, <1>3, <2>2 DEF Window
<1>6. Len(v) = Len(w) - n /\ DOMAIN v = 1 .. Len(w) - n
  BY <1>a, <1>3
<1>7. ASSUME NEW y \in Int, y >= now - WINDOW PROVE Total(v, Later(v, y)) = Total(w, Later(w, y))
  <2>1. ASSUME NEW i \in 1 .. n PROVE Part(w, Later(w, y), i) = 0
    <3>1. i \in 1 .. Len(w) /\ w[i].at \in Nat /\ now - w[i].at >= WINDOW
      BY <1>1, <1>2
    <3>2. ~(w[i].at > y)
      BY <1>7, <3>1, LimitsAssumption
    <3> QED BY <3>2, Zenon DEF Part, Later
  <2>2. ASSUME NEW i \in 1 .. Len(w) - n PROVE Part(v, Later(v, y), i) = Part(w, Later(w, y), n + i)
    <3>1. i \in Later(v, y) <=> n + i \in Later(w, y)
      BY <1>2, <1>4, <1>6, Zenon DEF Later
    <3> QED BY <1>4, <3>1, Zenon DEF Part
  <2>3. ASSUME NEW m \in Nat, m = Len(w) - n PROVE Total(v, Later(v, y)) = Total(w, Later(w, y))
    <3>1. Len(w) = n + m /\ Len(v) = m
      BY <1>a, <1>6, <2>3, Zenon
    <3>2. \A i \in 1 .. m : Part(v, Later(v, y), i) = Part(w, Later(w, y), n + i)
      BY <2>2, <2>3, Zenon
    <3> QED BY <1>a, <2>1, <3>1, <3>2, TotalShift
  <2> QED BY <1>a, <2>3, Zenon
<1> QED BY <1>5, <1>7, Zenon DEF v, w

\* One grant more, at the end of a window or of the record.
Longer(v, w, n, a, c) ==
    /\ n \in Nat /\ a \in Nat /\ c \in Nat
    /\ Len(w) = n /\ DOMAIN w = 1 .. n
    /\ Len(v) = n + 1 /\ DOMAIN v = 1 .. n + 1
    /\ \A i \in 1 .. n : v[i] = w[i]
    /\ v[n + 1].at = a /\ v[n + 1].tokens = c

LEMMA OneMore ==
    ASSUME NEW w, NEW v, NEW n, NEW c, NEW a, Longer(v, w, n, a, c)
    PROVE  /\ \A y \in Int : Total(v, Later(v, y)) = Total(w, Later(w, y)) + (IF a > y THEN c ELSE 0)
           /\ \A x, y \in Int : Total(v, Between(v, x, y)) =
                 Total(w, Between(w, x, y)) + (IF x <= a /\ a <= y THEN c ELSE 0)
<1> USE DEF Longer
<1>0. \A i \in 1 .. n : i \in 1 .. n + 1
  OBVIOUS
<1>a. n + 1 \in 1 .. n + 1
  OBVIOUS
<1>1. ASSUME NEW y \in Int PROVE Total(v, Later(v, y)) = Total(w, Later(w, y)) + (IF a > y THEN c ELSE 0)
  <2>1. \A i \in 1 .. n : Part(v, Later(v, y), i) = Part(w, Later(w, y), i)
    BY <1>0, Zenon DEF Part, Later
  <2>2. Part(v, Later(v, y), n + 1) = IF a > y THEN c ELSE 0
    BY <1>a, Zenon DEF Part, Later
  <2>3. Total(v, Later(v, y)) = Total(w, Later(w, y)) + Part(v, Later(v, y), n + 1)
    BY <2>1, TotalAppend
  <2> QED BY <2>2, <2>3, Zenon
<1>2. ASSUME NEW x \in Int, NEW y \in Int
      PROVE  Total(v, Between(v, x, y)) = Total(w, Between(w, x, y)) + (IF x <= a /\ a <= y THEN c ELSE 0)
  <2>1. \A i \in 1 .. n : Part(v, Between(v, x, y), i) = Part(w, Between(w, x, y), i)
    BY <1>0, Zenon DEF Part, Between
  <2>2. Part(v, Between(v, x, y), n + 1) = IF x <= a /\ a <= y THEN c ELSE 0
    BY <1>a, Zenon DEF Part, Between
  <2>3. Total(v, Between(v, x, y)) = Total(w, Between(w, x, y)) + Part(v, Between(v, x, y), n + 1)
    BY <2>1, TotalAppend
  <2> QED BY <2>2, <2>3, Zenon
<1> QED BY <1>1, <1>2, Zenon

\* Totals look at when and how much was granted, and at nothing else.
LEMMA SameTotals ==
    ASSUME NEW w \in Grants, NEW v \in Grants, Len(v) = Len(w),
           \A i \in 1 .. Len(w) : v[i].at = w[i].at /\ v[i].tokens = w[i].tokens
    PROVE  /\ \A y \in Int : Total(v, Later(v, y)) = Total(w, Later(w, y))
           /\ \A x, y \in Int : Total(v, Between(v, x, y)) = Total(w, Between(w, x, y))
<1>0. /\ Tallied(w) /\ Tallied(v) /\ DOMAIN w = 1 .. Len(w) /\ DOMAIN v = 1 .. Len(w)
  BY GrantsTallied, Zenon
<1>1. ASSUME NEW I, NEW J, \A i \in 1 .. Len(w) : i \in I <=> i \in J PROVE Total(v, I) = Total(w, J)
  <2>1. Total(v, I) <= Total(w, J) /\ Total(v, I) \in Nat /\ Total(w, J) \in Nat
    BY <1>0, <1>1, TotalOf, Zenon
  <2>2. Total(w, J) <= Total(v, I)
    BY <1>0, <1>1, TotalOf, Zenon
  <2> QED BY <2>1, <2>2
<1>2. ASSUME NEW y \in Int PROVE Total(v, Later(v, y)) = Total(w, Later(w, y))
  BY <1>0, <1>1, Zenon DEF Later
<1>3. ASSUME NEW x \in Int, NEW y \in Int PROVE Total(v, Between(v, x, y)) = Total(w, Between(w, x, y))
  BY <1>0, <1>1, Zenon DEF Between
<1> QED BY <1>2, <1>3, Zenon

\* A call goes on, or is given up, and nothing is granted or sent.
LEMMA GrantsMove ==
    ASSUME GrantsOK, at \in [Turns -> Place], NEW t \in Turns, NEW p \in Place,
           now' = now, grants' = grants, at' = [at EXCEPT ![t] = p],
           p = "ended" \/ at[t] \notin {"permit", "queue", "ended"}, p # "queue",
           timer' \in [Turns -> Nat], \A s \in Turns : s # t => timer'[s] = timer[s]
    PROVE  GrantsOK'
<1>0. grants \in Grants /\ now \in Nat
  BY Zenon DEF GrantsOK
<1>1. \A s \in Turns : at'[s] = IF s = t THEN p ELSE at[s]
  BY Zenon
<1>2. \A s \in Turns : at'[s] = "queue" => now' <= timer'[s]
  BY <1>1, Zenon DEF GrantsOK
<1>3. ASSUME NEW k \in DOMAIN grants
      PROVE  /\ grants[k].at <= now
             /\ grants[k].left # Never => /\ grants[k].at <= grants[k].left
                                          /\ grants[k].left <= grants[k].at + queue_timeout
             /\ grants[k].left = Never =>
                   /\ at'[grants[k].turn] \in {"permit", "queue", "ended"}
                   /\ at'[grants[k].turn] = "permit" => grants[k].at = now
                   /\ at'[grants[k].turn] = "queue" => grants[k].at + queue_timeout = timer'[grants[k].turn]
  <2>1. grants[k].turn \in Turns
    BY <1>0, GrantsTallied, Zenon
  <2> QED BY <1>1, <2>1, Zenon DEF GrantsOK
<1> QED BY <1>0, <1>2, <1>3, Zenon DEF GrantsOK

\* A gate looks at its window without granting tokens.
LEMMA WindowMove ==
    ASSUME WindowOK, now \in Nat, now' = now, grants' = grants, NEW g \in Gate, NEW v \in Window,
           window' = [window EXCEPT ![g] = v], g = "tpm" => v = Live(g)
    PROVE  WindowOK'
<1>0. window \in [Gate -> Window] /\ "tpm" \in Gate
  BY Zenon DEF WindowOK, Gate
<1>1. window' \in [Gate -> Window]
  BY <1>0, Zenon
<1>2. CASE g = "tpm"
  <2>1. window'["tpm"] = Live("tpm") /\ window["tpm"] \in Window
    BY <1>0, <1>2, Zenon
  <2>2. \A y \in Int : y >= now - WINDOW =>
           Total(Live("tpm"), Later(Live("tpm"), y)) = Total(window["tpm"], Later(window["tpm"], y))
    BY <1>0, <2>1, LiveWindow, Zenon
  <2> QED BY <1>1, <2>1, <2>2, Zenon DEF WindowOK
<1>3. CASE g # "tpm"
  <2>1. window'["tpm"] = window["tpm"]
    BY <1>0, <1>3, Zenon
  <2> QED BY <1>1, <2>1, Zenon DEF WindowOK
<1> QED BY <1>2, <1>3, Zenon

\* The token gate grants a request.
LEMMA GrantFits ==
    ASSUME RateInv, BudgetTypes, NEW t \in Turns, at[t] = "tpm", Fits(t, "tpm"), now' = now, timer' = timer,
           at' = [at EXCEPT ![t] = "permit"],
           window' = [window EXCEPT !["tpm"] = Append(Live("tpm"), [at |-> now, tokens |-> Cost(t, "tpm")])],
           grants' = Append(grants, [turn |-> t, at |-> now, tokens |-> Cost(t, "tpm"), left |-> Never])
    PROVE  RateInv'
<1> DEFINE c == Cost(t, "tpm")
           v == Live("tpm")
           w == window["tpm"]
           n == Len(grants)
           m == Len(v)
           v1 == Append(v, [at |-> now, tokens |-> c])
<1>0. /\ now \in Nat /\ grants \in Grants /\ window \in [Gate -> Window] /\ "tpm" \in Gate /\ w \in Window
      /\ tpm \in Nat /\ WINDOW \in Nat
  BY LimitsAssumption, Zenon DEF RateInv, GrantsOK, WindowOK, Gate
<1>1. c \in Nat
  <2>1. request[t] \in Tokened
    BY Zenon DEF BudgetTypes
  <2>2. request[t].input \in Nat /\ request[t].output \in Nat
    BY <2>1, Zenon DEF Tokened
  <2>3. c = request[t].input + request[t].output
    BY Zenon DEF Cost, Tokens
  <2> QED BY <2>2, <2>3
<1>2. /\ v \in Window
      /\ \A y \in Int : y >= now - WINDOW => Total(v, Later(v, y)) = Total(w, Later(w, y))
  BY <1>0, LiveWindow, Zenon
<1>3. Used(v) + c <= tpm
  BY Zenon DEF Fits, limit
<1> HIDE DEF c, v
<1>4. /\ n \in Nat /\ DOMAIN grants = 1 .. n /\ Tallied(grants)
      /\ m \in Nat /\ DOMAIN v = 1 .. m /\ Tallied(v)
      /\ \A i \in 1 .. m : v[i].at \in Nat /\ v[i].tokens \in Nat
      /\ \A i \in 1 .. n : grants[i].turn \in Turns /\ grants[i].at \in Nat
  BY <1>0, <1>2, WindowTallied, GrantsTallied, Zenon
<1>5. /\ v1 \in Window /\ Len(v1) = m + 1 /\ DOMAIN v1 = 1 .. m + 1
      /\ \A i \in 1 .. m : v1[i] = v[i]
      /\ v1[m + 1] = [at |-> now, tokens |-> c]
  <2>1. v \in Seq([at : Nat, tokens : Nat]) /\ [at |-> now, tokens |-> c] \in [at : Nat, tokens : Nat]
    BY <1>0, <1>1, <1>2, Zenon DEF Window
  <2> DEFINE S == [at : Nat, tokens : Nat]
             e == [at |-> now, tokens |-> c]
  <2>2. v \in Seq(S) /\ e \in S
    BY <2>1, Zenon
  <2> HIDE DEF S, e
  <2>3. /\ Append(v, e) \in Seq(S) /\ Len(Append(v, e)) = Len(v) + 1
        /\ DOMAIN Append(v, e) = 1 .. Len(v) + 1
        /\ \A i \in 1 .. Len(v) : Append(v, e)[i] = v[i]
        /\ Append(v, e)[Len(v) + 1] = e
    BY <2>2, AppendElement, ZenonT(30)
  <2>4. v1 = Append(v, e) /\ Window = Seq(S)
    BY Zenon DEF S, e, Window
  <2> HIDE DEF v1
  <2> QED BY <2>3, <2>4, Zenon DEF e
<1>6. /\ grants' \in Grants /\ Len(grants') = n + 1 /\ DOMAIN grants' = 1 .. n + 1
      /\ \A i \in 1 .. n : grants'[i] = grants[i]
      /\ grants'[n + 1] = [turn |-> t, at |-> now, tokens |-> c, left |-> Never]
  <2>0. grants' = Append(grants, [turn |-> t, at |-> now, tokens |-> c, left |-> Never])
    BY Zenon DEF c
  <2>1. /\ grants \in Seq([turn : Turns, at : Nat, tokens : Nat, left : Nat \cup {Never}])
        /\ [turn |-> t, at |-> now, tokens |-> c, left |-> Never]
              \in [turn : Turns, at : Nat, tokens : Nat, left : Nat \cup {Never}]
    BY <1>0, <1>1, Zenon DEF Grants
  <2> DEFINE S == [turn : Turns, at : Nat, tokens : Nat, left : Nat \cup {Never}]
             e == [turn |-> t, at |-> now, tokens |-> c, left |-> Never]
  <2>2. grants \in Seq(S) /\ e \in S /\ grants' = Append(grants, e)
    BY <2>0, <2>1, Zenon
  <2> HIDE DEF S, e
  <2>3. /\ Append(grants, e) \in Seq(S) /\ Len(Append(grants, e)) = Len(grants) + 1
        /\ DOMAIN Append(grants, e) = 1 .. Len(grants) + 1
        /\ \A i \in 1 .. Len(grants) : Append(grants, e)[i] = grants[i]
        /\ Append(grants, e)[Len(grants) + 1] = e
    BY <2>2, AppendElement, ZenonT(30)
  <2>4. Grants = Seq(S)
    BY Zenon DEF S, Grants
  <2> QED BY <2>2, <2>3, <2>4, Zenon DEF e
<1>a. v1[m + 1].at = now /\ v1[m + 1].tokens = c
  BY <1>5
<1>b. /\ grants'[n + 1].turn = t /\ grants'[n + 1].at = now /\ grants'[n + 1].tokens = c
      /\ grants'[n + 1].left = Never
  BY <1>6
<1>7. window' = [window EXCEPT !["tpm"] = v1] /\ window'["tpm"] = v1
  BY <1>0, Zenon DEF v, c
<1> HIDE DEF v1, n, m
<1>8. /\ \A y \in Int : Total(v1, Later(v1, y)) = Total(v, Later(v, y)) + (IF now > y THEN c ELSE 0)
      /\ \A y \in Int : Total(grants', Later(grants', y)) = Total(grants, Later(grants, y)) + (IF now > y THEN c ELSE 0)
      /\ \A x, y \in Int : Total(grants', Between(grants', x, y)) =
             Total(grants, Between(grants, x, y)) + (IF x <= now /\ now <= y THEN c ELSE 0)
  <2>1. Len(v) = m /\ Len(grants) = n
    BY Zenon DEF m, n
  <2> DEFINE G == grants'
  <2>2. /\ Len(G) = n + 1 /\ DOMAIN G = 1 .. n + 1 /\ (\A i \in 1 .. n : G[i] = grants[i])
        /\ G[n + 1].at = now /\ G[n + 1].tokens = c
    BY <1>6, <1>b, Zenon
  <2> HIDE DEF G
  <2>3. \A y \in Int : Total(v1, Later(v1, y)) = Total(v, Later(v, y)) + (IF now > y THEN c ELSE 0)
    <3>1. Longer(v1, v, m, now, c)
      BY <1>0, <1>1, <1>4, <1>5, <1>a, <2>1, Zenon DEF Longer
    <3> QED BY <3>1, OneMore, ZenonT(30)
  <2>4. /\ \A y \in Int : Total(G, Later(G, y)) = Total(grants, Later(grants, y)) + (IF now > y THEN c ELSE 0)
        /\ \A x, y \in Int : Total(G, Between(G, x, y)) =
             Total(grants, Between(grants, x, y)) + (IF x <= now /\ now <= y THEN c ELSE 0)
    <3>1. Longer(G, grants, n, now, c)
      BY <1>0, <1>1, <1>4, <2>1, <2>2, Zenon DEF Longer
    <3>2. \A y \in Int : Total(G, Later(G, y)) = Total(grants, Later(grants, y)) + (IF now > y THEN c ELSE 0)
      BY <3>1, OneMore
    <3>3. \A x, y \in Int : Total(G, Between(G, x, y)) =
             Total(grants, Between(grants, x, y)) + (IF x <= now /\ now <= y THEN c ELSE 0)
      BY <3>1, OneMore
    <3> QED BY <3>2, <3>3, Zenon
  <2> QED BY <2>3, <2>4, Zenon DEF G
<1>9. WindowOK'
  <2>1. window' \in [Gate -> Window]
    BY <1>0, <1>5, <1>7, Zenon
  <2>2. ASSUME NEW y \in Int, y >= now - WINDOW
        PROVE  Total(v1, Later(v1, y)) = Total(grants', Later(grants', y))
    <3>1. Total(v, Later(v, y)) = Total(grants, Later(grants, y))
      BY <1>2, <2>2, Zenon DEF RateInv, WindowOK
    <3> QED BY <1>8, <3>1, Zenon
  <2> QED BY <1>7, <2>1, <2>2, Zenon DEF WindowOK
<1>10. RateOK'
  <2> SUFFICES ASSUME NEW x \in Int PROVE Total(grants', Between(grants', x, x + WINDOW - 1)) <= tpm
    BY Zenon DEF RateOK
  <2> DEFINE B == Total(grants, Between(grants, x, x + WINDOW - 1))
  <2>0. x + WINDOW - 1 \in Int /\ now - WINDOW \in Int
    BY <1>0
  <2>1. Total(grants', Between(grants', x, x + WINDOW - 1)) = B + (IF x <= now /\ now <= x + WINDOW - 1 THEN c ELSE 0)
    BY <1>8, <2>0, Zenon
  <2>2. B <= tpm
    BY Zenon DEF RateInv, RateOK
  <2>3. B \in Nat
    BY <1>4, TotalOf, Zenon
  <2>4. CASE ~(x <= now /\ now <= x + WINDOW - 1)
    <3> HIDE DEF B
    <3> QED BY <2>1, <2>2, <2>3, <2>4
  <2>5. CASE x <= now /\ now <= x + WINDOW - 1
    <3> DEFINE L == Total(grants, Later(grants, now - WINDOW))
               V == Total(v, Later(v, now - WINDOW))
    <3>1. \A i \in 1 .. n : i \in Between(grants, x, x + WINDOW - 1) => i \in Later(grants, now - WINDOW)
      BY <1>0, <1>4, <2>5 DEF Between, Later
    <3>2. B <= L /\ L \in Nat
      BY <1>4, <3>1, TotalOf, Zenon DEF n
    <3>3. L = V
      BY <1>0, <1>2, <2>0 DEF RateInv, WindowOK
    <3>4. V <= Used(v) /\ Used(v) \in Nat
      <4>1. \A i \in 1 .. Len(v) : i \in Later(v, now - WINDOW) => i \in DOMAIN v
        BY <1>4, Zenon DEF m
      <4> QED BY <1>4, <4>1, TotalOf, ZenonT(30) DEF Used
    <3> HIDE DEF B, L, V
    <3>5. B + c <= tpm
      BY <1>0, <1>1, <1>3, <2>3, <3>2, <3>3, <3>4
    <3> QED BY <2>1, <2>5, <3>5, Zenon
  <2> QED BY <2>4, <2>5, Zenon
<1>11. GrantsOK'
  <2>1. at \in [Turns -> Place] /\ \A s \in Turns : at'[s] = IF s = t THEN "permit" ELSE at[s]
    BY Zenon DEF BudgetTypes
  <2>2. \A s \in Turns : at'[s] = "queue" => now' <= timer'[s]
    BY <2>1, Zenon DEF RateInv, GrantsOK
  <2>3. ASSUME NEW k \in 1 .. n + 1
        PROVE  /\ grants'[k].at <= now
               /\ grants'[k].left # Never => /\ grants'[k].at <= grants'[k].left
                                             /\ grants'[k].left <= grants'[k].at + queue_timeout
               /\ grants'[k].left = Never =>
                     /\ at'[grants'[k].turn] \in {"permit", "queue", "ended"}
                     /\ at'[grants'[k].turn] = "permit" => grants'[k].at = now
                     /\ at'[grants'[k].turn] = "queue" => grants'[k].at + queue_timeout = timer'[grants'[k].turn]
    <3>1. CASE k \in 1 .. n
      <4>1. grants'[k] = grants[k] /\ grants[k].turn \in Turns /\ k \in DOMAIN grants
        BY <1>4, <1>6, <3>1, Zenon
      <4> QED BY <2>1, <4>1, ZenonT(30) DEF RateInv, GrantsOK
    <3>2. CASE k = n + 1
      <4>1. /\ grants'[k].turn = t /\ grants'[k].at = now /\ grants'[k].left = Never
        BY <1>b, <3>2, Zenon
      <4>2. at'[t] = "permit" /\ now <= now
        BY <1>0, <2>1
      <4> QED BY <4>1, <4>2, Zenon
    <3>3. k \in 1 .. n \/ k = n + 1
      BY <1>4
    <3> QED BY <3>1, <3>2, <3>3, Zenon
  <2>4. timer' \in [Turns -> Nat]
    BY Zenon DEF RateInv, GrantsOK
  <2> QED BY <1>0, <1>6, <2>2, <2>3, <2>4, Zenon DEF GrantsOK
<1> QED BY <1>9, <1>10, <1>11, Zenon DEF RateInv

\* A request leaves.
LEMMA GrantLeaves ==
    ASSUME RateInv, BudgetTypes, NEW t \in Turns, AcquirePermit(t)
    PROVE  RateInv'
<1> DEFINE n == Len(grants)
           open(k) == grants[k].turn = t /\ grants[k].left = Never
<1>0. now \in Nat /\ grants \in Grants /\ Never = -1 /\ now' = now /\ timer' = timer /\ window' = window
  BY Zenon DEF RateInv, GrantsOK, Never, AcquirePermit
<1>1. /\ n \in Nat /\ DOMAIN grants = 1 .. n
      /\ \A i \in 1 .. n : /\ grants[i].turn \in Turns /\ grants[i].at \in Nat /\ grants[i].tokens \in Nat
                           /\ grants[i].left \in Nat \cup {Never}
  BY <1>0, GrantsTallied, Zenon
<1>2. grants' = [i \in 1 .. n |-> IF open(i) THEN [grants[i] EXCEPT !.left = now] ELSE grants[i]]
  BY <1>1, Zenon DEF AcquirePermit
<1>3. \A i \in 1 .. n : grants[i] \in [turn : Turns, at : Nat, tokens : Nat, left : Nat \cup {Never}]
  BY <1>0, Elements, Zenon DEF Grants
<1>4. ASSUME NEW i \in 1 .. n
      PROVE  /\ grants'[i] \in [turn : Turns, at : Nat, tokens : Nat, left : Nat \cup {Never}]
             /\ grants'[i].turn = grants[i].turn /\ grants'[i].at = grants[i].at
             /\ grants'[i].tokens = grants[i].tokens
             /\ grants'[i].left = IF open(i) THEN now ELSE grants[i].left
  BY <1>0, <1>2, <1>3, Zenon
<1>5. grants' \in Grants /\ Len(grants') = n /\ DOMAIN grants' = 1 .. n
  <2>1. \A i \in 1 .. n : (IF open(i) THEN [grants[i] EXCEPT !.left = now] ELSE grants[i])
                             \in [turn : Turns, at : Nat, tokens : Nat, left : Nat \cup {Never}]
    BY <1>2, <1>4, Zenon
  <2> QED BY <1>1, <1>2, <2>1 DEF Grants
<1>6. /\ \A y \in Int : Total(grants', Later(grants', y)) = Total(grants, Later(grants, y))
      /\ \A x, y \in Int : Total(grants', Between(grants', x, y)) = Total(grants, Between(grants, x, y))
  BY <1>0, <1>4, <1>5, SameTotals, Zenon
<1>7. WindowOK'
  BY <1>0, <1>6, Zenon DEF RateInv, WindowOK
<1>8. RateOK'
  <2>1. \A x \in Int : x + WINDOW - 1 \in Int
    BY LimitsAssumption
  <2> QED BY <1>6, <2>1, Zenon DEF RateInv, RateOK
<1>9. GrantsOK'
  <2>1. at \in [Turns -> Place] /\ at[t] = "queue" /\ \A s \in Turns : at'[s] = IF s = t THEN "calling" ELSE at[s]
    BY Zenon DEF BudgetTypes, AcquirePermit
  <2>2. (\A s \in Turns : at'[s] = "queue" => now <= timer[s]) /\ now <= timer[t]
    BY <2>1, Zenon DEF RateInv, GrantsOK
  <2>3. ASSUME NEW k \in 1 .. n
        PROVE  /\ grants[k].at <= now
               /\ grants[k].left # Never => /\ grants[k].at <= grants[k].left
                                            /\ grants[k].left <= grants[k].at + queue_timeout
               /\ grants[k].left = Never =>
                     /\ at[grants[k].turn] \in {"permit", "queue", "ended"}
                     /\ at[grants[k].turn] = "permit" => grants[k].at = now
                     /\ at[grants[k].turn] = "queue" => grants[k].at + queue_timeout = timer[grants[k].turn]
    BY <1>1, Zenon DEF RateInv, GrantsOK
  <2>4. ASSUME NEW k \in 1 .. n
        PROVE  /\ grants'[k].at <= now
               /\ grants'[k].left # Never => /\ grants'[k].at <= grants'[k].left
                                             /\ grants'[k].left <= grants'[k].at + queue_timeout
               /\ grants'[k].left = Never =>
                     /\ at'[grants'[k].turn] \in {"permit", "queue", "ended"}
                     /\ at'[grants'[k].turn] = "permit" => grants'[k].at = now
                     /\ at'[grants'[k].turn] = "queue" => grants'[k].at + queue_timeout = timer[grants'[k].turn]
    <3>1. CASE open(k)
      <4>1. grants'[k].left = now /\ now # Never
        BY <1>0, <1>4, <3>1
      <4>2. grants[k].at + queue_timeout = timer[t]
        BY <2>1, <2>3, <3>1, Zenon
      <4> QED BY <1>4, <2>2, <2>3, <4>1, <4>2, Zenon
    <3>2. CASE ~open(k)
      <4>1. grants'[k].left = grants[k].left
        BY <1>4, <3>2, Zenon
      <4>2. grants[k].left = Never => grants[k].turn # t
        BY <3>2, Zenon
      <4>3. /\ grants'[k].at = grants[k].at /\ grants'[k].turn = grants[k].turn /\ grants[k].turn \in Turns
        BY <1>1, <1>4, Zenon
      <4>4. grants[k].left = Never => at'[grants[k].turn] = at[grants[k].turn]
        BY <2>1, <4>2, <4>3, Zenon
      <4> QED BY <2>3, <4>1, <4>3, <4>4, Zenon
    <3> QED BY <3>1, <3>2, Zenon
  <2>5. timer \in [Turns -> Nat]
    BY Zenon DEF RateInv, GrantsOK
  <2> QED BY <1>0, <1>5, <2>2, <2>4, <2>5, Zenon DEF GrantsOK
<1> QED BY <1>7, <1>8, <1>9, Zenon DEF RateInv

LEMMA RateInit == Init => RateInv
<1> SUFFICES ASSUME Init PROVE RateInv
  BY Zenon
<1>1. << >> \in Window /\ << >> \in Grants /\ Len(<< >>) = 0
  BY DEF Window, Grants
<1>2. ASSUME NEW I PROVE Total(<< >>, I) = 0
  <2>1. Len(<< >>) \in Nat
    BY Zenon
  <2>2. PICK sum : Total(<< >>, I) = sum[Len(<< >>)] /\ sum[0] = 0
    BY <2>1, TotalDef, Zenon
  <2> QED BY <1>1, <2>2, Zenon
<1>3. grants = << >> /\ window = [g \in Gate |-> << >>] /\ now = 0 /\ "tpm" \in Gate
  BY Zenon DEF Init, Gate
<1>4. GrantsOK
  BY <1>1, <1>3 DEF Init, GrantsOK
<1>5. WindowOK
  BY <1>1, <1>2, <1>3, Zenon DEF WindowOK
<1>6. RateOK
  BY <1>2, <1>3, LimitsAssumption DEF RateOK
<1> QED BY <1>4, <1>5, <1>6, Zenon DEF RateInv

\* Steps that leave the token gate alone.
LEMMA RateKept ==
    ASSUME RateInv, at \in [Turns -> Place], NEW t \in Turns, NEW p \in Place,
           UNCHANGED limiter, at' = [at EXCEPT ![t] = p],
           p = "ended" \/ at[t] \notin {"permit", "queue", "ended"}, p # "queue"
    PROVE  RateInv'
<1>1. now' = now /\ window' = window /\ grants' = grants /\ timer' = timer /\ timer \in [Turns -> Nat]
  BY Zenon DEF limiter, RateInv, GrantsOK
<1>2. GrantsOK'
  BY <1>1, GrantsMove, Zenon DEF RateInv
<1>3. WindowOK' /\ RateOK'
  BY <1>1, Zenon DEF RateInv, WindowOK, RateOK
<1> QED BY <1>2, <1>3, Zenon DEF RateInv

LEMMA RateNext == BudgetInv /\ RateInv /\ [Next]_vars => RateInv'
<1> SUFFICES ASSUME BudgetInv, RateInv, [Next]_vars PROVE RateInv'
  BY Zenon
<1>0. /\ BudgetTypes /\ at \in [Turns -> Place] /\ request \in [Turns -> Tokened]
      /\ now \in Nat /\ grants \in Grants /\ timer \in [Turns -> Nat] /\ window \in [Gate -> Window]
      /\ Gate = {"rpm", "tpm"}
  BY Zenon DEF BudgetInv, BudgetTypes, RateInv, GrantsOK, WindowOK, Gate
<1>a. ASSUME NEW t \in Turns, release_llm(t) PROVE at' = [at EXCEPT ![t] = "ended"] /\ "ended" \in Place
  BY <1>a, Zenon DEF release_llm, Place
<1>1. ASSUME NEW t \in Turns, CheckCall(t) PROVE RateInv'
  <2>1. UNCHANGED limiter /\ at[t] = "reserved"
    BY <1>1, Zenon DEF CheckCall
  <2>2. PICK p \in {"ended", "rpm"} : at' = [at EXCEPT ![t] = p]
    BY <1>1, <1>a, Zenon DEF CheckCall
  <2>3. p \in Place /\ p # "queue"
    BY Zenon DEF Place
  <2> QED BY <1>0, <2>1, <2>2, <2>3, RateKept, Zenon
<1>2. ASSUME NEW t \in Turns, NEW g \in Gate, NEW q \in {"tpm", "permit"}, Acquire(t, g, q), ~(g = "tpm" /\ Fits(t, g)),
             g = "tpm" => q = "permit"
      PROVE  RateInv'
  <2>1. /\ now' = now /\ timer' = timer /\ grants' = grants /\ at' = [at EXCEPT ![t] = q] /\ at[t] = g
        /\ window' = [window EXCEPT ![g] =
                     IF Fits(t, g) THEN Append(Live(g), [at |-> now, tokens |-> Cost(t, g)]) ELSE Live(g)]
    BY <1>2, Zenon DEF Acquire
  <2>2. window[g] \in Window /\ Live(g) \in Window
    BY <1>0, LiveWindow, Zenon
  <2>3. PICK v \in Window : window' = [window EXCEPT ![g] = v] /\ (g = "tpm" => v = Live(g))
    <3>1. CASE ~Fits(t, g)
      BY <2>1, <2>2, <3>1, Zenon
    <3>2. CASE Fits(t, g)
      <4>1. g = "rpm" /\ Cost(t, g) = 1
        BY <1>0, <1>2, <3>2, Zenon DEF Cost
      <4>2. [at |-> now, tokens |-> Cost(t, g)] \in [at : Nat, tokens : Nat]
        BY <1>0, <4>1
      <4>3. Append(Live(g), [at |-> now, tokens |-> Cost(t, g)]) \in Window
        BY <2>2, <4>2, AppendElement, Zenon DEF Window
      <4> QED BY <2>1, <3>2, <4>1, <4>3, Zenon
    <3> QED BY <3>1, <3>2, Zenon
  <2>4. WindowOK'
    <3>1. WindowOK
      BY Zenon DEF RateInv
    <3> QED BY <1>0, <2>1, <2>3, <3>1, WindowMove, Zenon
  <2>5. RateOK'
    BY <2>1, Zenon DEF RateInv, RateOK
  <2>6. GrantsOK'
    <3>1. q \in Place /\ q # "queue" /\ at[t] \notin {"permit", "queue", "ended"}
      BY <1>0, <2>1, Zenon DEF Place
    <3>2. GrantsOK /\ timer' \in [Turns -> Nat]
      BY <1>0, <2>1, Zenon DEF RateInv
    <3> QED BY <1>0, <2>1, <3>1, <3>2, GrantsMove, Zenon
  <2> QED BY <2>4, <2>5, <2>6, Zenon DEF RateInv
<1>3. ASSUME NEW t \in Turns, Acquire(t, "tpm", "permit"), Fits(t, "tpm") PROVE RateInv'
  <2>1. /\ at[t] = "tpm" /\ now' = now /\ timer' = timer /\ at' = [at EXCEPT ![t] = "permit"]
        /\ window' = [window EXCEPT !["tpm"] = Append(Live("tpm"), [at |-> now, tokens |-> Cost(t, "tpm")])]
        /\ grants' = Append(grants, [turn |-> t, at |-> now, tokens |-> Cost(t, "tpm"), left |-> Never])
    BY <1>3, Zenon DEF Acquire
  <2> QED BY <1>0, <1>3, <2>1, GrantFits, Zenon
<1>4. ASSUME NEW t \in Turns, AcquireQuota(t) PROVE RateInv'
  BY <1>0, <1>2, <1>3, <1>4, Zenon DEF AcquireQuota
<1>5. ASSUME NEW t \in Turns, NEW g \in Gate, NEW q \in {"wait_rpm", "wait_tpm"}, Wait(t, g, q) PROVE RateInv'
  <2>1. now' = now /\ grants' = grants /\ at[t] = g /\ window' = [window EXCEPT ![g] = Live(g)]
    BY <1>5, Zenon DEF Wait
  <2>2. window[g] \in Window /\ Live(g) \in Window
    BY <1>0, LiveWindow, Zenon
  <2>3. WindowOK'
    <3>1. WindowOK
      BY Zenon DEF RateInv
    <3> QED BY <1>0, <2>1, <2>2, <3>1, WindowMove, Zenon
  <2>4. RateOK'
    BY <2>1, Zenon DEF RateInv, RateOK
  <2>5. PICK p \in Place : at' = [at EXCEPT ![t] = p] /\ p # "queue"
    <3>1. CASE stopped[t]
      BY <1>5, <1>a, <3>1, Zenon DEF Wait
    <3>2. CASE ~stopped[t]
      <4>1. q \in Place /\ q # "queue"
        BY Zenon DEF Place
      <4> QED BY <1>5, <3>2, <4>1, Zenon DEF Wait
    <3> QED BY <3>1, <3>2, Zenon
  <2>6. timer' \in [Turns -> Nat] /\ \A s \in Turns : s # t => timer'[s] = timer[s]
    <3>1. CASE stopped[t]
      BY <1>0, <1>5, <3>1, Zenon DEF Wait
    <3>2. CASE ~stopped[t]
      <4>1. Live(g) # << >> /\ timer' = [timer EXCEPT ![t] = Head(Live(g)).at + WINDOW]
        BY <1>5, <3>2, Zenon DEF Wait, Passes
      <4>2. Head(Live(g)) \in [at : Nat, tokens : Nat]
        <5> DEFINE S == [at : Nat, tokens : Nat]
        <5>1. Live(g) \in Seq(S)
          BY <2>2, Zenon DEF Window
        <5> HIDE DEF S
        <5>2. Head(Live(g)) \in S
          BY <4>1, <5>1
        <5> QED BY <5>2, Zenon DEF S
      <4>3. Head(Live(g)).at + WINDOW \in Nat
        BY <4>2, LimitsAssumption
      <4> QED BY <1>0, <4>1, <4>3, Zenon
    <3> QED BY <3>1, <3>2, Zenon
  <2>7. GrantsOK'
    <3>1. GrantsOK /\ at[t] \notin {"permit", "queue", "ended"}
      BY <1>0, <2>1, Zenon DEF RateInv
    <3> QED BY <1>0, <2>1, <2>5, <2>6, <3>1, GrantsMove, Zenon
  <2> QED BY <2>3, <2>4, <2>7, Zenon DEF RateInv
<1>6. ASSUME NEW t \in Turns, WaitQuota(t) PROVE RateInv'
  BY <1>0, <1>5, <1>6, Zenon DEF WaitQuota
<1>7. ASSUME NEW t \in Turns, Retry(t) PROVE RateInv'
  <2>1. UNCHANGED limiter /\ at[t] \in {"wait_rpm", "wait_tpm"}
    BY <1>7, Zenon DEF Retry
  <2>2. PICK p \in {"tpm", "rpm"} : at' = [at EXCEPT ![t] = p]
    BY <1>7, Zenon DEF Retry
  <2>3. p \in Place /\ p # "queue"
    BY Zenon DEF Place
  <2> QED BY <1>0, <2>1, <2>2, <2>3, RateKept, Zenon
<1>8. ASSUME NEW t \in Turns, QuotaFails(t) \/ QueueFails(t) PROVE RateInv'
  <2>1. UNCHANGED limiter /\ at' = [at EXCEPT ![t] = "ended"] /\ "ended" \in Place
    BY <1>8, <1>a, Zenon DEF QuotaFails, QueueFails
  <2> QED BY <1>0, <2>1, RateKept, Zenon
<1>9. ASSUME NEW t \in Turns, EnterQueue(t) PROVE RateInv'
  <2>1. now' = now /\ window' = window /\ grants' = grants /\ at[t] = "permit"
    BY <1>9, Zenon DEF EnterQueue
  <2>2. WindowOK' /\ RateOK'
    BY <2>1, Zenon DEF RateInv, WindowOK, RateOK
  <2>3. CASE stopped[t]
    <3>1. at' = [at EXCEPT ![t] = "ended"] /\ "ended" \in Place /\ timer' = timer /\ GrantsOK
      BY <1>9, <1>a, <2>3, Zenon DEF EnterQueue, RateInv
    <3>2. GrantsOK'
      BY <1>0, <2>1, <3>1, GrantsMove, Zenon
    <3> QED BY <2>2, <3>2, Zenon DEF RateInv
  <2>4. CASE ~stopped[t]
    <3>1. at' = [at EXCEPT ![t] = "queue"] /\ timer' = [timer EXCEPT ![t] = now + queue_timeout]
      BY <1>9, <2>4, Zenon DEF EnterQueue
    <3>2. /\ timer' \in [Turns -> Nat] /\ now <= now + queue_timeout
          /\ \A s \in Turns : /\ at'[s] = IF s = t THEN "queue" ELSE at[s]
                              /\ timer'[s] = IF s = t THEN now + queue_timeout ELSE timer[s]
      BY <1>0, <3>1, LimitsAssumption
    <3>3. \A s \in Turns : at'[s] = "queue" => now <= timer'[s]
      BY <3>2, Zenon DEF RateInv, GrantsOK
    <3>4. ASSUME NEW k \in DOMAIN grants
          PROVE  /\ grants[k].at <= now
                 /\ grants[k].left # Never => /\ grants[k].at <= grants[k].left
                                              /\ grants[k].left <= grants[k].at + queue_timeout
                 /\ grants[k].left = Never =>
                       /\ at'[grants[k].turn] \in {"permit", "queue", "ended"}
                       /\ at'[grants[k].turn] = "permit" => grants[k].at = now
                       /\ at'[grants[k].turn] = "queue" =>
                             grants[k].at + queue_timeout = timer'[grants[k].turn]
      <4>1. grants[k].turn \in Turns
        BY <1>0, GrantsTallied, Zenon
      <4> QED BY <2>1, <3>2, <4>1, Zenon DEF RateInv, GrantsOK
    <3>5. GrantsOK'
      BY <1>0, <2>1, <3>2, <3>3, <3>4, Zenon DEF GrantsOK
    <3> QED BY <2>2, <3>5, Zenon DEF RateInv
  <2> QED BY <2>3, <2>4, Zenon
<1>10. ASSUME NEW t \in Turns, AcquirePermit(t) PROVE RateInv'
  BY <1>0, <1>10, GrantLeaves, Zenon
<1>11. ASSUME NEW t \in Turns, Answer(t) \/ CallFails(t) PROVE RateInv'
  <2>1. PICK p \in {"idle", "ended"} : at' = [at EXCEPT ![t] = p]
    BY <1>11, ZenonT(30) DEF Answer, CallFails
  <2>2. at[t] = "calling" /\ now' = now /\ window' = window /\ timer' = timer /\ grants' = grants
    BY <1>11, Zenon DEF Answer, CallFails, settle_llm
  <2>3. p \in Place /\ p # "queue"
    BY Zenon DEF Place
  <2>4. GrantsOK'
    <3>1. GrantsOK /\ timer' \in [Turns -> Nat]
      BY <1>0, <2>2, Zenon DEF RateInv
    <3> QED BY <1>0, <2>1, <2>2, <2>3, <3>1, GrantsMove, Zenon
  <2>5. WindowOK' /\ RateOK'
    BY <2>2, Zenon DEF RateInv, WindowOK, RateOK
  <2> QED BY <2>4, <2>5, Zenon DEF RateInv
<1>12. ASSUME NEW t \in Turns, NEW r \in Requests, reserve_llm(t, r) PROVE RateInv'
  <2>1. UNCHANGED limiter /\ at[t] = "idle"
    BY <1>12, Zenon DEF reserve_llm
  <2>2. PICK p \in {"reserved", "ended"} : at' = [at EXCEPT ![t] = p]
    BY <1>12, Zenon DEF reserve_llm
  <2>3. p \in Place /\ p # "queue"
    BY Zenon DEF Place
  <2> QED BY <1>0, <2>1, <2>2, <2>3, RateKept, Zenon
<1>13. ASSUME (\E t \in Turns : Stop(t)) \/ UNCHANGED vars PROVE RateInv'
  <2>1. now' = now /\ window' = window /\ timer' = timer /\ grants' = grants /\ at' = at
    BY <1>13, Zenon DEF Stop, limiter, vars
  <2> QED BY <2>1, ZenonT(30) DEF RateInv, GrantsOK, WindowOK, RateOK
<1>14. ASSUME Tick PROVE RateInv'
  <2>1. /\ now' = now + 1 /\ window' = window /\ timer' = timer /\ grants' = grants /\ at' = at
        /\ \A t \in Turns : ~Due(t)
    BY <1>14, Zenon DEF Tick
  <2>2. RateOK'
    BY <2>1, Zenon DEF RateInv, RateOK
  <2>3. WindowOK'
    <3>1. \A y \in Int : y >= (now + 1) - WINDOW => y >= now - WINDOW
      BY <1>0, LimitsAssumption
    <3> QED BY <2>1, <3>1, Zenon DEF RateInv, WindowOK
  <2>4. \A s \in Turns : at[s] # "permit" /\ (at[s] = "queue" => now + 1 <= timer[s])
    <3>1. \A s \in Turns : at[s] # "permit" /\ (at[s] = "queue" => ~(now >= timer[s]))
      BY <2>1, Zenon DEF Due
    <3> QED BY <1>0, <3>1
  <2>5. ASSUME NEW k \in DOMAIN grants
        PROVE  /\ grants[k].at <= now + 1
               /\ grants[k].left # Never => /\ grants[k].at <= grants[k].left
                                            /\ grants[k].left <= grants[k].at + queue_timeout
               /\ grants[k].left = Never =>
                     /\ at[grants[k].turn] \in {"permit", "queue", "ended"}
                     /\ at[grants[k].turn] = "permit" => grants[k].at = now + 1
                     /\ at[grants[k].turn] = "queue" => grants[k].at + queue_timeout = timer[grants[k].turn]
    <3>1. grants[k].turn \in Turns /\ grants[k].at \in Nat
      BY <1>0, GrantsTallied, Zenon
    <3>2. grants[k].at <= now
      BY Zenon DEF RateInv, GrantsOK
    <3>3. grants[k].at <= now + 1
      BY <1>0, <3>1, <3>2
    <3> QED BY <2>4, <3>1, <3>3, Zenon DEF RateInv, GrantsOK
  <2>6. GrantsOK'
    <3>1. now + 1 \in Nat
      BY <1>0
    <3> QED BY <1>0, <2>1, <2>4, <2>5, <3>1, ZenonT(30) DEF GrantsOK
  <2> QED BY <2>2, <2>3, <2>6, Zenon DEF RateInv
<1> QED BY <1>1, <1>4, <1>6, <1>7, <1>8, <1>9, <1>10, <1>11, <1>12, <1>13, <1>14, Zenon DEF Next, Step

LEMMA RateBounds == RateInv => TokenRateBounded
<1> SUFFICES ASSUME RateInv, queue_timeout <= WINDOW, NEW i \in 0 .. now
             PROVE  Total(grants, {k \in DOMAIN grants : grants[k].left \in i .. i + WINDOW - 1}) <= 2 * tpm
  BY Zenon DEF TokenRateBounded
<1> DEFINE I == {k \in DOMAIN grants : grants[k].left \in i .. i + WINDOW - 1}
           J == Between(grants, i - WINDOW, (i - WINDOW) + WINDOW - 1)
           K == Between(grants, i, i + WINDOW - 1)
           n == Len(grants)
<1>0. /\ now \in Nat /\ grants \in Grants /\ i \in Nat /\ i - WINDOW \in Int
      /\ WINDOW \in Nat /\ queue_timeout \in Nat /\ tpm \in Nat
  BY LimitsAssumption DEF RateInv, GrantsOK
<1>1. /\ n \in Nat /\ DOMAIN grants = 1 .. n /\ Tallied(grants)
      /\ \A k \in 1 .. n : grants[k].at \in Nat /\ grants[k].tokens \in Nat
  BY <1>0, GrantsTallied, Zenon
<1>2. ASSUME NEW k \in 1 .. n PROVE k \in I => k \in J \/ k \in K
  <2> SUFFICES ASSUME k \in I PROVE k \in J \/ k \in K
    BY Zenon
  <2>1. PICK l \in i .. i + WINDOW - 1 : l = grants[k].left
    BY Zenon
  <2>2. l \in Nat /\ l # Never
    BY <1>0 DEF Never
  <2>3. grants[k].at <= l /\ l <= grants[k].at + queue_timeout
    BY <1>1, <2>1, <2>2, Zenon DEF RateInv, GrantsOK
  <2>4. PICK a \in Nat : a = grants[k].at
    BY <1>1, Zenon
  <2>5. (i - WINDOW <= a /\ a <= (i - WINDOW) + WINDOW - 1) \/ (i <= a /\ a <= i + WINDOW - 1)
    <3>1. i <= l /\ l <= i + WINDOW - 1 /\ a <= l /\ l <= a + queue_timeout /\ a \in Nat /\ l \in Nat
      BY <1>0, <2>1, <2>2, <2>3, <2>4
    <3> QED BY <1>0, <3>1
  <2> QED BY <1>1, <2>4, <2>5, Zenon DEF Between
<1> HIDE DEF I, J, K
<1>3. \A k \in 1 .. n : Part(grants, I, k) <= Part(grants, J, k) + Part(grants, K, k)
  BY <1>1, <1>2 DEF Part
<1>4. /\ Total(grants, I) \in Nat /\ Total(grants, J) \in Nat /\ Total(grants, K) \in Nat
      /\ Total(grants, I) <= Total(grants, J) + Total(grants, K)
  BY <1>1, <1>3, TotalAtMost, Zenon
<1>5. Total(grants, J) <= tpm /\ Total(grants, K) <= tpm
  BY <1>0 DEF RateInv, RateOK, J, K
<1>6. Total(grants, I) <= 2 * tpm
  BY <1>0, <1>4, <1>5
<1> QED BY <1>6, Zenon DEF I

\* In no minute leave requests of more than twice the tokens of the limit, if
\* a request waits no longer than a minute for its permit: what leaves in a
\* minute was granted in it or in the minute before, and RateGate grants in no
\* minute more than the limit.
THEOREM GatewayTokenRate == Spec => []TokenRateBounded
BY BudgetInit, BudgetNext, RateInit, RateNext, RateBounds, PTL DEF Spec

=============================================================================
