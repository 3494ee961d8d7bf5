----------------------------- MODULE LlmGateway -----------------------------
(***************************************************************************)
(* The model calls of concurrent turns: LlmGateway::run_call               *)
(* (crates/aise/src/llm/gateway.rs), the LlmLimiter that all turns share   *)
(* (llm/limiter.rs) and the TurnBudget of each turn (turn/turn_budget.rs). *)
(* A turn makes its calls one after the other; a call that fails ends the  *)
(* turn.  Time is counted in steps of which WINDOW make the minute of the  *)
(* rate gates.  A task that can go on does so before time does.            *)
(***************************************************************************)
EXTENDS Integers, Sequences, FiniteSets

CONSTANTS
    Turns,
    Requests,               \* [input, output]: estimated input, max_output_tokens
    Reported,               \* [input, output]: usage a provider may report
    max_concurrent,
    rpm, tpm,               \* requests_per_minute, tokens_per_minute
    WINDOW, queue_timeout,
    max_llm_calls, max_input_tokens, max_output_tokens, max_total_tokens,
    MaxNow                  \* bound on the clock

ASSUME TurnsAssumption == IsFiniteSet(Turns)
ASSUME TokensAssumption == \A r \in Requests \cup Reported : r \in [input : Nat, output : Nat]
ASSUME LimitsAssumption ==
    /\ max_concurrent \in Nat \ {0} /\ rpm \in Nat \ {0} /\ tpm \in Nat \ {0}
    /\ WINDOW \in Nat \ {0} /\ queue_timeout \in Nat \ {0}
    /\ max_llm_calls \in Nat /\ max_input_tokens \in Nat
    /\ max_output_tokens \in Nat /\ max_total_tokens \in Nat
    /\ MaxNow \in Nat

VARIABLES
    now,
    window,         \* the two RateGates: what was granted when
    permits,        \* free permits of the semaphore
    usage,          \* TurnBudget::usage of each turn
    at,             \* where the turn's call is
    request,        \* the request and reservation of the call
    timer,          \* when the sleep of a waiting call is over
    stopped,        \* the turn's token is cancelled or its deadline has passed
    llm_calls,      \* the turn's list of LlmCallUsage, added up; its total is their
                    \* input and output, as the budget counts them (the total_tokens
                    \* a provider may report is kept for display and not modelled)
    grants          \* auxiliary: what the token gate granted, to whom and when, and
                    \* when that request left (Never: not yet, or it was given up)

vars == <<now, window, permits, usage, at, request, timer, stopped,
          llm_calls, grants>>
limiter == <<now, window, permits, timer, grants>>

Gate == {"rpm", "tpm"}
limit == [rpm |-> rpm, tpm |-> tpm]
Tokens(r) == r.input + r.output
Nothing == [llm_calls |-> 0, input |-> 0, output |-> 0, total |-> 0]
NoTokens == [input |-> 0, output |-> 0]
Never == -1

Init ==
    /\ now = 0
    /\ window = [g \in Gate |-> << >>]
    /\ permits = max_concurrent
    /\ usage = [t \in Turns |-> Nothing]
    /\ at = [t \in Turns |-> "idle"]
    /\ request = [t \in Turns |-> NoTokens]
    /\ timer = [t \in Turns |-> 0]
    /\ stopped = [t \in Turns |-> FALSE]
    /\ llm_calls = [t \in Turns |-> Nothing]
    /\ grants = << >>

-----------------------------------------------------------------------------
(* TurnBudget. *)

Add(u, r) == [llm_calls |-> u.llm_calls, input |-> u.input + r.input,
              output |-> u.output + r.output, total |-> u.total + Tokens(r)]
Minus(a, b) == IF a > b THEN a - b ELSE 0    \* saturating_sub
Subtract(u, r) == [llm_calls |-> u.llm_calls, input |-> Minus(u.input, r.input),
                   output |-> Minus(u.output, r.output), total |-> Minus(u.total, Tokens(r))]
Count(u) == [u EXCEPT !.llm_calls = @ + 1]
Within(u) == /\ u.input =< max_input_tokens
             /\ u.output =< max_output_tokens
             /\ u.total =< max_total_tokens

\* complete_text_composed and complete_structured_composed: the budget is
\* reserved first.
reserve_llm(t, r) ==
    /\ at[t] = "idle"
    /\ LET projected == Add(usage[t], r)
       IN  IF usage[t].llm_calls < max_llm_calls /\ Within(projected)
           THEN /\ usage' = [usage EXCEPT ![t] = projected]
                /\ request' = [request EXCEPT ![t] = r]
                /\ at' = [at EXCEPT ![t] = "reserved"]
           ELSE at' = [at EXCEPT ![t] = "ended"] /\ UNCHANGED <<usage, request>>
    /\ UNCHANGED <<limiter, stopped, llm_calls>>

\* Mutant of release_llm: an early return without the release.
release_forgotten(t) ==
    /\ request' = [request EXCEPT ![t] = NoTokens]
    /\ at' = [at EXCEPT ![t] = "ended"]
    /\ UNCHANGED <<usage, llm_calls>>

\* An exit before the provider is reached: the reservation is given back.
release_llm(t) ==
    /\ usage' = [usage EXCEPT ![t] = Subtract(@, request[t])]
    /\ request' = [request EXCEPT ![t] = NoTokens]
    /\ at' = [at EXCEPT ![t] = "ended"]
    /\ UNCHANGED llm_calls

-----------------------------------------------------------------------------
(* The limiter. *)

CheckCall(t) ==
    /\ at[t] = "reserved"
    /\ IF stopped[t] THEN release_llm(t)
       ELSE at' = [at EXCEPT ![t] = "rpm"] /\ UNCHANGED <<usage, request, llm_calls>>
    /\ UNCHANGED <<limiter, stopped>>

\* The window without its oldest n grants.
Without(w, n) == [i \in 1 .. Len(w) - n |-> w[n + i]]

\* Mutant of Live: grants leave the window one step early.
LiveShort(g) ==
    LET w == window[g]
        old(i) == now - w[i].at >= WINDOW - 1
    IN  Without(w, CHOOSE n \in 0 .. Len(w) : (\A i \in 1 .. n : old(i)) /\ (n < Len(w) => ~old(n + 1)))

\* Grants are dropped from the front as long as they are a minute old.
Live(g) ==
    LET w == window[g]
        old(i) == now - w[i].at >= WINDOW
    IN  Without(w, CHOOSE n \in 0 .. Len(w) : (\A i \in 1 .. n : old(i)) /\ (n < Len(w) => ~old(n + 1)))

\* The tokens of the grants in w at the positions in I.
Total(w, I) ==
    LET sum[i \in 0 .. Len(w)] ==
            IF i = 0 THEN 0 ELSE sum[i - 1] + IF i \in I THEN w[i].tokens ELSE 0
    IN  sum[Len(w)]

Used(w) == Total(w, DOMAIN w)
Cost(t, g) == IF g = "rpm" THEN 1 ELSE Tokens(request[t])
Fits(t, g) == Used(Live(g)) + Cost(t, g) =< limit[g]

Passes(t, g) == Fits(t, g) \/ Live(g) = << >>

\* RateGate::acquire.  With no grant to wait for, a request larger than the
\* limit is let through and not recorded.
Acquire(t, g, next) ==
    /\ at[t] = g
    /\ Passes(t, g)
    /\ window' = [window EXCEPT ![g] =
                     IF Fits(t, g) THEN Append(Live(g), [at |-> now, tokens |-> Cost(t, g)]) ELSE Live(g)]
    /\ grants' = IF g = "tpm" /\ Fits(t, g)
                 THEN Append(grants, [turn |-> t, at |-> now, tokens |-> Cost(t, g), left |-> Never])
                 ELSE grants
    /\ at' = [at EXCEPT ![t] = next]
    /\ UNCHANGED <<now, permits, timer, usage, request, stopped, llm_calls>>

AcquireQuota(t) == Acquire(t, "rpm", "tpm") \/ Acquire(t, "tpm", "permit")

\* A request that does not fit sleeps until the oldest grant leaves the window.
Wait(t, g, waiting) ==
    /\ at[t] = g
    /\ ~Passes(t, g)
    /\ window' = [window EXCEPT ![g] = Live(g)]
    /\ IF stopped[t] THEN release_llm(t) /\ UNCHANGED timer
       ELSE /\ at' = [at EXCEPT ![t] = waiting]
            /\ timer' = [timer EXCEPT ![t] = Head(Live(g)).at + WINDOW]
            /\ UNCHANGED <<usage, request, llm_calls>>
    /\ UNCHANGED <<now, permits, grants, stopped>>

WaitQuota(t) == Wait(t, "rpm", "wait_rpm") \/ Wait(t, "tpm", "wait_tpm")

\* The sleep is over: the gate is tried again.
Retry(t) ==
    /\ at[t] \in {"wait_rpm", "wait_tpm"}
    /\ now >= timer[t]
    /\ at' = [at EXCEPT ![t] = IF @ = "wait_rpm" THEN "rpm" ELSE "tpm"]
    /\ UNCHANGED <<limiter, usage, request, stopped, llm_calls>>

\* Mutant of QuotaFails: the wait at the second gate ignores the deadline.
QuotaFailsFirstOnly(t) ==
    /\ at[t] = "wait_rpm"
    /\ stopped[t]
    /\ release_llm(t)
    /\ UNCHANGED <<limiter, stopped>>

QuotaFails(t) ==
    /\ at[t] \in {"wait_rpm", "wait_tpm"}
    /\ stopped[t]
    /\ release_llm(t)
    /\ UNCHANGED <<limiter, stopped>>

\* acquire_permit.
EnterQueue(t) ==
    /\ at[t] = "permit"
    /\ IF stopped[t] THEN release_llm(t) /\ UNCHANGED timer
       ELSE /\ at' = [at EXCEPT ![t] = "queue"]
            /\ timer' = [timer EXCEPT ![t] = now + queue_timeout]
            /\ UNCHANGED <<usage, request, llm_calls>>
    /\ UNCHANGED <<now, window, permits, grants, stopped>>

AcquirePermit(t) ==
    /\ at[t] = "queue"
    /\ permits > 0
    /\ permits' = permits - 1
    /\ at' = [at EXCEPT ![t] = "calling"]
    /\ grants' = [i \in DOMAIN grants |->
                     IF grants[i].turn = t /\ grants[i].left = Never
                     THEN [grants[i] EXCEPT !.left = now] ELSE grants[i]]
    /\ UNCHANGED <<now, window, timer, usage, request, stopped, llm_calls>>

QueueFails(t) ==
    /\ at[t] = "queue"
    /\ stopped[t] \/ now >= timer[t]
    /\ release_llm(t)
    /\ UNCHANGED <<limiter, stopped>>

-----------------------------------------------------------------------------
(* The provider's answer. *)

\* settle_llm: the reservation is exchanged for the usage; a usage beyond the
\* budget is an error and is not kept.
Settles(t, u) == Within(Add(Subtract(usage[t], request[t]), u))

\* Mutant of settle_llm: a budget error returns before the permit is dropped.
settle_keeps_permit(t, u) ==
    LET freed == Subtract(usage[t], request[t])
    IN  /\ usage' = [usage EXCEPT ![t] = IF Settles(t, u) THEN Count(Add(freed, u)) ELSE freed]
        /\ llm_calls' = [llm_calls EXCEPT ![t] = IF Settles(t, u) THEN Count(Add(@, u)) ELSE @]
        /\ request' = [request EXCEPT ![t] = NoTokens]
        /\ permits' = IF Settles(t, u) THEN permits + 1 ELSE permits
        /\ UNCHANGED <<now, window, timer, grants, stopped>>

settle_llm(t, u) ==
    LET freed == Subtract(usage[t], request[t])
    IN  /\ usage' = [usage EXCEPT ![t] = IF Settles(t, u) THEN Count(Add(freed, u)) ELSE freed]
        /\ llm_calls' = [llm_calls EXCEPT ![t] = IF Settles(t, u) THEN Count(Add(@, u)) ELSE @]
        /\ request' = [request EXCEPT ![t] = NoTokens]
        /\ permits' = permits + 1
        /\ UNCHANGED <<now, window, timer, grants, stopped>>

\* A usable answer with the usage the provider reports.
Answer(t) ==
    /\ at[t] = "calling"
    /\ \E u \in Reported :
          /\ settle_llm(t, u)
          /\ at' = [at EXCEPT ![t] = IF Settles(t, u) THEN "idle" ELSE "ended"]

\* Error of the provider, cancellation, timeout, or an answer that is empty or
\* fails its structured check: the estimate of the input is settled.
CallFails(t) ==
    /\ at[t] = "calling"
    /\ settle_llm(t, [input |-> request[t].input, output |-> 0])
    /\ at' = [at EXCEPT ![t] = "ended"]

-----------------------------------------------------------------------------
(* The environment. *)

Stop(t) ==
    /\ ~stopped[t] /\ at[t] # "ended"
    /\ stopped' = [stopped EXCEPT ![t] = TRUE]
    /\ UNCHANGED <<limiter, usage, at, request, llm_calls>>

Due(t) == \/ at[t] \in {"reserved", "rpm", "tpm", "permit"}
          \/ at[t] \in {"wait_rpm", "wait_tpm", "queue"} /\ now >= timer[t]

Tick ==
    /\ now < MaxNow
    /\ \A t \in Turns : ~Due(t)
    /\ now' = now + 1
    /\ UNCHANGED <<window, permits, timer, grants, usage, at, request, stopped, llm_calls>>

Step(t) ==
    \/ CheckCall(t) \/ AcquireQuota(t) \/ WaitQuota(t) \/ Retry(t) \/ QuotaFails(t)
    \/ EnterQueue(t) \/ AcquirePermit(t) \/ QueueFails(t) \/ Answer(t) \/ CallFails(t)

Next ==
    \/ \E t \in Turns : Step(t) \/ Stop(t) \/ \E r \in Requests : reserve_llm(t, r)
    \/ Tick

Spec == Init /\ [][Next]_vars

\* A task that can go on is polled, and a turn's deadline passes.
FairSpec == Spec /\ \A t \in Turns : WF_vars(Step(t)) /\ WF_vars(Stop(t))

-----------------------------------------------------------------------------
(* properties *)

Usage == [llm_calls : Nat, input : Nat, output : Nat, total : Nat]
Place == {"idle", "reserved", "rpm", "wait_rpm", "tpm", "wait_tpm", "permit", "queue", "calling", "ended"}

\* No concurrency permit is lost or made up on any of the ways out of a call,
\* so at most max_concurrent calls are at the provider.
PermitsConserved == /\ permits >= 0
                    /\ permits + Cardinality({t \in Turns : at[t] = "calling"}) = max_concurrent

\* A turn's budget is at any time what its recorded calls used plus what its
\* call has reserved: no way out of a call leaks a reservation or gives it
\* back twice.
BudgetExact == \A t \in Turns : usage[t] = Add(llm_calls[t], request[t])

\* Reservations and recorded usage together stay within the turn's limits.
BudgetHeld == \A t \in Turns : Within(usage[t]) /\ usage[t].llm_calls =< max_llm_calls

\* A turn's budget is exact and kept, on each way out of a call and whatever
\* the provider reports.
BudgetSound == BudgetExact /\ BudgetHeld

\* Quota is taken before the wait for a permit, so what leaves in one window
\* may have been granted in two: as long as that wait is no longer than a
\* minute, the tokens of the requests that leave in any minute are at most
\* twice the limit (requests larger than the limit, which the gate does not
\* record, left aside).
TokenRateBounded ==
    queue_timeout =< WINDOW => \A i \in 0 .. now :
        Total(grants, {k \in DOMAIN grants : grants[k].left \in i .. i + WINDOW - 1}) =< 2 * tpm

\* Every call ends, also one that waits for a rate gate.
CallEnds == \A t \in Turns : at[t] = "reserved" ~> at[t] \in {"idle", "ended"}
=============================================================================
