----------------------------- MODULE StoryLedger -----------------------------
(***************************************************************************)
(* What the engine promises about committed turns (Architecture, sections  *)
(* 4.3 and 14.3): every story has an append-only ledger, an idempotency    *)
(* key occurs in it at most once, and an attempt that is answered          *)
(* "committed" is given the ledger's entry for its own key and digest,     *)
(* whichever attempt wrote it.                                             *)
(***************************************************************************)
EXTENDS Naturals, Sequences

CONSTANTS Attempts, Stories, Requests, NoAnswer

VARIABLES
    request,  \* attempt -> its [story, key, digest]
    ledger,   \* story -> sequence of [key, digest, result]
    answer    \* attempt -> result, or NoAnswer

vars == <<request, ledger, answer>>

Init ==
    /\ request \in [Attempts -> Requests]
    /\ ledger = [s \in Stories |-> << >>]
    /\ answer = [a \in Attempts |-> NoAnswer]

\* Attempt a turns its request into the next entry of its story.
Commit(a) ==
    LET r == request[a] IN
    /\ \A i \in DOMAIN ledger[r.story] : ledger[r.story][i].key # r.key
    /\ \E result \in [turn_number : {Len(ledger[r.story]) + 1},
                      story_revision : {Len(ledger[r.story]) + 1},
                      story_text : {a}] :
          ledger' = [ledger EXCEPT ![r.story] =
                        Append(@, [key |-> r.key, digest |-> r.digest, result |-> result])]
    /\ UNCHANGED <<request, answer>>

\* Attempt a is answered with the entry of its request.
Answer(a) ==
    LET r == request[a] IN
    /\ answer[a] = NoAnswer
    /\ \E i \in DOMAIN ledger[r.story] :
          /\ ledger[r.story][i].key = r.key
          /\ ledger[r.story][i].digest = r.digest
          /\ answer' = [answer EXCEPT ![a] = ledger[r.story][i].result]
    /\ UNCHANGED <<request, ledger>>

Next == \E a \in Attempts : Commit(a) \/ Answer(a)

Spec == Init /\ [][Next]_vars
=============================================================================
