---------------------------- MODULE QueuePromise ----------------------------
(***************************************************************************)
(* What the inbox queue promises its caller, without files, lists or       *)
(* writes: a set of waiting messages with their failed attempts, and two   *)
(* sets of records that last until a fixed number of newer ones was made.  *)
(* Every operation is one step, or does not happen at all.                 *)
(***************************************************************************)
EXTENDS Naturals, Functions

CONSTANTS Msgs, MaxAttempts, DeadLetterCap, RepliedCap

VARIABLES
    waiting,   \* messages to drain |-> failed attempts so far
    buried,    \* dead letters: [id, age], age = dead letters made since
    answered,  \* reply records: [id, age], age = records made since
    damages    \* how often something else destroyed the file

promise == <<waiting, buried, answered, damages>>

\* A record of m joins, all others age, and those of age `cap` go.
Record(records, m, cap) ==
    {[id |-> m, age |-> 0]} \cup
    {[r EXCEPT !.age = @ + 1] : r \in {s \in records : s.age + 1 < cap}}

Init == waiting = <<>> /\ buried = {} /\ answered = {} /\ damages = 0

Accept(m) ==
    /\ m \notin DOMAIN waiting
    /\ waiting' = [n \in DOMAIN waiting \cup {m} |-> IF n = m THEN 0 ELSE waiting[n]]
    /\ UNCHANGED <<buried, answered, damages>>

Settle(m) ==
    /\ m \in DOMAIN waiting
    /\ waiting' = Restrict(waiting, DOMAIN waiting \ {m})
    /\ UNCHANGED <<buried, answered, damages>>

CountFailure(m) ==
    /\ m \in DOMAIN waiting
    /\ waiting[m] + 1 < MaxAttempts
    /\ waiting' = [waiting EXCEPT ![m] = @ + 1]
    /\ UNCHANGED <<buried, answered, damages>>

Bury(m) ==
    /\ m \in DOMAIN waiting
    /\ waiting[m] + 1 = MaxAttempts
    /\ waiting' = Restrict(waiting, DOMAIN waiting \ {m})
    /\ buried' = Record(buried, m, DeadLetterCap)
    /\ UNCHANGED <<answered, damages>>

Answer(m) ==
    /\ \A r \in answered : r.id # m
    /\ answered' = Record(answered, m, RepliedCap)
    /\ UNCHANGED <<waiting, buried, damages>>

\* Only damage from outside makes it forget, and then everything.
Forget ==
    /\ waiting' = <<>> /\ buried' = {} /\ answered' = {}
    /\ damages' = damages + 1

Next ==
    \/ \E m \in Msgs : \/ Accept(m) \/ Settle(m) \/ CountFailure(m)
                       \/ Bury(m) \/ Answer(m)
    \/ Forget

Spec == Init /\ [][Next]_promise
=============================================================================
