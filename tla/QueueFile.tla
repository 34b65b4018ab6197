----------------------------- MODULE QueueFile -----------------------------
(***************************************************************************)
(* The content of inbox-queue.json and what each method of InboxQueue      *)
(* (core/clawtell_core/queue.py) computes from it.  Constant level: the    *)
(* state machines InboxQueue and Subscribe share these operators.          *)
(*                                                                         *)
(* A queued message is reduced to its id and its attempt counter, a        *)
(* `replied` record to its id; sender, body and timestamps never decide    *)
(* anything here.                                                          *)
(***************************************************************************)
EXTENDS Naturals, Sequences, SequencesExt

CONSTANTS
    MaxAttempts,    \* MAX_ATTEMPTS: failed drain attempts before dead-lettering
    DeadLetterCap,  \* DEAD_LETTER_CAP: newest dead letters kept
    RepliedCap      \* REPLIED_CAP: newest reply records kept

ASSUME QueueAssumption ==
    /\ MaxAttempts \in Nat \ {0}
    /\ DeadLetterCap \in Nat \ {0}
    /\ RepliedCap \in Nat \ {0}

-----------------------------------------------------------------------------
Entry(ids) == [id : ids, attempts : Nat]

QueueContent(ids) ==
    [pending : Seq(Entry(ids)), deadLetter : Seq(Entry(ids)), replied : Seq(ids)]

\* _empty_state(): also what a missing or corrupt file reads as.
EmptyContent == [pending |-> <<>>, deadLetter |-> <<>>, replied |-> <<>>]

\* The ids of a list of entries.
Ids(list) == {list[i].id : i \in DOMAIN list}

\* list[-n:]
LastN(s, n) == IF Len(s) > n THEN SubSeq(s, Len(s) - n + 1, Len(s)) ELSE s

\* Where the entry of an id is in a list that has one.
Position(list, m) == CHOOSE i \in DOMAIN list : list[i].id = m

\* [e for e in list if e["id"] != m], entry by entry.
Others(list, m) ==
    LET kept[n \in 0 .. Len(list)] ==
            IF n = 0 THEN <<>>
            ELSE IF list[n].id = m THEN kept[n - 1]
            ELSE Append(kept[n - 1], list[n])
    IN  kept[Len(list)]

\* The same: an id is at most once in `pending` (enqueue checks), so dropping
\* its one position drops them all (EntriesConsistent).
Without(list, m) ==
    IF m \in Ids(list) THEN RemoveAt(list, Position(list, m)) ELSE list

-----------------------------------------------------------------------------
(***************************************************************************)
(* The methods: content before |-> content after.  A method that returns   *)
(* early yields its argument.                                              *)
(***************************************************************************)
Enqueue(f, m) ==
    IF m \in Ids(f.pending)
    THEN f
    ELSE [f EXCEPT !.pending = Append(@, [id |-> m, attempts |-> 0])]

Dequeue(f, m) == [f EXCEPT !.pending = Without(@, m)]

\* The entry of m with one more attempt counted.
Tried(f, m) == [f.pending[Position(f.pending, m)] EXCEPT !.attempts = @ + 1]

\* Mutant: one attempt too many.
ExhaustedLate(f, m) == Tried(f, m).attempts > MaxAttempts

Exhausted(f, m) == Tried(f, m).attempts >= MaxAttempts

\* Mutant: the dead letter is only the id.
MarkAttemptBareId(f, m) ==
    [f EXCEPT !.pending = Without(@, m),
              !.deadLetter = LastN(Append(@, m), DeadLetterCap)]

\* Mutant: a failed entry goes to the back of the queue.
MarkAttemptRequeue(f, m) ==
    IF m \notin Ids(f.pending)
    THEN f
    ELSE IF Exhausted(f, m)
         THEN [f EXCEPT !.pending = Without(@, m),
                        !.deadLetter = LastN(Append(@, Tried(f, m)), DeadLetterCap)]
         ELSE [f EXCEPT !.pending = Append(Without(@, m), Tried(f, m))]

MarkAttempt(f, m) ==
    IF m \notin Ids(f.pending)
    THEN f
    ELSE IF Exhausted(f, m)
         THEN [f EXCEPT !.pending = Without(@, m),
                        !.deadLetter = LastN(Append(@, Tried(f, m)), DeadLetterCap)]
         ELSE [f EXCEPT !.pending[Position(f.pending, m)] = Tried(f, m)]

HasReplied(f, m) == m \in ToSet(f.replied)

MarkReplied(f, m) ==
    IF HasReplied(f, m)
    THEN f
    ELSE [f EXCEPT !.replied = LastN(Append(@, m), RepliedCap)]
=============================================================================
