----------------------------- MODULE InboxQueue -----------------------------
(***************************************************************************)
(* class InboxQueue of core/clawtell_core/queue.py at the level of its     *)
(* file operations: a call takes the lock, reads the file, works out the   *)
(* new content (QueueFile), writes it to a temporary file and renames that *)
(* over inbox-queue.json.  The process can die, and the file system can    *)
(* refuse, at each of those points; the file can be found missing or       *)
(* corrupt.                                                                *)
(*                                                                         *)
(* Assumed, as the class documents: no second process uses the file, so it *)
(* is damaged only between two calls.                                      *)
(***************************************************************************)
EXTENDS QueueFile

CONSTANTS
    Msgs,      \* message ids
    Absent,    \* no inbox-queue.json
    Corrupt,   \* an inbox-queue.json that is not JSON
    NoCall,    \* nobody holds the lock
    MaxDamages \* bound: times something else destroys the file

Ops == {"enqueue", "dequeue", "mark_attempt", "mark_replied", "read"}

ASSUME InboxAssumption ==
    /\ Absent # Corrupt
    /\ Absent \notin QueueContent(Msgs) /\ Corrupt \notin QueueContent(Msgs)
    /\ NoCall \notin [op : Ops, id : Msgs]
    /\ MaxDamages \in Nat

VARIABLES
    disk,      \* inbox-queue.json
    call,      \* the call that holds the lock: [op, id], or NoCall
    stage,     \* what it does next: "read", "write", "replace"
    draft,     \* the content it is going to write
    backup,    \* of the corrupt file: "none", "saved", "failed"
    damages    \* history: times something else destroyed the file

vars == <<disk, call, stage, draft, backup, damages>>

TypeOK ==
    /\ disk \in QueueContent(Msgs) \cup {Absent, Corrupt}
    /\ call \in [op : Ops, id : Msgs] \cup {NoCall}
    /\ stage \in {"read", "write", "replace"}
    /\ draft \in QueueContent(Msgs)
    /\ backup \in {"none", "saved", "failed"}
    /\ damages \in 0 .. MaxDamages

\* What _read() makes of the file.
Content == IF disk \in {Absent, Corrupt} THEN EmptyContent ELSE disk

\* What the method makes of the content.
Apply(f, op, m) ==
    CASE op = "enqueue" -> Enqueue(f, m)
      [] op = "dequeue" -> Dequeue(f, m)
      [] op = "mark_attempt" -> MarkAttempt(f, m)
      [] op = "mark_replied" -> MarkReplied(f, m)
      [] op = "read" -> f

\* The methods that return before _write(): has_replied() and the getters,
\* and those that find nothing to do.
ReturnsEarly(f, op, m) ==
    \/ op = "read"
    \/ op = "enqueue" /\ m \in Ids(f.pending)
    \/ op = "mark_attempt" /\ m \notin Ids(f.pending)
    \/ op = "mark_replied" /\ HasReplied(f, m)

Return == call' = NoCall /\ stage' = "read" /\ draft' = EmptyContent

-----------------------------------------------------------------------------
Init ==
    /\ disk \in {Absent, EmptyContent}
    /\ call = NoCall
    /\ stage = "read"
    /\ draft = EmptyContent
    /\ backup = "none"
    /\ damages = 0

\* A method is called and takes the lock.
Call(op, m) ==
    /\ call = NoCall
    /\ call' = [op |-> op, id |-> m]
    /\ UNCHANGED <<disk, stage, draft, backup, damages>>

\* Mutant: a corrupt file is started over without a copy.
ReadCarelessly ==
    /\ call # NoCall
    /\ stage = "read"
    /\ UNCHANGED <<disk, backup, damages>>
    /\ \/ ReturnsEarly(Content, call.op, call.id) /\ Return
       \/ /\ ~ReturnsEarly(Content, call.op, call.id)
          /\ draft' = Apply(Content, call.op, call.id)
          /\ stage' = "write"
          /\ UNCHANGED call

\* _read(): a corrupt file is copied aside, if that works, and reads as empty.
Read ==
    /\ call # NoCall
    /\ stage = "read"
    /\ \/ disk = Corrupt /\ backup' \in {"saved", "failed"}
       \/ disk # Corrupt /\ UNCHANGED backup
    /\ \/ ReturnsEarly(Content, call.op, call.id) /\ Return
       \/ /\ ~ReturnsEarly(Content, call.op, call.id)
          /\ draft' = Apply(Content, call.op, call.id)
          /\ stage' = "write"
          /\ UNCHANGED call
    /\ UNCHANGED <<disk, damages>>

\* Mutant: the file is opened for writing in place.
WriteInPlace ==
    /\ call # NoCall
    /\ stage = "write"
    /\ stage' = "replace"
    /\ disk' = Corrupt
    /\ UNCHANGED <<call, draft, backup, damages>>

\* _write(): mkstemp, dump and chmod, all beside the file.
WriteTemp ==
    /\ call # NoCall
    /\ stage = "write"
    /\ stage' = "replace"
    /\ UNCHANGED <<disk, call, draft, backup, damages>>

\* _write(): os.replace; the old content goes, whatever it was.
Replace ==
    /\ call # NoCall
    /\ stage = "replace"
    /\ disk' = draft
    /\ backup' = "none"
    /\ Return
    /\ UNCHANGED damages

\* _write() fails at either step: the temporary file is removed, the call
\* raises.
WriteFails ==
    /\ call # NoCall
    /\ stage \in {"write", "replace"}
    /\ Return
    /\ UNCHANGED <<disk, backup, damages>>

\* The process dies; a new one starts with the file as it is.
Crash ==
    /\ call # NoCall
    /\ Return
    /\ UNCHANGED <<disk, backup, damages>>

\* Something else leaves the file unreadable (an editor, a power cut that the
\* unsynced data did not survive).
Damage ==
    /\ call = NoCall
    /\ damages < MaxDamages
    /\ damages' = damages + 1
    /\ disk' = Corrupt
    /\ backup' = "none"
    /\ UNCHANGED <<call, stage, draft>>

Next ==
    \/ \E op \in Ops, m \in Msgs : Call(op, m)
    \/ Read \/ WriteTemp \/ Replace \/ WriteFails \/ Crash \/ Damage

Spec == Init /\ [][Next]_vars

-----------------------------------------------------------------------------
(***************************************************************************)
(* Properties.                                                             *)
(***************************************************************************)

\* No id is queued twice, so that dropping its one position is the code's list
\* comprehension, and no entry outlives its last attempt: `pending` holds
\* entries short of MaxAttempts, `deadLetter` those that reached it.
EntriesConsistent ==
    /\ \A i, j \in DOMAIN Content.pending :
           Content.pending[i].id = Content.pending[j].id => i = j
    /\ \A m \in Msgs : Without(Content.pending, m) = Others(Content.pending, m)
    /\ \A i \in DOMAIN Content.pending : Content.pending[i].attempts < MaxAttempts
    /\ \A i \in DOMAIN Content.deadLetter : Content.deadLetter[i].attempts = MaxAttempts

\* Messages wait in the order they came, across attempts, removals and crashes.
OrderKept ==
    [][\A i, j \in DOMAIN Content.pending, k, l \in DOMAIN Content'.pending :
           /\ i < j
           /\ Content'.pending[k].id = Content.pending[i].id
           /\ Content'.pending[l].id = Content.pending[j].id
           => k < l]_vars

\* A corrupt file is overwritten only after an attempt to copy it aside.
CorruptionBackedUp == [][disk = Corrupt /\ disk' # Corrupt => backup # "none"]_vars

\* Whatever fails in between, each call takes effect as a whole or not at all,
\* and records last as long as the caps say.
Promise ==
    INSTANCE QueuePromise WITH
        waiting <- [m \in Ids(Content.pending) |->
                        Content.pending[Position(Content.pending, m)].attempts],
        buried <- {[id |-> Content.deadLetter[i].id, age |-> Len(Content.deadLetter) - i] :
                        i \in DOMAIN Content.deadLetter},
        answered <- {[id |-> Content.replied[i], age |-> Len(Content.replied) - i] :
                        i \in DOMAIN Content.replied}

PromiseKept == Promise!Spec
=============================================================================
