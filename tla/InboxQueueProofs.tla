-------------------------- MODULE InboxQueueProofs --------------------------
(***************************************************************************)
(* The queue file for every set of messages, every cap and any sequence of *)
(* calls, crashes, failed writes and damages: what it holds stays sound    *)
(* and in order, and it implements QueuePromise.                           *)
(***************************************************************************)
EXTENDS InboxQueue, QueueFileProofs, WellFoundedInduction

-----------------------------------------------------------------------------
(***************************************************************************)
(* The list comprehension, for lists of every length.                      *)
(***************************************************************************)

LEMMA LeastNumber ==
    ASSUME NEW S \in SUBSET Nat, S # {}
    PROVE  \E n \in S : \A m \in S : n <= m
<1>1. \E R : IsWellFoundedOn(R, Nat) /\ \A m, n \in Nat : m < n => <<m, n>> \in R
  <2>1. \A m, n \in Nat : m < n => <<m, n>> \in OpToRel(<, Nat)
    BY DEF OpToRel
  <2> QED
    BY <2>1, NatLessThanWellFounded
<1>2. PICK R : IsWellFoundedOn(R, Nat) /\ \A m, n \in Nat : m < n => <<m, n>> \in R
  BY <1>1
<1>3. IsWellFoundedOn(R, Nat) /\ S \subseteq Nat /\ S # {}
  BY <1>2
<1>4. PICK n \in S : \A m \in S : ~(<<m, n>> \in R)
  BY ONLY <1>3, WFMin, Zenon
<1>5. \A m \in S : ~(m < n)
  BY <1>2, <1>4
<1> QED
  BY <1>5

\* What the comprehension has kept after each of the first n entries.
Kept(g, list, m, n) ==
    g = [i \in 0 .. n |-> IF i = 0 THEN <<>>
                          ELSE IF list[i].id = m THEN g[i - 1]
                          ELSE Append(g[i - 1], list[i])]

LEMMA KeptNext ==
    ASSUME NEW list, NEW m, NEW n \in Nat, NEW g, Kept(g, list, m, n)
    PROVE  \E h : Kept(h, list, m, n + 1)
<1> DEFINE more(s, i) == IF list[i].id = m THEN s ELSE Append(s, list[i])
           h == [i \in 0 .. (n + 1) |-> IF i = n + 1 THEN more(g[n], n + 1) ELSE g[i]]
<1>1. \A i \in 0 .. n : g[i] = IF i = 0 THEN <<>> ELSE more(g[i - 1], i)
  BY DEF Kept
<1> HIDE DEF more
<1>2. \A i \in 0 .. (n + 1) : h[i] = IF i = 0 THEN <<>> ELSE more(h[i - 1], i)
  <2> SUFFICES ASSUME NEW i \in 0 .. (n + 1)
               PROVE  h[i] = IF i = 0 THEN <<>> ELSE more(h[i - 1], i)
    OBVIOUS
  <2>1. CASE i = 0
    BY <2>1, <1>1
  <2>2. CASE i \in 1 .. n
    BY <2>2, <1>1
  <2>3. CASE i = n + 1
    BY <2>3
  <2> QED
    BY <2>1, <2>2, <2>3
<1>3. h = [i \in 0 .. (n + 1) |-> h[i]]
  OBVIOUS
<1> HIDE DEF h
<1>4. Kept(h, list, m, n + 1)
  BY <1>2, <1>3 DEF Kept, more
<1> QED
  BY <1>4

LEMMA KeptExists ==
    ASSUME NEW list, NEW m
    PROVE  \A n \in Nat : \E g : Kept(g, list, m, n)
<1> DEFINE Bad == {n \in Nat : ~\E g : Kept(g, list, m, n)}
<1> SUFFICES ASSUME Bad # {}
             PROVE  FALSE
  OBVIOUS
<1>1. PICK n \in Bad : \A k \in Bad : n <= k
  <2>1. Bad \in SUBSET Nat
    OBVIOUS
  <2> HIDE DEF Bad
  <2> QED
    BY <2>1, LeastNumber
<1>2. CASE n = 0
  <2> DEFINE g0 == [i \in 0 .. 0 |-> <<>>]
  <2>1. Kept(g0, list, m, 0)
    BY DEF Kept
  <2> QED
    BY <1>1, <1>2, <2>1
<1>3. CASE n # 0
  <2>1. n - 1 \in Nat /\ n - 1 \notin Bad
    BY <1>1, <1>3
  <2>2. PICK g : Kept(g, list, m, n - 1)
    BY <2>1
  <2>3. \E h : Kept(h, list, m, (n - 1) + 1)
    BY <2>1, <2>2, KeptNext
  <2> QED
    BY <1>1, <2>3
<1> QED
  BY <1>2, <1>3

\* In a list with no id twice, taking out the one position of an id leaves what
\* the comprehension keeps.
LEMMA WithoutIsComprehension ==
    ASSUME NEW ids, NEW list \in Seq(Entry(ids)), Distinct(list), NEW m
    PROVE  Without(list, m) = Others(list, m)
<1> DEFINE w == Without(list, m)
           p == IF m \in Ids(list) THEN Position(list, m) ELSE Len(list) + 1
           len == Len(list)
           upTo(n) == IF n < p THEN n ELSE n - 1
<1>1. /\ len \in Nat /\ p \in 1 .. len + 1 /\ w \in Seq(Entry(ids)) /\ Len(w) = upTo(len)
      /\ \A i \in 1 .. Len(w) : w[i] = IF i < p THEN list[i] ELSE list[i + 1]
      /\ \A i \in 1 .. len : list[i].id = m <=> i = p
  <2>1. CASE m \in Ids(list)
    <3>1. /\ p \in 1 .. len /\ list[p].id = m /\ p = Position(list, m)
          /\ w \in Seq(Entry(ids)) /\ Len(w) = len - 1
          /\ \A i \in 1 .. Len(w) : w[i] = IF i < p THEN list[i] ELSE list[i + 1]
      BY <2>1, WithoutPlaces
    <3> HIDE DEF w, p
    <3> QED
      BY <3>1 DEF Distinct
  <2>2. CASE m \notin Ids(list)
    <3>1. w = list /\ p = len + 1
      BY <2>2 DEF Without
    <3>2. \A i \in 1 .. len : list[i].id # m
      BY <2>2 DEF Ids
    <3> HIDE DEF w, p
    <3> QED
      BY <3>1, <3>2
  <2> QED
    BY <2>1, <2>2
<1>2. PICK g : Kept(g, list, m, len) /\ Others(list, m) = g[len]
  <2> DEFINE t == CHOOSE g : Kept(g, list, m, len)
  <2>1. Kept(t, list, m, len)
    BY <1>1, KeptExists
  <2>2. Others(list, m) = t[len]
    BY DEF Others, Kept
  <2> QED
    BY <2>1, <2>2
<1> HIDE DEF w, p, len
<1>3. /\ g[0] = <<>>
      /\ \A i \in 1 .. len : g[i] = IF i = p THEN g[i - 1] ELSE Append(g[i - 1], list[i])
  <2> DEFINE next(i) == IF i = 0 THEN <<>>
                        ELSE IF list[i].id = m THEN g[i - 1]
                        ELSE Append(g[i - 1], list[i])
  <2>1. \A i \in 0 .. len : g[i] = next(i)
    <3>1. g = [i \in 0 .. len |-> next(i)]
      BY ONLY <1>2 DEF Kept
    <3> HIDE DEF next
    <3> QED
      BY ONLY <3>1
  <2>2. g[0] = <<>>
    BY <2>1, <1>1
  <2>3. ASSUME NEW i \in 1 .. len
        PROVE  g[i] = IF i = p THEN g[i - 1] ELSE Append(g[i - 1], list[i])
    <3>1. i \in 0 .. len /\ i # 0
      BY <1>1
    <3>2. g[i] = IF list[i].id = m THEN g[i - 1] ELSE Append(g[i - 1], list[i])
      BY ONLY <2>1, <3>1
    <3>3. list[i].id = m <=> i = p
      BY <1>1
    <3> QED
      BY ONLY <3>2, <3>3
  <2> QED
    BY ONLY <2>2, <2>3
<1> DEFINE part(n) == [i \in 1 .. upTo(n) |-> w[i]]
           Bad == {n \in 0 .. len : g[n] # part(n)}
<1>4. Bad = {}
  <2> SUFFICES ASSUME Bad # {} PROVE FALSE
    OBVIOUS
  <2>1. PICK n \in Bad : \A k \in Bad : n <= k
    <3>1. Bad \in SUBSET Nat
      BY <1>1
    <3> HIDE DEF Bad
    <3> QED
      BY <3>1, LeastNumber
  <2>2. CASE n = 0
    <3>1. upTo(0) = 0
      BY <1>1
    <3>2. part(0) = <<>>
      BY <3>1
    <3> QED
      BY <2>1, <2>2, <3>2, <1>3
  <2>3. CASE n # 0
    <3>1. n \in 1 .. len /\ n - 1 \in 0 .. len /\ n - 1 \notin Bad
      BY <2>1, <2>3, <1>1
    <3>2. g[n - 1] = part(n - 1)
      BY <3>1
    <3>3. CASE n = p
      <4>1. upTo(n) = upTo(n - 1)
        BY <3>1, <3>3, <1>1
      <4>2. g[n] = g[n - 1]
        BY <3>1, <3>3, <1>3
      <4> QED
        BY <4>1, <4>2, <3>2, <2>1
    <3>4. CASE n # p
      <4> DEFINE k == upTo(n)
      <4>1. /\ k \in 1 .. Len(w) /\ upTo(n - 1) = k - 1
            /\ w[k] = list[n]
        BY <3>1, <3>4, <1>1
      <4>2. g[n] = Append(part(n - 1), list[n])
        BY <3>1, <3>2, <3>4, <1>3
      <4> HIDE DEF k
      <4>3. part(n - 1) = [i \in 1 .. (k - 1) |-> w[i]]
        BY <4>1
      <4>4. Append([i \in 1 .. (k - 1) |-> w[i]], w[k]) = [i \in 1 .. k |-> w[i]]
        <5>1. \A i \in 1 .. k : w[i] \in Entry(ids)
          BY <4>1, <1>1
        <5> QED
          BY <4>1, <5>1
      <4>5. part(n) = [i \in 1 .. k |-> w[i]]
        BY DEF k
      <4> QED
        BY <4>1, <4>2, <4>3, <4>4, <4>5, <2>1
    <3> QED
      BY <3>3, <3>4
  <2> QED
    BY <2>2, <2>3
<1>5. g[len] = [i \in 1 .. Len(w) |-> w[i]]
  <2>1. len \in 0 .. len
    BY <1>1
  <2>2. g[len] = part(len)
    BY ONLY <1>4, <2>1
  <2> QED
    BY <2>2, <1>1
<1>6. w = [i \in 1 .. Len(w) |-> w[i]]
  BY <1>1
<1> QED
  BY <1>2, <1>5, <1>6 DEF w

-----------------------------------------------------------------------------
(***************************************************************************)
(* The inductive invariant.                                                *)
(***************************************************************************)

\* A content no sequence of calls spoils: an id waits once, with attempts left,
\* and a dead letter has used them up.
Sound(f) ==
    /\ Distinct(f.pending)
    /\ \A i \in DOMAIN f.pending : f.pending[i].attempts < MaxAttempts
    /\ \A i \in DOMAIN f.deadLetter : f.deadLetter[i].attempts = MaxAttempts

\* Between _read() and os.replace() the draft is the operation applied to what
\* the file still says, and a corrupt file has been copied aside or could not be.
DraftIsApplied ==
    stage # "read" =>
        /\ call # NoCall
        /\ draft = Apply(Content, call.op, call.id)
        /\ disk = Corrupt => backup # "none"

IInv == TypeOK /\ Sound(Content) /\ DraftIsApplied

-----------------------------------------------------------------------------
(***************************************************************************)
(* Every method keeps the content sound.                                   *)
(***************************************************************************)

\* What mark_attempt() does to an id that waits, field by field.
LEMMA MarkAttemptFields ==
    ASSUME NEW ids, NEW f \in QueueContent(ids), NEW m \in Ids(f.pending)
    PROVE  LET p == Position(f.pending, m)
               e == Tried(f, m)
               g == MarkAttempt(f, m)
           IN  /\ p \in 1 .. Len(f.pending) /\ f.pending[p].id = m
               /\ f.pending[p].attempts \in Nat
               /\ e \in Entry(ids) /\ e.id = m /\ e.attempts = f.pending[p].attempts + 1
               /\ g.replied = f.replied
               /\ e.attempts >= MaxAttempts =>
                      /\ g.pending = Without(f.pending, m)
                      /\ g.deadLetter = LastN(Append(f.deadLetter, e), DeadLetterCap)
               /\ ~(e.attempts >= MaxAttempts) =>
                      /\ g.pending = [f.pending EXCEPT ![p] = e]
                      /\ g.deadLetter = f.deadLetter
<1> DEFINE p == Position(f.pending, m)
           x == f.pending[p]
           e == Tried(f, m)
<1>1. f.pending \in Seq(Entry(ids))
  BY DEF QueueContent
<1>2. p \in 1 .. Len(f.pending) /\ x.id = m
  BY <1>1, PositionOf
<1>3. x.attempts \in Nat /\ e \in Entry(ids) /\ e.id = m /\ e.attempts = x.attempts + 1
  <2>1. x \in Entry(ids)
    BY <1>1, <1>2
  <2>2. e = [x EXCEPT !.attempts = @ + 1]
    BY DEF Tried
  <2> HIDE DEF x, e
  <2>3. e \in Entry(ids) /\ e.id = m
    BY <2>1, <2>2, <1>2, CountOne
  <2> QED
    BY <2>1, <2>2, <2>3 DEF Entry
<1>4. Exhausted(f, m) <=> e.attempts >= MaxAttempts
  BY DEF Exhausted
<1>5. CASE Exhausted(f, m)
  <2>1. MarkAttempt(f, m) = [f EXCEPT !.pending = Without(@, m),
                                      !.deadLetter = LastN(Append(@, e), DeadLetterCap)]
    BY <1>5 DEF MarkAttempt
  <2> HIDE DEF e, x
  <2> QED
    BY <2>1, <1>2, <1>3, <1>4, <1>5 DEF QueueContent, x, p, e
<1>6. CASE ~Exhausted(f, m)
  <2>1. MarkAttempt(f, m) = [f EXCEPT !.pending[p] = e]
    BY <1>6 DEF MarkAttempt
  <2> HIDE DEF e, x
  <2> QED
    BY <2>1, <1>2, <1>3, <1>4, <1>6 DEF QueueContent, x, p, e
<1> QED
  BY <1>5, <1>6

\* Each method turns a content of the right type into another.
LEMMA ApplyType ==
    ASSUME NEW f \in QueueContent(Msgs), NEW op \in Ops, NEW m \in Msgs
    PROVE  Apply(f, op, m) \in QueueContent(Msgs)
<1>1. /\ Enqueue(f, m) \in QueueContent(Msgs) /\ Dequeue(f, m) \in QueueContent(Msgs)
      /\ MarkAttempt(f, m) \in QueueContent(Msgs) /\ MarkReplied(f, m) \in QueueContent(Msgs)
  BY EnqueueProperties, DequeueProperties, MarkAttemptProperties, MarkRepliedProperties,
     QueueAssumption
<1> QED
  BY <1>1 DEF Apply, Ops

\* No method makes an id wait twice, lets an entry outlive its last attempt or
\* buries one that has attempts left.
LEMMA ApplySound ==
    ASSUME NEW f \in QueueContent(Msgs), Sound(f), NEW op \in Ops, NEW m \in Msgs
    PROVE  Sound(Apply(f, op, m))
<1>1. /\ f.pending \in Seq(Entry(Msgs)) /\ f.deadLetter \in Seq(Entry(Msgs))
      /\ Distinct(f.pending)
      /\ \A i \in DOMAIN f.pending : f.pending[i].attempts < MaxAttempts
      /\ \A i \in DOMAIN f.deadLetter : f.deadLetter[i].attempts = MaxAttempts
  BY DEF Sound, QueueContent
<1>2. /\ MaxAttempts - 1 \in Nat /\ MaxAttempts \in Nat
      /\ AtMost(f.pending, MaxAttempts - 1)
  <2>1. MaxAttempts - 1 \in Nat /\ MaxAttempts \in Nat
    BY QueueAssumption
  <2>2. \A i \in DOMAIN f.pending : f.pending[i].attempts \in Nat
    <3>1. \A i \in DOMAIN f.pending : f.pending[i] \in Entry(Msgs)
      BY <1>1
    <3> QED
      BY <3>1 DEF Entry
  <2> QED
    BY <2>1, <2>2, <1>1 DEF AtMost
<1>3. ASSUME NEW list \in Seq(Entry(Msgs)), AtMost(list, MaxAttempts - 1)
      PROVE  \A i \in DOMAIN list : list[i].attempts < MaxAttempts
  <2>1. \A i \in DOMAIN list : list[i] \in Entry(Msgs)
    OBVIOUS
  <2>2. \A i \in DOMAIN list : list[i].attempts \in Nat
    BY <2>1 DEF Entry
  <2> QED
    BY <2>2, <1>2, <1>3 DEF AtMost
<1>4. Sound(Enqueue(f, m))
  <2>1. /\ Enqueue(f, m) \in QueueContent(Msgs) /\ Distinct(Enqueue(f, m).pending)
        /\ AtMost(Enqueue(f, m).pending, MaxAttempts - 1)
    BY <1>1, <1>2, EnqueueProperties, EnqueueEntries
  <2>2. Enqueue(f, m).deadLetter = f.deadLetter
    BY DEF Enqueue, QueueContent
  <2>3. Enqueue(f, m).pending \in Seq(Entry(Msgs))
    BY <2>1 DEF QueueContent
  <2> QED
    BY <2>1, <2>2, <2>3, <1>1, <1>3 DEF Sound
<1>5. Sound(Dequeue(f, m))
  <2>1. /\ Dequeue(f, m) \in QueueContent(Msgs) /\ Distinct(Dequeue(f, m).pending)
        /\ AtMost(Dequeue(f, m).pending, MaxAttempts - 1)
    BY <1>1, <1>2, DequeueProperties, DequeueEntries
  <2>2. Dequeue(f, m).deadLetter = f.deadLetter
    BY DEF Dequeue, QueueContent
  <2>3. Dequeue(f, m).pending \in Seq(Entry(Msgs))
    BY <2>1 DEF QueueContent
  <2> QED
    BY <2>1, <2>2, <2>3, <1>1, <1>3 DEF Sound
<1>6. Sound(MarkAttempt(f, m))
  <2>1. CASE m \notin Ids(f.pending)
    BY <2>1 DEF MarkAttempt
  <2>2. CASE m \in Ids(f.pending)
    <3> DEFINE p == Position(f.pending, m)
               e == Tried(f, m)
               g == MarkAttempt(f, m)
    <3>1. /\ p \in 1 .. Len(f.pending) /\ f.pending[p].id = m
          /\ f.pending[p].attempts \in Nat
          /\ e \in Entry(Msgs) /\ e.id = m /\ e.attempts = f.pending[p].attempts + 1
          /\ e.attempts >= MaxAttempts =>
                 /\ g.pending = Without(f.pending, m)
                 /\ g.deadLetter = LastN(Append(f.deadLetter, e), DeadLetterCap)
          /\ ~(e.attempts >= MaxAttempts) =>
                 /\ g.pending = [f.pending EXCEPT ![p] = e]
                 /\ g.deadLetter = f.deadLetter
      BY <2>2, MarkAttemptFields
    <3>2. Distinct(g.pending)
      BY <1>1, MarkAttemptEntries
    <3> HIDE DEF p, e, g
    <3>3. CASE e.attempts >= MaxAttempts
      <4> DEFINE longer == Append(f.deadLetter, e)
                 kept == LastN(longer, DeadLetterCap)
      <4>1. e.attempts = MaxAttempts
        BY <3>1, <3>3, <1>1, <1>2
      <4>2. longer \in Seq(Entry(Msgs)) /\ \A i \in 1 .. Len(longer) : longer[i].attempts = MaxAttempts
        BY <3>1, <4>1, <1>1
      <4>3. /\ kept \in Seq(Entry(Msgs)) /\ Len(kept) <= Len(longer)
            /\ \A i \in 1 .. Len(kept) : kept[i] = longer[i + (Len(longer) - Len(kept))]
        BY <4>2, LastNProperties, QueueAssumption
      <4> HIDE DEF longer, kept
      <4>4. \A i \in DOMAIN kept : kept[i].attempts = MaxAttempts
        <5>1. Len(longer) \in Nat /\ Len(kept) \in Nat /\ DOMAIN kept = 1 .. Len(kept)
          BY <4>2, <4>3
        <5>2. ASSUME NEW i \in 1 .. Len(kept)
              PROVE  kept[i].attempts = MaxAttempts
          <6> DEFINE j == i + (Len(longer) - Len(kept))
          <6>1. kept[i] = longer[j]
            BY <4>3
          <6>2. j \in 1 .. Len(longer)
            BY <5>1, <4>3
          <6> HIDE DEF j
          <6>3. longer[j].attempts = MaxAttempts
            BY <6>2, <4>2
          <6> QED
            BY <6>1, <6>3
        <5> QED
          BY <5>1, <5>2
      <4>5. /\ Without(f.pending, m) \in Seq(Entry(Msgs))
            /\ AtMost(Without(f.pending, m), MaxAttempts - 1)
        BY <1>1, <1>2, WithoutProperties, WithoutEntries
      <4> QED
        BY <3>1, <3>2, <3>3, <4>4, <4>5, <1>3 DEF Sound, longer, kept, g
    <3>4. CASE ~(e.attempts >= MaxAttempts)
      <4>1. \A i \in DOMAIN g.pending : /\ i \in DOMAIN f.pending
                                        /\ g.pending[i] = IF i = p THEN e ELSE f.pending[i]
        BY <3>1, <3>4, <1>1
      <4>2. \A i \in DOMAIN g.pending : g.pending[i].attempts < MaxAttempts
        BY <4>1, <3>1, <3>4, <1>1, <1>2
      <4> QED
        BY <3>1, <3>2, <3>4, <4>2, <1>1 DEF Sound, g
    <3> QED
      BY <3>3, <3>4
  <2> QED
    BY <2>1, <2>2
<1>7. Sound(MarkReplied(f, m))
  <2>1. /\ MarkReplied(f, m).pending = f.pending
        /\ MarkReplied(f, m).deadLetter = f.deadLetter
    BY DEF MarkReplied, QueueContent
  <2> QED
    BY <2>1, <1>1 DEF Sound
<1> QED
  BY <1>4, <1>5, <1>6, <1>7 DEF Apply, Ops

-----------------------------------------------------------------------------
(***************************************************************************)
(* The invariant holds.                                                    *)
(***************************************************************************)

LEMMA NothingIsSound ==
    EmptyContent \in QueueContent(Msgs) /\ Sound(EmptyContent)
BY DEF EmptyContent, QueueContent, Sound, Distinct

LEMMA ContentType ==
    ASSUME TypeOK
    PROVE  Content \in QueueContent(Msgs)
BY NothingIsSound DEF TypeOK, Content

\* What is on disk after a write is what is read.
LEMMA ReadsBack ==
    ASSUME disk' \in QueueContent(Msgs)
    PROVE  Content' = disk'
BY InboxAssumption DEF Content

LEMMA InitIInv == ASSUME Init PROVE IInv
<1>1. disk \in QueueContent(Msgs) \cup {Absent, Corrupt} /\ Content = EmptyContent
  BY NothingIsSound DEF Init, Content
<1>2. 0 \in 0 .. MaxDamages
  BY InboxAssumption
<1> QED
  BY <1>1, <1>2, NothingIsSound DEF Init, IInv, TypeOK, DraftIsApplied

LEMMA StepIInv == ASSUME IInv, [Next]_vars PROVE IInv'
<1> USE DEF IInv
<1>1. CASE UNCHANGED vars
  <2>1. Content' = Content
    BY <1>1 DEF vars, Content
  <2>2. Sound(Content)'
    BY <2>1 DEF Sound
  <2> QED
    BY <1>1, <2>1, <2>2 DEF vars, TypeOK, DraftIsApplied
<1>2. ASSUME NEW op \in Ops, NEW m \in Msgs, Call(op, m) PROVE IInv'
  <2>1. Content' = Content
    BY <1>2 DEF Call, Content
  <2>2. Sound(Content)'
    BY <2>1 DEF Sound
  <2>3. stage = "read"
    BY <1>2 DEF Call, DraftIsApplied
  <2> QED
    BY <1>2, <2>2, <2>3 DEF Call, TypeOK, DraftIsApplied
<1>3. CASE Read
  <2>1. Content' = Content
    BY <1>3 DEF Read, Content
  <2>2. Sound(Content)'
    BY <2>1 DEF Sound
  <2>3. call.op \in Ops /\ call.id \in Msgs
    BY <1>3 DEF Read, TypeOK
  <2>4. Apply(Content, call.op, call.id) \in QueueContent(Msgs)
    BY <2>3, ContentType, ApplyType
  <2>5. TypeOK'
    BY <1>3, <2>4, NothingIsSound DEF Read, Return, TypeOK
  <2>6. DraftIsApplied'
    <3>1. CASE Return
      BY <3>1 DEF Return, DraftIsApplied
    <3>2. CASE draft' = Apply(Content, call.op, call.id) /\ stage' = "write" /\ call' = call
      BY <1>3, <2>1, <3>2 DEF Read, DraftIsApplied
    <3> QED
      BY <1>3, <3>1, <3>2 DEF Read
  <2> QED
    BY <2>2, <2>5, <2>6
<1>4. CASE WriteTemp
  <2>1. Content' = Content
    BY <1>4 DEF WriteTemp, Content
  <2>2. Sound(Content)'
    BY <2>1 DEF Sound
  <2> QED
    BY <1>4, <2>1, <2>2 DEF WriteTemp, TypeOK, DraftIsApplied
<1>5. CASE Replace
  <2>1. disk' = draft /\ draft \in QueueContent(Msgs)
    BY <1>5 DEF Replace, TypeOK
  <2>2. Content' = draft
    BY <2>1, ReadsBack
  <2>3. call.op \in Ops /\ call.id \in Msgs /\ draft = Apply(Content, call.op, call.id)
    BY <1>5 DEF Replace, TypeOK, DraftIsApplied
  <2>4. Sound(draft)
    BY <2>3, ContentType, ApplySound
  <2>5. Sound(Content)'
    BY <2>2, <2>4 DEF Sound
  <2>6. TypeOK'
    BY <1>5, <2>1, NothingIsSound DEF Replace, Return, TypeOK
  <2>7. DraftIsApplied'
    BY <1>5 DEF Replace, Return, DraftIsApplied
  <2> QED
    BY <2>5, <2>6, <2>7
<1>6. CASE WriteFails \/ Crash
  <2>1. Return /\ UNCHANGED <<disk, backup, damages>>
    BY <1>6 DEF WriteFails, Crash
  <2>2. Content' = Content
    BY <2>1 DEF Content
  <2>3. Sound(Content)'
    BY <2>2 DEF Sound
  <2> QED
    BY <2>1, <2>3, NothingIsSound DEF Return, TypeOK, DraftIsApplied
<1>7. CASE Damage
  <2>1. Content' = EmptyContent
    BY <1>7 DEF Damage, Content
  <2>2. Sound(Content)'
    BY <2>1, NothingIsSound DEF Sound
  <2>3. stage = "read"
    BY <1>7 DEF Damage, DraftIsApplied
  <2>4. damages' \in 0 .. MaxDamages
    BY <1>7, InboxAssumption DEF Damage, TypeOK
  <2> QED
    BY <1>7, <2>2, <2>3, <2>4 DEF Damage, TypeOK, DraftIsApplied
<1> QED
  BY <1>1, <1>2, <1>3, <1>4, <1>5, <1>6, <1>7 DEF Next

LEMMA AlwaysSound == Spec => []IInv
<1>1. Init => IInv
  BY InitIInv
<1>2. IInv /\ [Next]_vars => IInv'
  BY StepIInv
<1> QED
  BY <1>1, <1>2, PTL DEF Spec

-----------------------------------------------------------------------------
(***************************************************************************)
(* What follows from it.                                                   *)
(***************************************************************************)

\* Every state of the file and of a call is of the type the model declares, for
\* any number of calls and damages.
THEOREM TypesKept == Spec => []TypeOK
BY AlwaysSound, PTL DEF IInv

\* No id waits twice, dequeue() takes out exactly what the code's comprehension
\* does, an entry waits only while it has attempts left and a dead letter has
\* none, whatever crashed or failed before.
THEOREM NeverSpoiled == Spec => []EntriesConsistent
<1>1. ASSUME IInv PROVE EntriesConsistent
  <2>1. Content.pending \in Seq(Entry(Msgs)) /\ Sound(Content)
    BY <1>1, ContentType DEF IInv, QueueContent
  <2>2. \A m \in Msgs : Without(Content.pending, m) = Others(Content.pending, m)
    BY <2>1, WithoutIsComprehension DEF Sound
  <2> QED
    BY <2>1, <2>2 DEF Sound, Distinct, EntriesConsistent
<1> QED
  BY <1>1, AlwaysSound, PTL

\* A call that replaces a corrupt file has tried to copy it aside first.
THEOREM CopiedAsideFirst == Spec => CorruptionBackedUp
<1>1. ASSUME IInv, [Next]_vars
      PROVE  [disk = Corrupt /\ disk' # Corrupt => backup # "none"]_vars
  <2>1. CASE Replace
    BY <1>1, <2>1 DEF IInv, DraftIsApplied, Replace
  <2>2. CASE ~Replace
    <3>1. disk' \in {disk, Corrupt}
      BY <1>1, <2>2 DEF Next, vars, Call, Read, WriteTemp, WriteFails, Crash, Damage
    <3> QED
      BY <3>1
  <2> QED
    BY <2>1, <2>2
<1> QED
  BY <1>1, AlwaysSound, PTL DEF Spec, CorruptionBackedUp

-----------------------------------------------------------------------------
(***************************************************************************)
(* The order of the queue.                                                 *)
(***************************************************************************)

\* The ids of `older` that are still in `newer` stand there in the same order.
SameOrder(older, newer) ==
    \A i, j \in DOMAIN older, k, l \in DOMAIN newer :
        /\ i < j
        /\ newer[k].id = older[i].id
        /\ newer[l].id = older[j].id
        => k < l

LEMMA SameIdsSameOrder ==
    ASSUME NEW older, NEW newer, Distinct(older), DOMAIN newer = DOMAIN older,
           \A i \in DOMAIN older : newer[i].id = older[i].id
    PROVE  SameOrder(older, newer)
BY DEF SameOrder, Distinct

LEMMA WithoutKeepsOrder ==
    ASSUME NEW ids, NEW list \in Seq(Entry(ids)), Distinct(list), NEW m
    PROVE  SameOrder(list, Without(list, m))
<1>1. CASE m \notin Ids(list)
  BY <1>1, SameIdsSameOrder DEF Without
<1>2. CASE m \in Ids(list)
  <2> DEFINE p == Position(list, m)
             w == Without(list, m)
             from(i) == IF i < p THEN i ELSE i + 1
  <2>1. /\ p \in 1 .. Len(list)
        /\ w \in Seq(Entry(ids)) /\ Len(w) = Len(list) - 1
        /\ \A i \in 1 .. Len(w) : w[i] = IF i < p THEN list[i] ELSE list[i + 1]
    BY <1>2, WithoutPlaces
  <2> HIDE DEF p, w
  <2>2. /\ DOMAIN w = 1 .. Len(w) /\ DOMAIN list = 1 .. Len(list)
        /\ \A i \in 1 .. Len(w) : from(i) \in 1 .. Len(list) /\ w[i] = list[from(i)]
        /\ \A k, l \in 1 .. Len(w) : from(k) < from(l) => k < l
    BY <2>1
  <2> HIDE DEF from
  <2>3. ASSUME NEW i \in DOMAIN list, NEW j \in DOMAIN list,
               NEW k \in DOMAIN w, NEW l \in DOMAIN w,
               i < j, w[k].id = list[i].id, w[l].id = list[j].id
        PROVE  k < l
    <3>1. from(k) = i /\ from(l) = j
      BY <2>2, <2>3 DEF Distinct
    <3> QED
      BY <3>1, <2>2, <2>3
  <2> QED
    BY <2>3 DEF SameOrder, w
<1> QED
  BY <1>1, <1>2

LEMMA EnqueueKeepsOrder ==
    ASSUME NEW f \in QueueContent(Msgs), Distinct(f.pending), NEW m \in Msgs
    PROVE  SameOrder(f.pending, Enqueue(f, m).pending)
<1>1. CASE m \in Ids(f.pending)
  BY <1>1, SameIdsSameOrder DEF Enqueue
<1>2. CASE m \notin Ids(f.pending)
  <2> DEFINE e == [id |-> m, attempts |-> 0]
             list == f.pending
             longer == Append(list, e)
  <2>1. list \in Seq(Entry(Msgs)) /\ Enqueue(f, m).pending = longer /\ e.id = m
    BY <1>2 DEF QueueContent, Enqueue
  <2>2. \A i \in DOMAIN list : list[i].id # m
    BY <1>2 DEF Ids
  <2>3. Distinct(list)
    OBVIOUS
  <2> HIDE DEF list, e
  <2>4. /\ DOMAIN list = 1 .. Len(list) /\ DOMAIN longer = 1 .. Len(list) + 1
        /\ \A i \in 1 .. Len(list) + 1 : longer[i] = IF i <= Len(list) THEN list[i] ELSE e
        /\ Len(list) \in Nat
    BY <2>1
  <2> HIDE DEF longer
  <2>5. ASSUME NEW i \in DOMAIN list, NEW j \in DOMAIN list,
               NEW k \in DOMAIN longer, NEW l \in DOMAIN longer,
               i < j, longer[k].id = list[i].id, longer[l].id = list[j].id
        PROVE  k < l
    <3>1. k = i /\ l = j
      BY <2>1, <2>2, <2>3, <2>4, <2>5 DEF Distinct
    <3> QED
      BY <3>1, <2>5
  <2> QED
    BY <2>1, <2>5 DEF SameOrder, list
<1> QED
  BY <1>1, <1>2

LEMMA MarkAttemptKeepsOrder ==
    ASSUME NEW f \in QueueContent(Msgs), Distinct(f.pending), NEW m
    PROVE  SameOrder(f.pending, MarkAttempt(f, m).pending)
<1>1. f.pending \in Seq(Entry(Msgs))
  BY DEF QueueContent
<1>2. CASE m \notin Ids(f.pending)
  BY <1>2, SameIdsSameOrder DEF MarkAttempt
<1>3. CASE m \in Ids(f.pending)
  <2> DEFINE p == Position(f.pending, m)
             e == Tried(f, m)
             g == MarkAttempt(f, m)
  <2>1. /\ p \in 1 .. Len(f.pending) /\ f.pending[p].id = m /\ e.id = m
        /\ e.attempts >= MaxAttempts => g.pending = Without(f.pending, m)
        /\ ~(e.attempts >= MaxAttempts) => g.pending = [f.pending EXCEPT ![p] = e]
    BY <1>3, MarkAttemptFields
  <2> HIDE DEF p, e, g
  <2>2. CASE e.attempts >= MaxAttempts
    BY <2>1, <2>2, <1>1, WithoutKeepsOrder DEF g
  <2>3. CASE ~(e.attempts >= MaxAttempts)
    <3>1. /\ DOMAIN g.pending = DOMAIN f.pending
          /\ \A i \in DOMAIN f.pending : g.pending[i].id = f.pending[i].id
      BY <2>1, <2>3, <1>1
    <3> QED
      BY <3>1, SameIdsSameOrder DEF g
  <2> QED
    BY <2>2, <2>3
<1> QED
  BY <1>2, <1>3

LEMMA ApplyKeepsOrder ==
    ASSUME NEW f \in QueueContent(Msgs), Sound(f), NEW op \in Ops, NEW m \in Msgs
    PROVE  SameOrder(f.pending, Apply(f, op, m).pending)
<1>1. Distinct(f.pending) /\ f.pending \in Seq(Entry(Msgs))
  BY DEF Sound, QueueContent
<1>2. SameOrder(f.pending, f.pending)
  BY <1>1, SameIdsSameOrder
<1>3. SameOrder(f.pending, Dequeue(f, m).pending)
  <2>1. Dequeue(f, m).pending = Without(f.pending, m)
    BY DEF Dequeue, QueueContent
  <2> QED
    BY <1>1, <2>1, WithoutKeepsOrder
<1>4. SameOrder(f.pending, Enqueue(f, m).pending)
  BY <1>1, EnqueueKeepsOrder
<1>5. SameOrder(f.pending, MarkAttempt(f, m).pending)
  BY <1>1, MarkAttemptKeepsOrder
<1>6. SameOrder(f.pending, MarkReplied(f, m).pending)
  <2>1. MarkReplied(f, m).pending = f.pending
    BY DEF MarkReplied, QueueContent
  <2> QED
    BY <2>1, <1>2
<1> QED
  BY <1>2, <1>3, <1>4, <1>5, <1>6 DEF Apply, Ops

\* What a step does to the content: nothing, one whole method, or, when the file
\* was destroyed, all of it is gone.
LEMMA StepContent ==
    ASSUME IInv, [Next]_vars
    PROVE  \/ Content' = Content /\ damages' = damages
           \/ /\ Replace /\ damages' = damages
              /\ call.op \in Ops /\ call.id \in Msgs
              /\ Content' = Apply(Content, call.op, call.id)
           \/ Damage /\ Content' = EmptyContent
<1>1. CASE Replace
  <2>1. /\ call.op \in Ops /\ call.id \in Msgs /\ draft \in QueueContent(Msgs)
        /\ draft = Apply(Content, call.op, call.id) /\ disk' = draft
    BY <1>1 DEF IInv, TypeOK, DraftIsApplied, Replace
  <2>2. Content' = draft
    BY <2>1, ReadsBack
  <2> QED
    BY <1>1, <2>1, <2>2 DEF Replace
<1>2. CASE Damage
  BY <1>2 DEF Damage, Content
<1>3. CASE ~Replace /\ ~Damage
  <2>1. disk' = disk /\ damages' = damages
    BY <1>3 DEF Next, vars, Call, Read, WriteTemp, WriteFails, Crash
  <2> QED
    BY <2>1 DEF Content
<1> QED
  BY <1>1, <1>2, <1>3

\* Messages that stay in the queue stay in the order they came in, whatever is
\* taken out between them, counted, or interrupted.
THEOREM FirstInFirst == Spec => OrderKept
<1>1. ASSUME IInv, [Next]_vars
      PROVE  SameOrder(Content.pending, Content'.pending)
  <2>1. Content \in QueueContent(Msgs) /\ Sound(Content)
    BY <1>1, ContentType DEF IInv
  <2>2. CASE Content' = Content
    BY <2>1, <2>2, SameIdsSameOrder DEF Sound
  <2>3. CASE /\ call.op \in Ops /\ call.id \in Msgs
             /\ Content' = Apply(Content, call.op, call.id)
    BY <2>1, <2>3, ApplyKeepsOrder
  <2>4. CASE Content' = EmptyContent
    BY <2>4 DEF EmptyContent, SameOrder
  <2> QED
    BY <1>1, <2>2, <2>3, <2>4, StepContent
<1>2. IInv /\ [Next]_vars =>
          [\A i, j \in DOMAIN Content.pending, k, l \in DOMAIN Content'.pending :
               /\ i < j
               /\ Content'.pending[k].id = Content.pending[i].id
               /\ Content'.pending[l].id = Content.pending[j].id
               => k < l]_vars
  BY <1>1 DEF SameOrder
<1> QED
  BY <1>2, AlwaysSound, PTL DEF Spec, OrderKept

-----------------------------------------------------------------------------
(***************************************************************************)
(* The abstract queue.  A content seen as QueuePromise sees it.            *)
(***************************************************************************)

WaitingIn(list) == [m \in Ids(list) |-> list[Position(list, m)].attempts]

BuriedIn(list) == {[id |-> list[i].id, age |-> Len(list) - i] : i \in DOMAIN list}

AnsweredIn(list) == {[id |-> list[i], age |-> Len(list) - i] : i \in DOMAIN list}

\* What an id is mapped to is the counter of its entry.
LEMMA WaitingAt ==
    ASSUME NEW list, Distinct(list), NEW i \in DOMAIN list
    PROVE  list[i].id \in Ids(list) /\ WaitingIn(list)[list[i].id] = list[i].attempts
<1> DEFINE m == list[i].id
<1>1. m \in Ids(list)
  BY DEF Ids
<1>2. Position(list, m) = i
  BY <1>1, PositionOf DEF Distinct
<1> QED
  BY <1>1, <1>2 DEF WaitingIn

\* A function on the ids of a list that gives each entry's counter is what the
\* list is seen as.
LEMMA WaitingIs ==
    ASSUME NEW list, NEW w, Distinct(list), w = [m \in Ids(list) |-> w[m]],
           \A i \in DOMAIN list : w[list[i].id] = list[i].attempts
    PROVE  WaitingIn(list) = w
<1>1. \A m \in Ids(list) : list[Position(list, m)].attempts = w[m]
  BY PositionOf
<1> QED
  BY <1>1 DEF WaitingIn

LEMMA WaitingWithout ==
    ASSUME NEW ids, NEW list \in Seq(Entry(ids)), Distinct(list), NEW m \in Ids(list)
    PROVE  WaitingIn(Without(list, m)) = Restrict(WaitingIn(list), Ids(list) \ {m})
<1> DEFINE w == Without(list, m)
           f == Restrict(WaitingIn(list), Ids(list) \ {m})
           p == Position(list, m)
<1>1. /\ Distinct(w) /\ Ids(w) = Ids(list) \ {m}
  BY WithoutProperties, WithoutEntries
<1>2. f = [n \in Ids(w) |-> WaitingIn(list)[n]]
  BY <1>1 DEF Restrict
<1>3. /\ p \in 1 .. Len(list) /\ Len(w) = Len(list) - 1 /\ w \in Seq(Entry(ids))
      /\ \A i \in 1 .. Len(w) : w[i] = IF i < p THEN list[i] ELSE list[i + 1]
  BY WithoutPlaces
<1> HIDE DEF w, f, p
<1>4. ASSUME NEW i \in DOMAIN w PROVE f[w[i].id] = w[i].attempts
  <2>1. PICK j \in DOMAIN list : w[i] = list[j]
    BY <1>3
  <2>2. WaitingIn(list)[w[i].id] = w[i].attempts
    BY <2>1, WaitingAt
  <2>3. w[i].id \in Ids(w)
    BY DEF Ids
  <2> QED
    BY <2>2, <2>3, <1>2
<1>5. f = [n \in Ids(w) |-> f[n]]
  BY <1>2
<1> QED
  BY <1>1, <1>4, <1>5, WaitingIs DEF w, f

\* What a list is seen as after m joined.
WaitingWith(list, m) ==
    [x \in Ids(list) \cup {m} |-> IF x = m THEN 0 ELSE WaitingIn(list)[x]]

LEMMA WaitingAppend ==
    ASSUME NEW list, NEW n \in Nat, DOMAIN list = 1 .. n, Distinct(list),
           NEW m, m \notin Ids(list),
           NEW longer, DOMAIN longer = 1 .. (n + 1),
           \A i \in 1 .. n : longer[i] = list[i],
           longer[n + 1].id = m, longer[n + 1].attempts = 0
    PROVE  WaitingIn(longer) = WaitingWith(list, m)
<1> DEFINE f == [x \in Ids(list) \cup {m} |-> IF x = m THEN 0 ELSE WaitingIn(list)[x]]
<1>1. longer[n + 1].id = m /\ longer[n + 1].attempts = 0
  OBVIOUS
<1>2. \A i \in DOMAIN list : list[i].id # m
  BY DEF Ids
<1>3. \A i \in DOMAIN longer : i \in DOMAIN list \/ i = n + 1
  OBVIOUS
<1>4. Ids(longer) = Ids(list) \cup {m}
  BY <1>1, <1>3 DEF Ids
<1>5. Distinct(longer)
  BY <1>1, <1>2, <1>3 DEF Distinct
<1>6. ASSUME NEW i \in DOMAIN longer PROVE f[longer[i].id] = longer[i].attempts
  <2>1. CASE i \in DOMAIN list
    <3>1. longer[i] = list[i] /\ list[i].id \in Ids(list) /\ list[i].id # m
      BY <2>1, <1>2 DEF Ids
    <3>2. WaitingIn(list)[list[i].id] = list[i].attempts
      BY <2>1, WaitingAt
    <3> QED
      BY <3>1, <3>2
  <2>2. CASE i = n + 1
    BY <2>2, <1>1
  <2> QED
    BY <2>1, <2>2, <1>3
<1>7. f = [x \in Ids(longer) |-> f[x]]
  BY <1>4
<1> HIDE DEF f
<1>8. WaitingIn(longer) = f
  BY <1>5, <1>6, <1>7, WaitingIs
<1> QED
  BY <1>8 DEF f, WaitingWith

LEMMA WaitingCounted ==
    ASSUME NEW list, Distinct(list), NEW p \in DOMAIN list,
           NEW e, e.id = list[p].id,
           NEW next, DOMAIN next = DOMAIN list,
           \A i \in DOMAIN list : next[i] = IF i = p THEN e ELSE list[i]
    PROVE  WaitingIn(next) = [WaitingIn(list) EXCEPT ![e.id] = e.attempts]
<1> DEFINE f == [WaitingIn(list) EXCEPT ![e.id] = e.attempts]
<1>1. /\ DOMAIN next = DOMAIN list
      /\ \A i \in DOMAIN list : next[i] = IF i = p THEN e ELSE list[i]
  OBVIOUS
<1>2. \A i \in DOMAIN list : next[i].id = list[i].id
  BY <1>1
<1>3. Distinct(next) /\ Ids(next) = Ids(list)
  BY <1>1, <1>2 DEF Distinct, Ids
<1>4. DOMAIN WaitingIn(list) = Ids(list)
  BY DEF WaitingIn
<1>5. f = [n \in Ids(next) |-> f[n]]
  BY <1>3, <1>4
<1>6. ASSUME NEW i \in DOMAIN next PROVE f[next[i].id] = next[i].attempts
  <2>1. list[i].id \in Ids(list) /\ WaitingIn(list)[list[i].id] = list[i].attempts
    BY <1>1, WaitingAt
  <2>2. CASE i = p
    BY <2>1, <2>2, <1>1, <1>4
  <2>3. CASE i # p
    <3>1. list[i].id # e.id
      BY <2>3, <1>1 DEF Distinct
    <3> QED
      BY <2>1, <2>3, <3>1, <1>1, <1>4
  <2> QED
    BY <2>2, <2>3
<1> HIDE DEF f
<1>7. WaitingIn(next) = f
  BY <1>3, <1>5, <1>6, WaitingIs
<1> QED
  BY <1>7 DEF f

-----------------------------------------------------------------------------
(***************************************************************************)
(* Records and their ages.                                                 *)
(***************************************************************************)

\* The records of a list of ids, its first n entries counted.
Aged(a, n) == {[id |-> a[i], age |-> n - i] : i \in 1 .. n}

\* Appending an id and keeping the last `cap` is recording it: the others age by
\* one, and those that reach `cap` are forgotten.
LEMMA AgedRecord ==
    ASSUME NEW a, NEW n \in Nat, NEW m, NEW cap \in Nat \ {0}, NEW b, NEW k \in Nat,
           k = IF n + 1 > cap THEN cap ELSE n + 1,
           b[k] = m, \A i \in 1 .. (k - 1) : b[i] = a[i + (n + 1 - k)]
    PROVE  Aged(b, k) = Promise!Record(Aged(a, n), m, cap)
<1> DEFINE old == {s \in Aged(a, n) : s.age + 1 < cap}
           older == {[r EXCEPT !.age = @ + 1] : r \in old}
<1>1. \A i \in 1 .. n : /\ [id |-> a[i], age |-> n - i].age = n - i
                        /\ [[id |-> a[i], age |-> n - i] EXCEPT !.age = @ + 1] =
                               [id |-> a[i], age |-> n - i + 1]
  OBVIOUS
<1>2. ASSUME NEW j \in 1 .. n, n - j + 1 < cap
      PROVE  [id |-> a[j], age |-> n - j + 1] \in older
  <2> DEFINE s == [id |-> a[j], age |-> n - j]
  <2>1. s \in Aged(a, n) /\ s.age + 1 < cap
    BY <1>2 DEF Aged
  <2>2. [s EXCEPT !.age = @ + 1] = [id |-> a[j], age |-> n - j + 1]
    BY <1>1
  <2> HIDE DEF s
  <2> QED
    BY <2>1, <2>2
<1>3. ASSUME NEW r \in older
      PROVE  \E j \in 1 .. n : n - j + 1 < cap /\ r = [id |-> a[j], age |-> n - j + 1]
  <2>1. PICK s \in Aged(a, n) : s.age + 1 < cap /\ r = [s EXCEPT !.age = @ + 1]
    OBVIOUS
  <2>2. PICK j \in 1 .. n : s = [id |-> a[j], age |-> n - j]
    BY DEF Aged
  <2>3. s.age = n - j /\ [s EXCEPT !.age = @ + 1] = [id |-> a[j], age |-> n - j + 1]
    BY <2>2, <1>1
  <2>4. n - j + 1 < cap
    BY <2>1, <2>3
  <2> QED
    BY <2>1, <2>3, <2>4
<1>4. ASSUME NEW r \in Aged(b, k) PROVE r \in {[id |-> m, age |-> 0]} \cup older
  <2>1. PICK i \in 1 .. k : r = [id |-> b[i], age |-> k - i]
    BY DEF Aged
  <2>2. CASE i = k
    BY <2>1, <2>2
  <2>3. CASE i # k
    <3> DEFINE j == i + (n + 1 - k)
    <3>1. j \in 1 .. n /\ n - j + 1 < cap /\ k - i = n - j + 1
      BY <2>1, <2>3
    <3>2. b[i] = a[j]
      BY <2>1, <2>3
    <3> HIDE DEF j
    <3>3. r = [id |-> a[j], age |-> n - j + 1]
      BY <2>1, <3>1, <3>2
    <3> HIDE DEF older
    <3> QED
      BY <3>1, <3>3, <1>2
  <2> QED
    BY <2>2, <2>3
<1>5. [id |-> m, age |-> 0] \in Aged(b, k)
  <2>1. k \in 1 .. k /\ b[k] = m /\ k - k = 0
    OBVIOUS
  <2> QED
    BY <2>1 DEF Aged
<1>6. ASSUME NEW r \in older PROVE r \in Aged(b, k)
  <2>1. PICK j \in 1 .. n : n - j + 1 < cap /\ r = [id |-> a[j], age |-> n - j + 1]
    <3> HIDE DEF older
    <3> QED
      BY <1>3
  <2> DEFINE i == j - (n + 1 - k)
  <2>2. i \in 1 .. k /\ i # k /\ k - i = n - j + 1 /\ i + (n + 1 - k) = j
    BY <2>1
  <2>3. b[i] = a[j]
    <3> HIDE DEF i
    <3> QED
      BY <2>2
  <2> HIDE DEF i
  <2>4. r = [id |-> b[i], age |-> k - i]
    BY <2>1, <2>2, <2>3
  <2> QED
    BY <2>2, <2>4 DEF Aged
<1>7. Promise!Record(Aged(a, n), m, cap) = {[id |-> m, age |-> 0]} \cup older
  BY DEF Promise!Record
<1> HIDE DEF older
<1> QED
  BY <1>4, <1>5, <1>6, <1>7

\* How long a truncated list is.
LEMMA LastNLength ==
    ASSUME NEW S, NEW s \in Seq(S), NEW n \in Nat
    PROVE  Len(LastN(s, n)) = IF Len(s) > n THEN n ELSE Len(s)
<1>1. CASE Len(s) > n
  <2>1. LastN(s, n) = SubSeq(s, Len(s) - n + 1, Len(s))
    BY <1>1 DEF LastN
  <2>2. Len(s) - n + 1 \in 1 .. Len(s) + 1 /\ Len(s) \in 0 .. Len(s)
    BY <1>1
  <2> QED
    BY <2>1, <2>2, <1>1, SubSeqProperties
<1>2. CASE ~(Len(s) > n)
  BY <1>2 DEF LastN
<1> QED
  BY <1>1, <1>2

\* What stands where when x is appended and the last `cap` are kept.
LEMMA AppendLastN ==
    ASSUME NEW S, NEW s \in Seq(S), NEW x \in S, NEW cap \in Nat \ {0},
           NEW longer \in Seq(S), Len(longer) = Len(s) + 1, longer[Len(longer)] = x,
           \A i \in 1 .. Len(s) : longer[i] = s[i]
    PROVE  LET t == LastN(longer, cap)
           IN  /\ t \in Seq(S)
               /\ Len(t) = IF Len(s) + 1 > cap THEN cap ELSE Len(s) + 1
               /\ t[Len(t)] = x
               /\ \A i \in 1 .. Len(t) - 1 : t[i] = s[i + (Len(s) + 1 - Len(t))]
<1> DEFINE n == Len(s)
           t == LastN(longer, cap)
           k == Len(t)
<1>1. /\ n \in Nat /\ longer \in Seq(S) /\ Len(longer) = n + 1
      /\ \A i \in 1 .. n + 1 : longer[i] = IF i = n + 1 THEN x ELSE s[i]
  OBVIOUS
<1>2. /\ t \in Seq(S) /\ k <= Len(longer)
      /\ \A i \in 1 .. k : t[i] = longer[i + (Len(longer) - k)]
  BY <1>1, LastNProperties
<1>3. k = IF n + 1 > cap THEN cap ELSE n + 1
  <2>1. k = IF Len(longer) > cap THEN cap ELSE Len(longer)
    BY ONLY <1>1, cap \in Nat \ {0}, LastNLength
  <2> HIDE DEF n, k
  <2> QED
    BY ONLY <2>1, <1>1
<1> HIDE DEF n, t, k
<1>4. k \in Nat /\ k >= 1 /\ k <= n + 1
  BY <1>1, <1>3
<1>5. \A i \in 1 .. k : t[i] = longer[i + (n + 1 - k)]
  BY ONLY <1>1, <1>2, <1>4
<1>6. t[k] = x
  <2>1. k + (n + 1 - k) = n + 1 /\ k \in 1 .. k /\ n + 1 \in 1 .. n + 1
    BY ONLY <1>1, <1>4
  <2>2. t[k] = longer[n + 1]
    BY ONLY <1>5, <2>1
  <2> QED
    BY ONLY <2>1, <2>2, <1>1
<1>7. ASSUME NEW i \in 1 .. (k - 1) PROVE t[i] = s[i + (n + 1 - k)]
  <2>1. i \in 1 .. k /\ i + (n + 1 - k) \in 1 .. n + 1 /\ i + (n + 1 - k) # n + 1
    BY ONLY i \in 1 .. (k - 1), <1>1, <1>4
  <2> QED
    BY ONLY <2>1, <1>5, <1>1
<1> QED
  BY ONLY <1>2, <1>3, <1>6, <1>7 DEF t, n, k

LEMMA BuriedRecord ==
    ASSUME NEW ids, NEW list \in Seq(Entry(ids)), NEW e \in Entry(ids), NEW cap \in Nat \ {0}
    PROVE  BuriedIn(LastN(Append(list, e), cap)) = Promise!Record(BuriedIn(list), e.id, cap)
<1> DEFINE n == Len(list)
           k == IF n + 1 > cap THEN cap ELSE n + 1
           longer == Append(list, e)
           t == LastN(longer, cap)
           a == [i \in 1 .. n |-> list[i].id]
           b == [i \in 1 .. k |-> t[i].id]
<1>1. /\ n \in Nat /\ k \in Nat /\ DOMAIN list = 1 .. n
      /\ t \in Seq(Entry(ids)) /\ Len(t) = k /\ DOMAIN t = 1 .. k
      /\ t[k] = e /\ \A i \in 1 .. (k - 1) : t[i] = list[i + (n + 1 - k)]
  <2>1. /\ t \in Seq(Entry(ids)) /\ Len(t) = k
        /\ t[Len(t)] = e /\ \A i \in 1 .. Len(t) - 1 : t[i] = list[i + (n + 1 - Len(t))]
    <3>1. /\ longer \in Seq(Entry(ids)) /\ Len(longer) = Len(list) + 1 /\ longer[Len(longer)] = e
          /\ \A i \in 1 .. Len(list) : longer[i] = list[i]
      OBVIOUS
    <3> HIDE DEF longer
    <3> QED
      BY <3>1, AppendLastN
  <2>2. n \in Nat /\ k \in Nat /\ DOMAIN list = 1 .. n
    OBVIOUS
  <2> HIDE DEF t, n
  <2> QED
    BY <2>1, <2>2
<1> HIDE DEF n, t, longer
<1>2. b[k] = e.id /\ \A i \in 1 .. (k - 1) : b[i] = a[i + (n + 1 - k)]
  <2>1. b[k] = e.id
    BY <1>1
  <2>2. ASSUME NEW i \in 1 .. (k - 1) PROVE b[i] = a[i + (n + 1 - k)]
    <3>1. i + (n + 1 - k) \in 1 .. n
      BY <1>1
    <3> QED
      BY <3>1, <1>1
  <2> QED
    BY <2>1, <2>2
<1>3. Aged(b, k) = Promise!Record(Aged(a, n), e.id, cap)
  <2> HIDE DEF a, b
  <2> QED
    BY <1>1, <1>2, AgedRecord
<1>4. BuriedIn(list) = Aged(a, n)
  BY <1>1 DEF BuriedIn, Aged, n
<1>5. BuriedIn(t) = Aged(b, k)
  BY <1>1 DEF BuriedIn, Aged
<1> QED
  BY <1>3, <1>4, <1>5 DEF t, longer

LEMMA AnsweredRecord ==
    ASSUME NEW ids, NEW list \in Seq(ids), NEW m \in ids, NEW cap \in Nat \ {0}
    PROVE  AnsweredIn(LastN(Append(list, m), cap)) = Promise!Record(AnsweredIn(list), m, cap)
<1> DEFINE n == Len(list)
           k == IF n + 1 > cap THEN cap ELSE n + 1
           longer == Append(list, m)
           t == LastN(longer, cap)
<1>1. /\ n \in Nat /\ k \in Nat /\ DOMAIN list = 1 .. n
      /\ Len(t) = k /\ DOMAIN t = 1 .. k
      /\ t[k] = m /\ \A i \in 1 .. (k - 1) : t[i] = list[i + (n + 1 - k)]
  <2>1. /\ t \in Seq(ids) /\ Len(t) = k
        /\ t[Len(t)] = m /\ \A i \in 1 .. Len(t) - 1 : t[i] = list[i + (n + 1 - Len(t))]
    <3>1. /\ longer \in Seq(ids) /\ Len(longer) = Len(list) + 1 /\ longer[Len(longer)] = m
          /\ \A i \in 1 .. Len(list) : longer[i] = list[i]
      OBVIOUS
    <3> HIDE DEF longer
    <3> QED
      BY <3>1, AppendLastN
  <2>2. n \in Nat /\ k \in Nat /\ DOMAIN list = 1 .. n
    OBVIOUS
  <2> HIDE DEF t, n
  <2> QED
    BY <2>1, <2>2
<1> HIDE DEF n, t, longer
<1>2. Aged(t, k) = Promise!Record(Aged(list, n), m, cap)
  BY <1>1, AgedRecord
<1>3. AnsweredIn(list) = Aged(list, n)
  BY <1>1 DEF AnsweredIn, Aged, n
<1>4. AnsweredIn(t) = Aged(t, k)
  BY <1>1 DEF AnsweredIn, Aged
<1> QED
  BY <1>2, <1>3, <1>4 DEF t, longer

-----------------------------------------------------------------------------
(***************************************************************************)
(* Each method is one step of QueuePromise, or none.                       *)
(***************************************************************************)

\* The promise's actions, of a content f before and g after.
SeenAccept(f, g, m) ==
    /\ m \notin Ids(f.pending)
    /\ WaitingIn(g.pending) = [n \in Ids(f.pending) \cup {m} |->
                                  IF n = m THEN 0 ELSE WaitingIn(f.pending)[n]]
    /\ g.deadLetter = f.deadLetter /\ g.replied = f.replied

SeenSettle(f, g, m) ==
    /\ m \in Ids(f.pending)
    /\ WaitingIn(g.pending) = Restrict(WaitingIn(f.pending), Ids(f.pending) \ {m})
    /\ g.deadLetter = f.deadLetter /\ g.replied = f.replied

SeenCountFailure(f, g, m) ==
    /\ m \in Ids(f.pending)
    /\ WaitingIn(f.pending)[m] + 1 < MaxAttempts
    /\ WaitingIn(g.pending) = [WaitingIn(f.pending) EXCEPT ![m] = @ + 1]
    /\ g.deadLetter = f.deadLetter /\ g.replied = f.replied

SeenBury(f, g, m) ==
    /\ m \in Ids(f.pending)
    /\ WaitingIn(f.pending)[m] + 1 = MaxAttempts
    /\ WaitingIn(g.pending) = Restrict(WaitingIn(f.pending), Ids(f.pending) \ {m})
    /\ BuriedIn(g.deadLetter) = Promise!Record(BuriedIn(f.deadLetter), m, DeadLetterCap)
    /\ g.replied = f.replied

SeenAnswer(f, g, m) ==
    /\ \A r \in AnsweredIn(f.replied) : r.id # m
    /\ AnsweredIn(g.replied) = Promise!Record(AnsweredIn(f.replied), m, RepliedCap)
    /\ g.pending = f.pending /\ g.deadLetter = f.deadLetter

LEMMA EnqueueSeen ==
    ASSUME NEW f \in QueueContent(Msgs), Distinct(f.pending), NEW m \in Msgs
    PROVE  Enqueue(f, m) = f \/ SeenAccept(f, Enqueue(f, m), m)
<1>1. CASE m \in Ids(f.pending)
  BY <1>1 DEF Enqueue
<1>2. CASE m \notin Ids(f.pending)
  <2>1. f.pending \in Seq(Entry(Msgs))
    BY DEF QueueContent
  <2>2. /\ Enqueue(f, m).pending = Append(f.pending, [id |-> m, attempts |-> 0])
        /\ Enqueue(f, m).deadLetter = f.deadLetter
        /\ Enqueue(f, m).replied = f.replied
    BY <1>2 DEF Enqueue, QueueContent
  <2>3. WaitingIn(Enqueue(f, m).pending) =
            [n \in Ids(f.pending) \cup {m} |-> IF n = m THEN 0 ELSE WaitingIn(f.pending)[n]]
    <3> DEFINE list == f.pending
               longer == Enqueue(f, m).pending
               n == Len(list)
    <3>1. /\ n \in Nat /\ DOMAIN list = 1 .. n /\ DOMAIN longer = 1 .. (n + 1)
          /\ \A i \in 1 .. n : longer[i] = list[i]
          /\ longer[n + 1].id = m /\ longer[n + 1].attempts = 0
      BY <2>1, <2>2
    <3>2. Distinct(list) /\ m \notin Ids(list)
      BY <1>2
    <3> HIDE DEF list, longer, n
    <3>3. WaitingIn(longer) = WaitingWith(list, m)
      BY ONLY <3>1, <3>2, WaitingAppend
    <3> QED
      BY <3>3 DEF list, longer, WaitingWith
  <2> QED
    BY <1>2, <2>2, <2>3 DEF SeenAccept
<1> QED
  BY <1>1, <1>2

LEMMA DequeueSeen ==
    ASSUME NEW f \in QueueContent(Msgs), Distinct(f.pending), NEW m \in Msgs
    PROVE  Dequeue(f, m) = f \/ SeenSettle(f, Dequeue(f, m), m)
<1>1. CASE m \notin Ids(f.pending)
  <2>1. Without(f.pending, m) = f.pending
    BY <1>1 DEF Without
  <2> QED
    BY <2>1 DEF Dequeue, QueueContent
<1>2. CASE m \in Ids(f.pending)
  <2>1. f.pending \in Seq(Entry(Msgs))
    BY DEF QueueContent
  <2>2. /\ Dequeue(f, m).pending = Without(f.pending, m)
        /\ Dequeue(f, m).deadLetter = f.deadLetter
        /\ Dequeue(f, m).replied = f.replied
    BY DEF Dequeue, QueueContent
  <2>3. WaitingIn(Without(f.pending, m)) = Restrict(WaitingIn(f.pending), Ids(f.pending) \ {m})
    BY <1>2, <2>1, WaitingWithout
  <2> QED
    BY <1>2, <2>2, <2>3 DEF SeenSettle
<1> QED
  BY <1>1, <1>2

LEMMA MarkAttemptSeen ==
    ASSUME NEW f \in QueueContent(Msgs), Sound(f), NEW m \in Msgs
    PROVE  \/ MarkAttempt(f, m) = f
           \/ SeenCountFailure(f, MarkAttempt(f, m), m)
           \/ SeenBury(f, MarkAttempt(f, m), m)
<1>1. CASE m \notin Ids(f.pending)
  BY <1>1 DEF MarkAttempt
<1>2. CASE m \in Ids(f.pending)
  <2> DEFINE p == Position(f.pending, m)
             e == Tried(f, m)
             g == MarkAttempt(f, m)
             w == WaitingIn(f.pending)
  <2>1. /\ p \in 1 .. Len(f.pending) /\ f.pending[p].id = m
        /\ f.pending[p].attempts \in Nat
        /\ e \in Entry(Msgs) /\ e.id = m /\ e.attempts = f.pending[p].attempts + 1
        /\ g.replied = f.replied
        /\ e.attempts >= MaxAttempts =>
               /\ g.pending = Without(f.pending, m)
               /\ g.deadLetter = LastN(Append(f.deadLetter, e), DeadLetterCap)
        /\ ~(e.attempts >= MaxAttempts) =>
               /\ g.pending = [f.pending EXCEPT ![p] = e]
               /\ g.deadLetter = f.deadLetter
    BY <1>2, MarkAttemptFields
  <2>2. /\ f.pending \in Seq(Entry(Msgs)) /\ f.deadLetter \in Seq(Entry(Msgs))
        /\ Distinct(f.pending) /\ f.pending[p].attempts < MaxAttempts
        /\ DOMAIN f.pending = 1 .. Len(f.pending) /\ MaxAttempts \in Nat
    BY <2>1, QueueAssumption DEF QueueContent, Sound
  <2> HIDE DEF p, e, g
  <2>3. w[m] = f.pending[p].attempts
    BY <2>1, <2>2, WaitingAt
  <2> HIDE DEF w
  <2>4. CASE e.attempts >= MaxAttempts
    <3>1. w[m] + 1 = MaxAttempts
      <4> DEFINE c == f.pending[p].attempts
                 d == e.attempts
      <4>1. c \in Nat /\ d = c + 1 /\ c < MaxAttempts /\ d >= MaxAttempts /\ w[m] = c
        BY <2>1, <2>2, <2>3, <2>4
      <4> HIDE DEF c, d
      <4> QED
        BY ONLY <4>1, <2>2
    <3>2. WaitingIn(g.pending) = Restrict(w, Ids(f.pending) \ {m})
      BY <1>2, <2>1, <2>2, <2>4, WaitingWithout DEF w
    <3>3. BuriedIn(g.deadLetter) = Promise!Record(BuriedIn(f.deadLetter), m, DeadLetterCap)
      <4>1. BuriedIn(LastN(Append(f.deadLetter, e), DeadLetterCap)) =
                Promise!Record(BuriedIn(f.deadLetter), e.id, DeadLetterCap)
        BY ONLY <2>1, <2>2, QueueAssumption, BuriedRecord DEF QueueAssumption
      <4> QED
        BY <4>1, <2>1, <2>4
    <3> QED
      BY <1>2, <2>1, <3>1, <3>2, <3>3 DEF SeenBury, g, w
  <2>5. CASE ~(e.attempts >= MaxAttempts)
    <3>1. w[m] + 1 < MaxAttempts
      BY <2>1, <2>2, <2>3, <2>5
    <3>2. WaitingIn(g.pending) = [w EXCEPT ![m] = w[m] + 1]
      <4> DEFINE list == f.pending
                 next == g.pending
      <4>1. /\ DOMAIN next = DOMAIN list /\ Distinct(list) /\ p \in DOMAIN list
            /\ \A i \in DOMAIN list : next[i] = IF i = p THEN e ELSE list[i]
            /\ e.id = list[p].id
        BY <2>1, <2>2, <2>5
      <4> HIDE DEF list, next
      <4>2. WaitingIn(next) = [WaitingIn(list) EXCEPT ![e.id] = e.attempts]
        BY ONLY <4>1, WaitingCounted
      <4>3. WaitingIn(g.pending) = [w EXCEPT ![e.id] = e.attempts]
        BY <4>2 DEF w, list, next
      <4> QED
        BY <4>3, <2>1, <2>3
    <3> QED
      BY <1>2, <2>1, <2>5, <3>1, <3>2 DEF SeenCountFailure, g, w
  <2> QED
    BY <2>4, <2>5 DEF g
<1> QED
  BY <1>1, <1>2

LEMMA MarkRepliedSeen ==
    ASSUME NEW f \in QueueContent(Msgs), NEW m \in Msgs
    PROVE  MarkReplied(f, m) = f \/ SeenAnswer(f, MarkReplied(f, m), m)
<1>1. CASE HasReplied(f, m)
  BY <1>1 DEF MarkReplied
<1>2. CASE ~HasReplied(f, m)
  <2> DEFINE g == MarkReplied(f, m)
  <2>1. f.replied \in Seq(Msgs)
    BY DEF QueueContent
  <2>2. /\ g.replied = LastN(Append(f.replied, m), RepliedCap)
        /\ g.pending = f.pending /\ g.deadLetter = f.deadLetter
    BY <1>2 DEF MarkReplied, QueueContent
  <2> HIDE DEF g
  <2>3. AnsweredIn(g.replied) = Promise!Record(AnsweredIn(f.replied), m, RepliedCap)
    <3>1. AnsweredIn(LastN(Append(f.replied, m), RepliedCap)) =
              Promise!Record(AnsweredIn(f.replied), m, RepliedCap)
      BY ONLY <2>1, m \in Msgs, QueueAssumption, AnsweredRecord DEF QueueAssumption
    <3> QED
      BY <3>1, <2>2
  <2>4. ASSUME NEW r \in AnsweredIn(f.replied) PROVE r.id # m
    <3>1. PICK i \in DOMAIN f.replied : r.id = f.replied[i]
      BY DEF AnsweredIn
    <3>2. f.replied[i] # m
      BY <1>2, <2>1 DEF HasReplied, ToSet
    <3> QED
      BY <3>1, <3>2
  <2> QED
    BY <2>2, <2>3, <2>4 DEF SeenAnswer, g
<1> QED
  BY <1>1, <1>2

\* The variables of the promise as they are seen in the content.
LEMMA PromiseVariables ==
    /\ Promise!promise = <<WaitingIn(Content.pending), BuriedIn(Content.deadLetter),
                           AnsweredIn(Content.replied), damages>>
    /\ Promise!promise' = <<WaitingIn(Content'.pending), BuriedIn(Content'.deadLetter),
                            AnsweredIn(Content'.replied), damages'>>
BY DEF Promise!promise, WaitingIn, BuriedIn, AnsweredIn

LEMMA SeenSteps ==
    ASSUME NEW m \in Msgs, damages' = damages
    PROVE  /\ SeenAccept(Content, Content', m) => Promise!Accept(m)
           /\ SeenSettle(Content, Content', m) => Promise!Settle(m)
           /\ SeenCountFailure(Content, Content', m) => Promise!CountFailure(m)
           /\ SeenBury(Content, Content', m) => Promise!Bury(m)
           /\ SeenAnswer(Content, Content', m) => Promise!Answer(m)
<1>1. DOMAIN WaitingIn(Content.pending) = Ids(Content.pending)
  BY DEF WaitingIn
<1>2. SeenAccept(Content, Content', m) => Promise!Accept(m)
  BY <1>1 DEF SeenAccept, Promise!Accept, WaitingIn, BuriedIn, AnsweredIn
<1>3. SeenSettle(Content, Content', m) => Promise!Settle(m)
  <2> SUFFICES ASSUME SeenSettle(Content, Content', m)
               PROVE  Promise!Settle(m)
    OBVIOUS
  <2>1. /\ m \in DOMAIN WaitingIn(Content.pending)
        /\ WaitingIn(Content'.pending) =
               Restrict(WaitingIn(Content.pending), DOMAIN WaitingIn(Content.pending) \ {m})
        /\ Content'.deadLetter = Content.deadLetter /\ Content'.replied = Content.replied
    BY <1>1 DEF SeenSettle
  <2> QED
    BY <2>1 DEF Promise!Settle, Promise!Restrict, Restrict, WaitingIn, BuriedIn, AnsweredIn
<1>4. SeenCountFailure(Content, Content', m) => Promise!CountFailure(m)
  BY <1>1 DEF SeenCountFailure, Promise!CountFailure, WaitingIn, BuriedIn, AnsweredIn
<1>5. SeenBury(Content, Content', m) => Promise!Bury(m)
  <2> SUFFICES ASSUME SeenBury(Content, Content', m)
               PROVE  Promise!Bury(m)
    OBVIOUS
  <2>1. /\ m \in DOMAIN WaitingIn(Content.pending)
        /\ WaitingIn(Content.pending)[m] + 1 = MaxAttempts
        /\ WaitingIn(Content'.pending) =
               Restrict(WaitingIn(Content.pending), DOMAIN WaitingIn(Content.pending) \ {m})
        /\ BuriedIn(Content'.deadLetter) =
               Promise!Record(BuriedIn(Content.deadLetter), m, DeadLetterCap)
        /\ Content'.replied = Content.replied
    BY <1>1 DEF SeenBury
  <2> QED
    BY <2>1 DEF Promise!Bury, Promise!Restrict, Restrict, WaitingIn, BuriedIn, AnsweredIn
<1>6. SeenAnswer(Content, Content', m) => Promise!Answer(m)
  BY <1>1 DEF SeenAnswer, Promise!Answer, WaitingIn, BuriedIn, AnsweredIn
<1> QED
  BY <1>2, <1>3, <1>4, <1>5, <1>6

LEMMA PromiseInit == ASSUME Init PROVE Promise!Init
<1>1. Content = EmptyContent
  BY DEF Init, Content
<1>2. WaitingIn(<<>>) = <<>> /\ BuriedIn(<<>>) = {} /\ AnsweredIn(<<>>) = {}
  BY DEF WaitingIn, BuriedIn, AnsweredIn, Ids
<1> QED
  BY <1>1, <1>2 DEF Init, Promise!Init, EmptyContent, WaitingIn, BuriedIn, AnsweredIn

LEMMA PromiseStep == ASSUME IInv, [Next]_vars PROVE [Promise!Next]_(Promise!promise)
<1>1. Content \in QueueContent(Msgs) /\ Sound(Content) /\ Distinct(Content.pending)
  BY ContentType DEF IInv, Sound
<1>2. CASE Content' = Content /\ damages' = damages
  BY <1>2, PromiseVariables
<1>3. CASE /\ damages' = damages
           /\ call.op \in Ops /\ call.id \in Msgs
           /\ Content' = Apply(Content, call.op, call.id)
  <2>0. PICK m \in Msgs : m = call.id
    BY <1>3
  <2>1. \/ Content' = Content
        \/ SeenAccept(Content, Content', m)
        \/ SeenSettle(Content, Content', m)
        \/ SeenCountFailure(Content, Content', m)
        \/ SeenBury(Content, Content', m)
        \/ SeenAnswer(Content, Content', m)
    <3>1. CASE call.op = "enqueue"
      BY <1>1, <1>3, <2>0, <3>1, EnqueueSeen DEF Apply
    <3>2. CASE call.op = "dequeue"
      BY <1>1, <1>3, <2>0, <3>2, DequeueSeen DEF Apply
    <3>3. CASE call.op = "mark_attempt"
      BY <1>1, <1>3, <2>0, <3>3, MarkAttemptSeen DEF Apply
    <3>4. CASE call.op = "mark_replied"
      BY <1>1, <1>3, <2>0, <3>4, MarkRepliedSeen DEF Apply
    <3>5. CASE call.op = "read"
      BY <1>3, <3>5 DEF Apply
    <3> QED
      BY <1>3, <3>1, <3>2, <3>3, <3>4, <3>5 DEF Ops
  <2>2. \/ Content' = Content
        \/ \/ Promise!Accept(m) \/ Promise!Settle(m) \/ Promise!CountFailure(m)
           \/ Promise!Bury(m) \/ Promise!Answer(m)
    BY <1>3, <2>1, SeenSteps
  <2>3. CASE Content' = Content
    BY <1>2, <1>3, <2>3
  <2>4. CASE ~(Content' = Content)
    BY <2>2, <2>4 DEF Promise!Next
  <2> QED
    BY <2>3, <2>4
<1>4. CASE Damage /\ Content' = EmptyContent
  <2>1. WaitingIn(<<>>) = <<>> /\ BuriedIn(<<>>) = {} /\ AnsweredIn(<<>>) = {}
    BY DEF WaitingIn, BuriedIn, AnsweredIn, Ids
  <2>2. damages' = damages + 1
    BY <1>4 DEF Damage
  <2>3. Promise!Forget
    BY <1>4, <2>1, <2>2 DEF Promise!Forget, EmptyContent, WaitingIn, BuriedIn, AnsweredIn
  <2> QED
    BY <2>3 DEF Promise!Next
<1> QED
  BY <1>2, <1>3, <1>4, StepContent

\* The file, with its reads, temporary files, renames, crashes and failures, keeps
\* the promise of QueuePromise: each call is one abstract step or none, and
\* records last exactly as long as the caps say.
THEOREM ImplementsPromise == Spec => PromiseKept
<1>1. Init => Promise!Init
  BY PromiseInit
<1>2. IInv /\ [Next]_vars => [Promise!Next]_(Promise!promise)
  BY PromiseStep
<1> QED
  BY <1>1, <1>2, AlwaysSound, PTL DEF Spec, PromiseKept, Promise!Spec
=============================================================================
