-------------------------- MODULE QueueFileProofs --------------------------
(***************************************************************************)
(* What the methods of the queue file do to its entries, for every content *)
(* and every value of the caps: the lemmas under the proofs about the file *)
(* and about the receive loop.                                             *)
(***************************************************************************)
EXTENDS QueueFile, SequenceTheorems, TLAPS

\* The id of an entry is at its position.
LEMMA PositionOf ==
    ASSUME NEW list, NEW m \in Ids(list)
    PROVE  Position(list, m) \in DOMAIN list /\ list[Position(list, m)].id = m
BY DEF Ids, Position

LEMMA PendingIds ==
    ASSUME NEW ids, NEW f \in QueueContent(ids)
    PROVE  Ids(f.pending) \subseteq ids
<1> SUFFICES ASSUME NEW x \in Ids(f.pending) PROVE x \in ids
  OBVIOUS
<1>1. f.pending \in Seq(Entry(ids))
  BY DEF QueueContent
<1>2. PICK i \in 1 .. Len(f.pending) : f.pending[i].id = x
  BY <1>1 DEF Ids
<1> DEFINE e == f.pending[i]
<1>3. e \in Entry(ids)
  BY <1>1
<1> HIDE DEF e
<1>4. e.id \in ids
  BY <1>3 DEF Entry
<1> QED
  BY <1>2, <1>4 DEF e

\* Truncation keeps the elements it keeps, in a sequence of the same type.
LEMMA LastNProperties ==
    ASSUME NEW S, NEW s \in Seq(S), NEW n \in Nat
    PROVE  /\ LastN(s, n) \in Seq(S)
           /\ Len(LastN(s, n)) <= Len(s)
           /\ \A i \in 1 .. Len(LastN(s, n)) :
                  LastN(s, n)[i] = s[i + (Len(s) - Len(LastN(s, n)))]
<1>1. CASE Len(s) > n
  <2>1. Len(s) - n + 1 \in 1 .. Len(s) + 1
    BY <1>1
  <2> QED
    BY <1>1, <2>1, SubSeqProperties DEF LastN
<1>2. CASE ~(Len(s) > n)
  BY <1>2 DEF LastN
<1> QED
  BY <1>1, <1>2

\* No id is at two places of a list.
Distinct(list) == \A i, j \in DOMAIN list : list[i].id = list[j].id => i = j

\* No entry of a list has more than k attempts.
AtMost(list, k) == \A i \in DOMAIN list : list[i].attempts <= k

\* Where the entries are after the one of m is taken out.
LEMMA WithoutPlaces ==
    ASSUME NEW ids, NEW list \in Seq(Entry(ids)), NEW m \in Ids(list)
    PROVE  LET p == Position(list, m)
               w == Without(list, m)
           IN  /\ p \in 1 .. Len(list) /\ list[p].id = m
               /\ w \in Seq(Entry(ids)) /\ Len(w) = Len(list) - 1
               /\ \A i \in 1 .. Len(w) : w[i] = IF i < p THEN list[i] ELSE list[i + 1]
<1> DEFINE p == Position(list, m)
           w == RemoveAt(list, p)
           front == SubSeq(list, 1, p - 1)
           back == SubSeq(list, p + 1, Len(list))
<1>1. p \in 1 .. Len(list) /\ list[p].id = m
  BY PositionOf
<1>2. w \in Seq(Entry(ids)) /\ Len(w) = Len(list) - 1
  BY <1>1 DEF RemoveAt
<1>3. /\ front \in Seq(Entry(ids)) /\ Len(front) = p - 1
      /\ \A i \in 1 .. p - 1 : front[i] = list[i]
  BY <1>1
<1>4. /\ back \in Seq(Entry(ids)) /\ Len(back) = Len(list) - p
      /\ \A i \in 1 .. Len(list) - p : back[i] = list[i + p]
  BY <1>1
<1>5. w = front \o back
  BY DEF RemoveAt
<1>6. Without(list, m) = w
  BY DEF Without
<1> HIDE DEF front, back, p, w
<1>7. \A i \in 1 .. Len(w) : w[i] = IF i < p THEN list[i] ELSE list[i + 1]
  BY <1>1, <1>2, <1>3, <1>4, <1>5
<1> QED
  BY <1>1, <1>2, <1>6, <1>7 DEF p

\* Filtering an id out: nothing but entries of the list, and all with other ids.
LEMMA WithoutProperties ==
    ASSUME NEW ids, NEW list \in Seq(Entry(ids)), NEW m
    PROVE  /\ Without(list, m) \in Seq(Entry(ids))
           /\ Ids(Without(list, m)) \subseteq Ids(list)
           /\ Ids(list) \ {m} \subseteq Ids(Without(list, m))
<1>1. CASE m \notin Ids(list)
  BY <1>1 DEF Without
<1>2. CASE m \in Ids(list)
  <2> DEFINE p == Position(list, m)
             w == Without(list, m)
  <2>1. /\ p \in 1 .. Len(list) /\ list[p].id = m
        /\ w \in Seq(Entry(ids)) /\ Len(w) = Len(list) - 1
        /\ \A i \in 1 .. Len(w) : w[i] = IF i < p THEN list[i] ELSE list[i + 1]
    BY <1>2, WithoutPlaces
  <2> HIDE DEF p, w
  <2>2. Ids(w) \subseteq Ids(list)
    BY <2>1 DEF Ids
  <2>3. ASSUME NEW x \in Ids(list) \ {m} PROVE x \in Ids(w)
    <3>1. PICK i \in 1 .. Len(list) : list[i].id = x
      BY DEF Ids
    <3>2. i # p
      BY <2>1, <3>1, <2>3
    <3>3. CASE i < p
      BY <3>1, <3>3, <2>1 DEF Ids
    <3>4. CASE i > p
      <4>1. i - 1 \in 1 .. Len(w) /\ w[i - 1] = list[i]
        BY <3>4, <2>1
      <4> QED
        BY <4>1, <3>1, <2>1 DEF Ids
    <3> QED
      BY <3>2, <3>3, <3>4, <2>1
  <2> QED
    BY <2>1, <2>2, <2>3 DEF w
<1> QED
  BY <1>1, <1>2

\* In a list with no id twice the filtered id is gone; the others are still
\* distinct and have the attempts they had.
LEMMA WithoutEntries ==
    ASSUME NEW ids, NEW list \in Seq(Entry(ids)), Distinct(list), NEW m
    PROVE  /\ Distinct(Without(list, m))
           /\ m \notin Ids(Without(list, m))
           /\ \A k : AtMost(list, k) => AtMost(Without(list, m), k)
<1>1. CASE m \notin Ids(list)
  BY <1>1 DEF Without
<1>2. CASE m \in Ids(list)
  <2> DEFINE p == Position(list, m)
             w == Without(list, m)
             from(i) == IF i < p THEN i ELSE i + 1
  <2>1. /\ p \in 1 .. Len(list) /\ list[p].id = m
        /\ w \in Seq(Entry(ids)) /\ Len(w) = Len(list) - 1
        /\ \A i \in 1 .. Len(w) : w[i] = IF i < p THEN list[i] ELSE list[i + 1]
    BY <1>2, WithoutPlaces
  <2> HIDE DEF p, w
  <2>2. /\ DOMAIN w = 1 .. Len(w) /\ DOMAIN list = 1 .. Len(list)
        /\ \A i \in 1 .. Len(w) : /\ from(i) \in 1 .. Len(list) /\ from(i) # p
                                  /\ w[i] = list[from(i)]
        /\ \A i, j \in 1 .. Len(w) : from(i) = from(j) => i = j
    BY <2>1
  <2> HIDE DEF from
  <2>3. Distinct(w)
    BY <2>2 DEF Distinct
  <2>4. m \notin Ids(w)
    BY <2>1, <2>2 DEF Distinct, Ids
  <2>5. \A k : AtMost(list, k) => AtMost(w, k)
    BY <2>2 DEF AtMost
  <2> QED
    BY <2>3, <2>4, <2>5 DEF w
<1> QED
  BY <1>1, <1>2

LEMMA AppendEntry ==
    ASSUME NEW ids, NEW list \in Seq(Entry(ids)), NEW e \in Entry(ids)
    PROVE  /\ Append(list, e) \in Seq(Entry(ids))
           /\ Ids(Append(list, e)) = Ids(list) \cup {e.id}
<1> DEFINE longer == Append(list, e)
<1>1. longer \in Seq(Entry(ids)) /\ Len(longer) = Len(list) + 1
  OBVIOUS
<1>2. \A i \in 1 .. Len(longer) : longer[i] = IF i <= Len(list) THEN list[i] ELSE e
  OBVIOUS
<1> HIDE DEF longer
<1>3. Ids(longer) \subseteq Ids(list) \cup {e.id}
  BY <1>1, <1>2 DEF Ids
<1>4. Ids(list) \subseteq Ids(longer)
  BY <1>1, <1>2 DEF Ids
<1>5. e.id \in Ids(longer)
  <2>1. longer[Len(list) + 1] = e /\ Len(list) + 1 \in DOMAIN longer
    BY <1>1, <1>2
  <2> QED
    BY <2>1 DEF Ids
<1> QED
  BY <1>1, <1>3, <1>4, <1>5 DEF longer

-----------------------------------------------------------------------------
(***************************************************************************)
(* The methods.                                                            *)
(***************************************************************************)

\* enqueue() adds the id and loses none.
LEMMA EnqueueProperties ==
    ASSUME NEW ids, NEW f \in QueueContent(ids), NEW m \in ids
    PROVE  /\ Enqueue(f, m) \in QueueContent(ids)
           /\ Ids(Enqueue(f, m).pending) = Ids(f.pending) \cup {m}
           /\ Enqueue(f, m).replied = f.replied
<1> DEFINE e == [id |-> m, attempts |-> 0]
<1>1. e \in Entry(ids) /\ e.id = m
  BY DEF Entry
<1>2. f.pending \in Seq(Entry(ids))
  BY DEF QueueContent
<1>3. /\ Append(f.pending, e) \in Seq(Entry(ids))
      /\ Ids(Append(f.pending, e)) = Ids(f.pending) \cup {m}
  BY <1>1, <1>2, AppendEntry
<1> QED
  BY <1>3 DEF Enqueue, QueueContent

\* dequeue() loses no other id.
LEMMA DequeueProperties ==
    ASSUME NEW ids, NEW f \in QueueContent(ids), NEW m
    PROVE  /\ Dequeue(f, m) \in QueueContent(ids)
           /\ Ids(f.pending) \ {m} \subseteq Ids(Dequeue(f, m).pending)
           /\ Ids(Dequeue(f, m).pending) \subseteq Ids(f.pending)
           /\ Dequeue(f, m).replied = f.replied
<1>1. f.pending \in Seq(Entry(ids))
  BY DEF QueueContent
<1>2. /\ Without(f.pending, m) \in Seq(Entry(ids))
      /\ Ids(Without(f.pending, m)) \subseteq Ids(f.pending)
      /\ Ids(f.pending) \ {m} \subseteq Ids(Without(f.pending, m))
  BY <1>1, WithoutProperties
<1> QED
  BY <1>2 DEF Dequeue, QueueContent

LEMMA CountOne ==
    ASSUME NEW ids, NEW x \in Entry(ids)
    PROVE  /\ [x EXCEPT !.attempts = @ + 1] \in Entry(ids)
           /\ [x EXCEPT !.attempts = @ + 1].id = x.id
<1>1. x.id \in ids /\ x.attempts + 1 \in Nat
  BY DEF Entry
<1>2. x = [id |-> x.id, attempts |-> x.attempts]
  BY DEF Entry
<1>3. [x EXCEPT !.attempts = @ + 1] = [id |-> x.id, attempts |-> x.attempts + 1]
  BY <1>2
<1> QED
  BY <1>1, <1>3 DEF Entry

\* mark_attempt() loses no other id, and moves its own to the dead letters or
\* leaves it where it is.
LEMMA MarkAttemptProperties ==
    ASSUME NEW ids, NEW f \in QueueContent(ids), NEW m, QueueAssumption
    PROVE  /\ MarkAttempt(f, m) \in QueueContent(ids)
           /\ Ids(f.pending) \ {m} \subseteq Ids(MarkAttempt(f, m).pending)
           /\ Ids(MarkAttempt(f, m).pending) \subseteq Ids(f.pending)
           /\ MarkAttempt(f, m).replied = f.replied
<1> USE DEF QueueContent
<1>1. CASE m \notin Ids(f.pending)
  BY <1>1 DEF MarkAttempt
<1>2. CASE m \in Ids(f.pending)
  <2> DEFINE p == Position(f.pending, m)
             e == Tried(f, m)
  <2>1. p \in 1 .. Len(f.pending) /\ f.pending[p].id = m
    BY <1>2, PositionOf
  <2>2. e \in Entry(ids) /\ e.id = m
    <3> DEFINE x == f.pending[p]
    <3>1. f.pending \in Seq(Entry(ids))
      OBVIOUS
    <3>2. x \in Entry(ids) /\ x.id = m
      BY <2>1, <3>1
    <3>3. e = [x EXCEPT !.attempts = @ + 1]
      BY DEF Tried
    <3> HIDE DEF e, x
    <3> QED
      BY <3>2, <3>3, CountOne
  <2>3. CASE Exhausted(f, m)
    <3>1. /\ Without(f.pending, m) \in Seq(Entry(ids))
          /\ Ids(Without(f.pending, m)) \subseteq Ids(f.pending)
          /\ Ids(f.pending) \ {m} \subseteq Ids(Without(f.pending, m))
      BY WithoutProperties
    <3>2. LastN(Append(f.deadLetter, e), DeadLetterCap) \in Seq(Entry(ids))
      <4>1. Append(f.deadLetter, e) \in Seq(Entry(ids))
        BY <2>2
      <4> QED
        BY <4>1, LastNProperties DEF QueueAssumption
    <3> HIDE DEF e
    <3>3. MarkAttempt(f, m) =
              [f EXCEPT !.pending = Without(@, m),
                        !.deadLetter = LastN(Append(@, e), DeadLetterCap)]
      BY <1>2, <2>3 DEF MarkAttempt, e
    <3> QED
      BY <3>1, <3>2, <3>3
  <2>4. CASE ~Exhausted(f, m)
    <3> DEFINE list == [f.pending EXCEPT ![p] = e]
    <3>1. list \in Seq(Entry(ids)) /\ Len(list) = Len(f.pending)
      BY <2>1, <2>2
    <3>2. \A i \in 1 .. Len(list) : list[i].id = f.pending[i].id
      BY <2>1, <2>2, <3>1
    <3>3. Ids(list) = Ids(f.pending)
      BY <3>1, <3>2 DEF Ids
    <3>4. MarkAttempt(f, m) = [f EXCEPT !.pending = list]
      BY <1>2, <2>4 DEF MarkAttempt
    <3> HIDE DEF list
    <3> QED
      BY <3>1, <3>3, <3>4
  <2> QED
    BY <2>3, <2>4
<1> QED
  BY <1>1, <1>2

\* mark_replied() records the id, and may lose older ones only.
LEMMA MarkRepliedProperties ==
    ASSUME NEW ids, NEW f \in QueueContent(ids), NEW m \in ids, QueueAssumption
    PROVE  /\ MarkReplied(f, m) \in QueueContent(ids)
           /\ m \in ToSet(MarkReplied(f, m).replied)
           /\ MarkReplied(f, m).pending = f.pending
<1> USE DEF QueueContent
<1>1. CASE HasReplied(f, m)
  BY <1>1 DEF MarkReplied, HasReplied
<1>2. CASE ~HasReplied(f, m)
  <2> DEFINE longer == Append(f.replied, m)
             kept == LastN(longer, RepliedCap)
  <2>1. longer \in Seq(ids) /\ Len(longer) >= 1 /\ longer[Len(longer)] = m
    OBVIOUS
  <2>2. /\ kept \in Seq(ids)
        /\ \A i \in 1 .. Len(kept) : kept[i] = longer[i + (Len(longer) - Len(kept))]
    BY <2>1, LastNProperties DEF QueueAssumption
  <2>3. Len(kept) >= 1
    <3>1. CASE Len(longer) > RepliedCap
      <4>1. kept = SubSeq(longer, Len(longer) - RepliedCap + 1, Len(longer))
        BY <3>1 DEF LastN
      <4> QED
        BY <4>1, <2>1, <3>1 DEF QueueAssumption
    <3>2. CASE ~(Len(longer) > RepliedCap)
      BY <2>1, <3>2 DEF LastN
    <3> QED
      BY <3>1, <3>2
  <2>4. kept[Len(kept)] = m
    <3> HIDE DEF kept, longer
    <3> QED
      BY <2>1, <2>2, <2>3
  <2>5. m \in ToSet(kept)
    <3> HIDE DEF kept, longer
    <3> QED
      BY <2>2, <2>3, <2>4 DEF ToSet
  <2>6. MarkReplied(f, m) = [f EXCEPT !.replied = kept]
    BY <1>2 DEF MarkReplied
  <2> HIDE DEF kept
  <2> QED
    BY <2>2, <2>5, <2>6
<1> QED
  BY <1>1, <1>2

\* mark_replied() adds one id and no other.
LEMMA MarkRepliedKeeps ==
    ASSUME NEW ids, NEW f \in QueueContent(ids), NEW m \in ids, QueueAssumption
    PROVE  ToSet(MarkReplied(f, m).replied) \subseteq ToSet(f.replied) \cup {m}
<1>1. CASE HasReplied(f, m)
  BY <1>1 DEF MarkReplied
<1>2. CASE ~HasReplied(f, m)
  <2> DEFINE longer == Append(f.replied, m)
             kept == LastN(longer, RepliedCap)
  <2>1. f.replied \in Seq(ids) /\ longer \in Seq(ids) /\ Len(longer) = Len(f.replied) + 1
        /\ \A i \in 1 .. Len(longer) : longer[i] = IF i <= Len(f.replied) THEN f.replied[i] ELSE m
    BY DEF QueueContent
  <2>2. /\ kept \in Seq(ids) /\ Len(kept) <= Len(longer)
        /\ \A i \in 1 .. Len(kept) : kept[i] = longer[i + (Len(longer) - Len(kept))]
    BY <2>1, LastNProperties DEF QueueAssumption
  <2>3. MarkReplied(f, m).replied = kept
    BY <1>2 DEF MarkReplied, QueueContent
  <2> HIDE DEF kept, longer
  <2>4. ASSUME NEW i \in 1 .. Len(kept) PROVE kept[i] \in ToSet(f.replied) \cup {m}
    <3> DEFINE j == i + (Len(longer) - Len(kept))
    <3>1. j \in 1 .. Len(longer) /\ kept[i] = longer[j]
      BY <2>1, <2>2
    <3> HIDE DEF j
    <3>2. CASE j <= Len(f.replied)
      <4>1. kept[i] = f.replied[j] /\ j \in DOMAIN f.replied
        BY <2>1, <3>1, <3>2
      <4> QED
        BY <4>1 DEF ToSet
    <3> QED
      BY <2>1, <3>1, <3>2
  <2> QED
    BY <2>2, <2>3, <2>4 DEF ToSet
<1> QED
  BY <1>1, <1>2

\* enqueue() puts no id there twice, and a new entry has no attempts.
LEMMA EnqueueEntries ==
    ASSUME NEW ids, NEW f \in QueueContent(ids), NEW m \in ids, Distinct(f.pending)
    PROVE  /\ Distinct(Enqueue(f, m).pending)
           /\ \A k \in Nat : AtMost(f.pending, k) => AtMost(Enqueue(f, m).pending, k)
<1>1. CASE m \in Ids(f.pending)
  BY <1>1 DEF Enqueue
<1>2. CASE m \notin Ids(f.pending)
  <2> DEFINE e == [id |-> m, attempts |-> 0]
             list == f.pending
             longer == Append(list, e)
  <2>1. e \in Entry(ids) /\ e.id = m /\ e.attempts = 0
    BY DEF Entry
  <2>2. list \in Seq(Entry(ids)) /\ Enqueue(f, m).pending = longer
    BY <1>2 DEF QueueContent, Enqueue
  <2> HIDE DEF e, list
  <2>3. /\ longer \in Seq(Entry(ids)) /\ Len(longer) = Len(list) + 1
        /\ \A i \in 1 .. Len(longer) : longer[i] = IF i <= Len(list) THEN list[i] ELSE e
    BY <2>1, <2>2
  <2>4. \A i \in 1 .. Len(list) : list[i].id # m
    BY <1>2, <2>2 DEF Ids, list
  <2>5. \A i, j \in 1 .. Len(list) : list[i].id = list[j].id => i = j
    BY <2>2 DEF Distinct, list
  <2> HIDE DEF longer
  <2>6. Distinct(longer)
    BY <2>1, <2>2, <2>3, <2>4, <2>5 DEF Distinct
  <2>7. ASSUME NEW k \in Nat, AtMost(list, k) PROVE AtMost(longer, k)
    BY <2>1, <2>2, <2>3, <2>7 DEF AtMost
  <2> QED
    BY <2>2, <2>6, <2>7 DEF list
<1> QED
  BY <1>1, <1>2

\* dequeue() takes out the only entry of the id.
LEMMA DequeueEntries ==
    ASSUME NEW ids, NEW f \in QueueContent(ids), NEW m, Distinct(f.pending)
    PROVE  /\ Distinct(Dequeue(f, m).pending)
           /\ m \notin Ids(Dequeue(f, m).pending)
           /\ \A k : AtMost(f.pending, k) => AtMost(Dequeue(f, m).pending, k)
<1>1. f.pending \in Seq(Entry(ids)) /\ Dequeue(f, m).pending = Without(f.pending, m)
  BY DEF QueueContent, Dequeue
<1> QED
  BY <1>1, WithoutEntries

\* mark_attempt() adds one attempt to one entry, or takes out the only entry of
\* an id that has used its last one up.
LEMMA MarkAttemptEntries ==
    ASSUME NEW ids, NEW f \in QueueContent(ids), NEW m, Distinct(f.pending)
    PROVE  /\ Distinct(MarkAttempt(f, m).pending)
           /\ \A k \in Nat : AtMost(f.pending, k) =>
                  /\ AtMost(MarkAttempt(f, m).pending, k + 1)
                  /\ Ids(f.pending) \ Ids(MarkAttempt(f, m).pending) # {} => MaxAttempts <= k + 1
<1>1. f.pending \in Seq(Entry(ids))
  BY DEF QueueContent
<1>2. \A i \in DOMAIN f.pending : f.pending[i].attempts \in Nat
  <2> SUFFICES ASSUME NEW i \in DOMAIN f.pending, NEW x, x = f.pending[i]
               PROVE  x.attempts \in Nat
    OBVIOUS
  <2>1. x \in Entry(ids)
    BY <1>1
  <2> QED
    BY <2>1 DEF Entry
<1>3. ASSUME NEW list, NEW k \in Nat, AtMost(list, k),
             \A i \in DOMAIN list : list[i].attempts \in Nat
      PROVE  AtMost(list, k + 1)
  BY <1>3 DEF AtMost
<1>4. CASE m \notin Ids(f.pending)
  BY <1>2, <1>3, <1>4 DEF MarkAttempt
<1>5. CASE m \in Ids(f.pending)
  <2> DEFINE p == Position(f.pending, m)
             x == f.pending[p]
             e == Tried(f, m)
  <2>1. p \in 1 .. Len(f.pending) /\ x.id = m
    BY <1>5, PositionOf, <1>1
  <2>2. e.id = m /\ e.attempts = x.attempts + 1 /\ x.attempts \in Nat
    <3>1. x \in Entry(ids)
      BY <2>1, <1>1
    <3>2. e = [x EXCEPT !.attempts = @ + 1]
      BY DEF Tried
    <3> HIDE DEF x, e
    <3> QED
      BY <3>1, <3>2, <2>1 DEF Entry
  <2>3. CASE Exhausted(f, m)
    <3>1. MarkAttempt(f, m).pending = Without(f.pending, m)
      BY <1>5, <2>3 DEF MarkAttempt, QueueContent
    <3>2. /\ Distinct(Without(f.pending, m))
          /\ \A k : AtMost(f.pending, k) => AtMost(Without(f.pending, m), k)
      BY <1>1, WithoutEntries
    <3>3. \A i \in DOMAIN Without(f.pending, m) : Without(f.pending, m)[i].attempts \in Nat
      <4> DEFINE w == Without(f.pending, m)
      <4>1. w \in Seq(Entry(ids))
        BY <1>1, WithoutProperties
      <4> HIDE DEF w
      <4>2. \A i \in DOMAIN w : w[i] \in Entry(ids)
        BY <4>1
      <4> QED
        BY <4>2 DEF Entry, w
    <3>4. ASSUME NEW k \in Nat, AtMost(f.pending, k) PROVE MaxAttempts <= k + 1
      <4>1. x.attempts <= k
        BY <2>1, <3>4, <1>1 DEF AtMost
      <4>2. e.attempts >= MaxAttempts
        BY <2>3 DEF Exhausted
      <4> HIDE DEF x, e
      <4> QED
        BY <4>1, <4>2, <2>2, QueueAssumption
    <3> QED
      BY <3>1, <3>2, <3>3, <3>4, <1>3
  <2>4. CASE ~Exhausted(f, m)
    <3> DEFINE list == [f.pending EXCEPT ![p] = e]
    <3>1. MarkAttempt(f, m).pending = list
      BY <1>5, <2>4 DEF MarkAttempt, QueueContent
    <3>2. /\ DOMAIN list = DOMAIN f.pending
          /\ \A i \in DOMAIN list : list[i] = IF i = p THEN e ELSE f.pending[i]
      BY <2>1, <1>1
    <3> HIDE DEF list, e
    <3>3. \A i \in DOMAIN list : list[i].id = f.pending[i].id
      BY <3>2, <2>1, <2>2
    <3>4. Distinct(list)
      BY <3>2, <3>3 DEF Distinct
    <3>5. Ids(list) = Ids(f.pending)
      BY <3>2, <3>3 DEF Ids
    <3>6. ASSUME NEW k \in Nat, AtMost(f.pending, k) PROVE AtMost(list, k + 1)
      <4>1. \A i \in DOMAIN list : list[i].attempts \in {f.pending[i].attempts, f.pending[i].attempts + 1}
        BY <3>2, <2>2
      <4> QED
        BY <4>1, <3>2, <3>6, <1>2 DEF AtMost
    <3> QED
      BY <3>1, <3>4, <3>5, <3>6
  <2> QED
    BY <2>3, <2>4
<1> QED
  BY <1>4, <1>5
=============================================================================
