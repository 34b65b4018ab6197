------------------------ MODULE HermesAdapterProofs ------------------------
(***************************************************************************)
(* Theorems about HermesAdapter, for any tasks, senders, pool sizes and    *)
(* number of workers.  The inductive invariant says who is in which list:  *)
(* a task that wants the pool lock is once in its line, and only the first *)
(* builds an agent; a task that awaits the executor has one call there,    *)
(* waiting or run; the pool is the end of the list of recent senders.      *)
(***************************************************************************)
EXTENDS HermesAdapter, SequenceTheorems, FiniteSetTheorems, NaturalsInduction, TLAPS

(***************************************************************************)
(* Lists with no element twice (IsInjective).                              *)
(***************************************************************************)

\* A number in a set of numbers has a least one beside it.
LEMMA MinIsLeast ==
    ASSUME NEW S \in SUBSET Nat, S # {}
    PROVE  Min(S) \in S
<1>1. \E R : IsWellFoundedOn(R, Nat) /\ \A m, n \in Nat : m < n => <<m, n>> \in R
  <2>1. \A m, n \in Nat : m < n => <<m, n>> \in OpToRel(<, Nat)
    BY DEF OpToRel
  <2> QED
    BY <2>1, NatLessThanWellFounded
<1>2. PICK R : IsWellFoundedOn(R, Nat) /\ \A m, n \in Nat : m < n => <<m, n>> \in R
  BY <1>1
<1>3. IsWellFoundedOn(R, Nat) /\ S \subseteq Nat /\ S # {}
  BY <1>2
<1>4. PICK n \in S : \A m \in S : ~(<<m, n>> \in R)
  BY ONLY <1>3, WFMin, Zenon
<1>5. \A m \in S : ~(m < n)
  BY <1>2, <1>4
<1>6. \A m \in S : n <= m
  BY <1>5
<1> QED
  BY <1>6 DEF Min

\* Where the elements are after one of them is taken out.
LEMMA DropPlaces ==
    ASSUME NEW S, NEW list \in Seq(S), NEW x \in ToSet(list)
    PROVE  LET w == RemoveFirst(list, x)
           IN  \E p \in 1 .. Len(list) :
                   /\ list[p] = x
                   /\ w \in Seq(S) /\ Len(w) = Len(list) - 1
                   /\ \A i \in 1 .. Len(w) : w[i] = IF i < p THEN list[i] ELSE list[i + 1]
<1> DEFINE at == {i \in 1 .. Len(list) : list[i] = x}
           p == Min(at)
           w == RemoveAt(list, p)
           front == SubSeq(list, 1, p - 1)
           back == SubSeq(list, p + 1, Len(list))
<1>1. PICK q \in 1 .. Len(list) : list[q] = x
  BY DEF ToSet
<1>2. RemoveFirst(list, x) = w
  BY <1>1 DEF RemoveFirst, SelectInSeq
<1>3. at \in SUBSET Nat /\ at # {}
  BY <1>1
<1>4. p \in at
  <2> HIDE DEF at
  <2> QED
    BY <1>3, MinIsLeast
<1>5. p \in 1 .. Len(list) /\ list[p] = x
  BY <1>4
<1>6. w = front \o back
  BY DEF RemoveAt
<1> HIDE DEF p, at
<1>7. front \in Seq(S) /\ Len(front) = p - 1 /\ \A i \in 1 .. p - 1 : front[i] = list[i]
  BY <1>5
<1>8. back \in Seq(S) /\ Len(back) = Len(list) - p /\ \A i \in 1 .. Len(list) - p : back[i] = list[i + p]
  BY <1>5
<1> HIDE DEF front, back, w
<1>9. /\ w \in Seq(S) /\ Len(w) = Len(list) - 1
      /\ \A i \in 1 .. Len(w) : w[i] = IF i <= Len(front) THEN front[i] ELSE back[i - Len(front)]
  BY <1>5, <1>6, <1>7, <1>8, ConcatProperties
<1>10. \A i \in 1 .. Len(w) : w[i] = IF i < p THEN list[i] ELSE list[i + 1]
  <2> TAKE i \in 1 .. Len(w)
  <2>1. CASE i < p
    BY <2>1, <1>5, <1>7, <1>9
  <2>2. CASE ~(i < p)
    <3>1. i - (p - 1) \in 1 .. Len(list) - p /\ i - (p - 1) + p = i + 1
      BY <2>2, <1>5, <1>9
    <3>2. w[i] = back[i - (p - 1)]
      BY <2>2, <1>5, <1>7, <1>9
    <3>3. back[i - (p - 1)] = list[(i - (p - 1)) + p]
      BY <3>1, <1>8
    <3> QED
      BY <2>2, <3>1, <3>2, <3>3
  <2> QED
    BY <2>1, <2>2
<1> QED
  BY <1>2, <1>5, <1>9, <1>10

\* Taken out, an element is gone, and the others stay.
LEMMA DropOnce ==
    ASSUME NEW S, NEW list \in Seq(S), IsInjective(list), NEW x
    PROVE  LET w == RemoveFirst(list, x)
           IN  w \in Seq(S) /\ IsInjective(w) /\ ToSet(w) = ToSet(list) \ {x}
<1>1. CASE x \notin ToSet(list)
  <2>1. RemoveFirst(list, x) = list
    BY <1>1 DEF RemoveFirst, ToSet
  <2> QED
    BY <1>1, <2>1
<1>2. CASE x \in ToSet(list)
  <2> DEFINE w == RemoveFirst(list, x)
  <2>1. PICK p \in 1 .. Len(list) :
            /\ list[p] = x
            /\ w \in Seq(S) /\ Len(w) = Len(list) - 1
            /\ \A i \in 1 .. Len(w) : w[i] = IF i < p THEN list[i] ELSE list[i + 1]
    BY <1>2, DropPlaces
  <2> HIDE DEF w
  <2> DEFINE from(i) == IF i < p THEN i ELSE i + 1
  <2>2. /\ DOMAIN w = 1 .. Len(w) /\ DOMAIN list = 1 .. Len(list)
        /\ \A i \in 1 .. Len(w) : /\ from(i) \in 1 .. Len(list) /\ from(i) # p
                                  /\ w[i] = list[from(i)]
        /\ \A i, j \in 1 .. Len(w) : from(i) = from(j) => i = j
        /\ \A j \in 1 .. Len(list) : j # p => \E i \in 1 .. Len(w) : from(i) = j
    <3>1. ASSUME NEW j \in 1 .. Len(list), j # p
          PROVE  \E i \in 1 .. Len(w) : from(i) = j
      <4>1. CASE j < p
        BY <4>1, <2>1, <3>1
      <4>2. CASE j > p
        <5>1. j - 1 \in 1 .. Len(w) /\ from(j - 1) = j
          BY <4>2, <2>1
        <5> QED
          BY <5>1
      <4> QED
        BY <3>1, <4>1, <4>2
    <3> QED
      BY <2>1, <3>1
  <2> HIDE DEF from
  <2>3. IsInjective(w)
    BY <2>2 DEF IsInjective
  <2>4. ToSet(w) = ToSet(list) \ {x}
    <3>1. ASSUME NEW y \in ToSet(w) PROVE y \in ToSet(list) /\ y # x
      <4>1. PICK i \in 1 .. Len(w) : w[i] = y
        BY <2>2 DEF ToSet
      <4>2. from(i) \in DOMAIN list /\ p \in DOMAIN list /\ from(i) # p /\ list[from(i)] = y
        BY <4>1, <2>1, <2>2
      <4>3. y # list[p]
        BY <4>2 DEF IsInjective
      <4> QED
        BY <4>2, <4>3, <2>1 DEF ToSet
    <3>2. ASSUME NEW y \in ToSet(list), y # x PROVE y \in ToSet(w)
      <4>1. PICK j \in 1 .. Len(list) : list[j] = y
        BY <2>2 DEF ToSet
      <4>2. PICK i \in 1 .. Len(w) : from(i) = j
        BY <4>1, <3>2, <2>1, <2>2
      <4> QED
        BY <4>1, <4>2, <2>2 DEF ToSet
    <3> QED
      BY <3>1, <3>2
  <2> QED
    BY <2>1, <2>3, <2>4 DEF w
<1> QED
  BY <1>1, <1>2

LEMMA AppendOnce ==
    ASSUME NEW S, NEW list \in Seq(S), IsInjective(list), NEW x \in S
    PROVE  /\ Append(list, x) \in Seq(S)
           /\ ToSet(Append(list, x)) = ToSet(list) \cup {x}
           /\ x \notin ToSet(list) => IsInjective(Append(list, x))
<1> DEFINE w == Append(list, x)
<1>1. /\ w \in Seq(S) /\ Len(w) = Len(list) + 1
      /\ DOMAIN w = 1 .. Len(w) /\ DOMAIN list = 1 .. Len(list)
      /\ \A i \in 1 .. Len(list) : w[i] = list[i]
      /\ w[Len(w)] = x
  OBVIOUS
<1> HIDE DEF w
<1>2. ToSet(w) = ToSet(list) \cup {x}
  BY <1>1 DEF ToSet
<1>3. ASSUME x \notin ToSet(list) PROVE IsInjective(w)
  <2>1. \A i \in 1 .. Len(w) : i \in 1 .. Len(list) \/ i = Len(w)
    BY <1>1
  <2>2. \A i \in 1 .. Len(list) : list[i] # x
    BY <1>3, <1>1 DEF ToSet
  <2> QED
    BY <1>1, <2>1, <2>2 DEF IsInjective
<1> QED
  BY <1>1, <1>2, <1>3 DEF w

LEMMA TailOnce ==
    ASSUME NEW S, NEW list \in Seq(S), IsInjective(list), list # <<>>
    PROVE  /\ Head(list) \in ToSet(list)
           /\ Tail(list) \in Seq(S) /\ IsInjective(Tail(list))
           /\ ToSet(Tail(list)) = ToSet(list) \ {Head(list)}
<1> DEFINE w == Tail(list)
<1>1. /\ w \in Seq(S) /\ Len(w) = Len(list) - 1 /\ Len(list) > 0
      /\ DOMAIN w = 1 .. Len(w) /\ DOMAIN list = 1 .. Len(list)
      /\ \A i \in 1 .. Len(w) : i + 1 \in 1 .. Len(list) /\ i + 1 # 1 /\ w[i] = list[i + 1]
      /\ Head(list) = list[1]
  OBVIOUS
<1> HIDE DEF w
<1>2. \A j \in 1 .. Len(list) : j # 1 => \E i \in 1 .. Len(w) : i + 1 = j
  <2> TAKE j \in 1 .. Len(list)
  <2> HAVE j # 1
  <2>1. j - 1 \in 1 .. Len(w) /\ (j - 1) + 1 = j
    BY <1>1
  <2> QED
    BY <2>1
<1>3. ToSet(w) = ToSet(list) \ {list[1]}
  <2>1. ASSUME NEW y \in ToSet(w) PROVE y \in ToSet(list) /\ y # list[1]
    <3>1. PICK i \in 1 .. Len(w) : w[i] = y
      BY <1>1 DEF ToSet
    <3>2. i + 1 \in DOMAIN list /\ 1 \in DOMAIN list /\ list[i + 1] = y /\ i + 1 # 1
      BY <1>1, <3>1
    <3> QED
      BY <3>2 DEF IsInjective, ToSet
  <2>2. ASSUME NEW y \in ToSet(list), y # list[1] PROVE y \in ToSet(w)
    <3>1. PICK j \in 1 .. Len(list) : list[j] = y
      BY <1>1 DEF ToSet
    <3>2. PICK i \in 1 .. Len(w) : i + 1 = j
      BY <3>1, <2>2, <1>2
    <3> QED
      BY <3>1, <3>2, <1>1 DEF ToSet
  <2> QED
    BY <2>1, <2>2
<1>4. IsInjective(w)
  <2>1. \A i, j \in 1 .. Len(w) : i + 1 = j + 1 => i = j
    OBVIOUS
  <2>2. \A i, j \in 1 .. Len(w) : list[i + 1] = list[j + 1] => i + 1 = j + 1
    BY <1>1 DEF IsInjective
  <2> QED
    BY <1>1, <2>1, <2>2 DEF IsInjective
<1>5. list[1] \in ToSet(list)
  BY <1>1 DEF ToSet
<1> QED
  BY <1>1, <1>3, <1>4, <1>5 DEF w

\* The head of a longer line is the same.
LEMMA HeadStays ==
    ASSUME NEW S, NEW list \in Seq(S), list # <<>>, NEW x \in S
    PROVE  Head(Append(list, x)) = Head(list)
OBVIOUS

\* Moved to the end, an element is once in the list.
LEMMA ToEndOnce ==
    ASSUME NEW S, NEW list \in Seq(S), IsInjective(list), NEW s \in S
    PROVE  /\ ToEnd(s, list) \in Seq(S) /\ IsInjective(ToEnd(s, list))
           /\ ToSet(ToEnd(s, list)) = ToSet(list) \cup {s}
<1> DEFINE w == RemoveFirst(list, s)
<1>1. w \in Seq(S) /\ IsInjective(w) /\ ToSet(w) = ToSet(list) \ {s}
  BY DropOnce
<1> HIDE DEF w
<1>2. ToEnd(s, list) = Append(w, s)
  BY DEF ToEnd, w
<1> QED
  BY <1>1, <1>2, AppendOnce

(***************************************************************************)
(* The inductive invariant.                                                *)
(***************************************************************************)

\* few is the end of all, n elements long if there are as many.
IsEnd(few, all, n) ==
    /\ Len(few) = IF Len(all) > n THEN n ELSE Len(all)
    /\ \A i \in 1 .. Len(few) : few[i] = all[i + (Len(all) - Len(few))]

\* The pool is the end of the senders used; no sender is twice in their list.
PoolInv ==
    /\ IsInjective(recent)
    /\ IsEnd(pool, recent, size)

\* With a pool, the line is who waits for the lock or builds an agent; who
\* builds one is first in it and its sender has none.
LineInv ==
    /\ IsInjective(line)
    /\ size = 0 => \A t \in Tasks : pc[t] # "lock"
    /\ ToSet(line) = {t \in Tasks : size > 0 /\ pc[t] \in {"lock", "factory"}}
    /\ \A t \in Tasks :
           size > 0 /\ pc[t] = "factory" => t = Head(line) /\ sender[t] \notin ToSet(pool)

\* A task has one call at most among those that wait; what runs is counted, and
\* a hang is counted for each worker it took or may take.
CallsInv ==
    /\ IsInjective(jobs)
    /\ IsFiniteSet(running)
    /\ stuck + Cardinality(hung) <= hangs

IInv == TypeOK /\ PoolInv /\ LineInv /\ CallsInv

\* What is not in a list cannot be taken out.
LEMMA DropNothing ==
    ASSUME NEW S, NEW list \in Seq(S), NEW x, x \notin ToSet(list)
    PROVE  RemoveFirst(list, x) = list
BY DEF RemoveFirst, ToSet

(***************************************************************************)
(* The pool.                                                               *)
(***************************************************************************)

\* The lists with s moved to their ends, if s is in the shorter one: it is at
\* the same place from the end in both.
LEMMA UsedIsEnd ==
    ASSUME NEW S, NEW few \in Seq(S), NEW all \in Seq(S), NEW n \in Nat,
           IsInjective(all), IsEnd(few, all, n), NEW s \in ToSet(few)
    PROVE  IsEnd(ToEnd(s, few), ToEnd(s, all), n)
<1> DEFINE d == Len(all) - Len(few)
           less == RemoveFirst(few, s)
           rest == RemoveFirst(all, s)
<1>0. d \in Nat
  BY DEF IsEnd
<1>1. PICK q \in 1 .. Len(few) :
          /\ few[q] = s
          /\ less \in Seq(S) /\ Len(less) = Len(few) - 1
          /\ \A i \in 1 .. Len(less) : less[i] = IF i < q THEN few[i] ELSE few[i + 1]
  BY DropPlaces
<1>2. \A i \in 1 .. Len(few) : i + d \in 1 .. Len(all) /\ few[i] = all[i + d]
  <2>1. \A i \in 1 .. Len(few) : i + d \in 1 .. Len(all)
    BY <1>0
  <2>2. \A i \in 1 .. Len(few) : few[i] = all[i + d]
    BY DEF IsEnd
  <2> QED
    BY <2>1, <2>2
<1>3. s \in ToSet(all)
  BY <1>1, <1>2 DEF ToSet
<1>4. PICK p \in 1 .. Len(all) :
          /\ all[p] = s
          /\ rest \in Seq(S) /\ Len(rest) = Len(all) - 1
          /\ \A i \in 1 .. Len(rest) : rest[i] = IF i < p THEN all[i] ELSE all[i + 1]
  BY <1>3, DropPlaces
<1>5. p = q + d
  <2> HIDE DEF d, less, rest
  <2>1. q + d \in 1 .. Len(all) /\ few[q] = all[q + d]
    BY <1>2
  <2>2. DOMAIN all = 1 .. Len(all)
    OBVIOUS
  <2>3. all[p] = all[q + d]
    BY <2>1, <1>1, <1>4
  <2> QED
    BY <2>1, <2>2, <2>3 DEF IsInjective
<1> DEFINE u == Append(less, s)
           w == Append(rest, s)
<1>6. ToEnd(s, few) = u /\ ToEnd(s, all) = w
  BY DEF ToEnd
<1> HIDE DEF less, rest
<1>7. s \in S
  BY <1>1
<1>8. /\ Len(u) = Len(few) /\ u[Len(few)] = s
      /\ \A i \in 1 .. Len(few) - 1 : u[i] = less[i]
  BY <1>1, <1>7
<1>9. /\ Len(w) = Len(all) /\ w[Len(all)] = s
      /\ \A i \in 1 .. Len(all) - 1 : w[i] = rest[i]
  BY <1>4, <1>7
<1> HIDE DEF u, w
<1>10. ASSUME NEW i \in 1 .. Len(few) PROVE u[i] = w[i + d]
  <2>1. CASE i = Len(few)
    <3>1. i + d = Len(all)
      BY <2>1
    <3> QED
      BY <2>1, <3>1, <1>8, <1>9
  <2>2. CASE i < q
    <3>1. i \in 1 .. Len(less) /\ i + d \in 1 .. Len(rest) /\ i + d < p
      BY <2>2, <1>0, <1>1, <1>4, <1>5
    <3>2. u[i] = few[i] /\ w[i + d] = all[i + d]
      BY <2>2, <3>1, <1>1, <1>4, <1>8, <1>9
    <3> QED
      BY <3>2, <1>2
  <2>3. CASE ~(i < q) /\ i # Len(few)
    <3>1. /\ i \in 1 .. Len(less) /\ i + d \in 1 .. Len(rest) /\ ~(i + d < p)
          /\ i + 1 \in 1 .. Len(few) /\ (i + 1) + d = (i + d) + 1
      BY <2>3, <1>0, <1>1, <1>4, <1>5
    <3>2. u[i] = few[i + 1] /\ w[i + d] = all[(i + d) + 1]
      BY <2>3, <3>1, <1>1, <1>4, <1>8, <1>9
    <3>3. few[i + 1] = all[(i + 1) + d]
      BY <3>1, <1>2
    <3> QED
      BY <3>1, <3>2, <3>3
  <2> QED
    BY <2>1, <2>2, <2>3, <1>1
<1>11. Len(w) - Len(u) = d
  BY <1>8, <1>9
<1>12. IsEnd(u, w, n)
  BY <1>8, <1>9, <1>10, <1>11 DEF IsEnd
<1> QED
  BY <1>6, <1>12

\* The shorter list as Keep leaves it when s is new to it.
Grown(few, s, n) ==
    IF Len(Append(few, s)) > n THEN Tail(Append(few, s)) ELSE Append(few, s)

LEMMA GrownIsEnd ==
    ASSUME NEW S, NEW few \in Seq(S), NEW all \in Seq(S), NEW n \in Nat \ {0},
           IsInjective(all), IsEnd(few, all, n), NEW s \in S, s \notin ToSet(few)
    PROVE  Grown(few, s, n) \in Seq(S) /\ IsEnd(Grown(few, s, n), ToEnd(s, all), n)
<1> DEFINE d == Len(all) - Len(few)
           rest == RemoveFirst(all, s)
           u == Append(few, s)
           v == Tail(u)
           w == Append(rest, s)
<1>0. d \in Nat /\ Len(few) <= n
  BY DEF IsEnd
<1>1. \A i \in 1 .. Len(few) : i + d \in 1 .. Len(all) /\ few[i] = all[i + d]
  <2>1. \A i \in 1 .. Len(few) : i + d \in 1 .. Len(all)
    BY <1>0
  <2>2. \A i \in 1 .. Len(few) : few[i] = all[i + d]
    BY DEF IsEnd
  <2> QED
    BY <2>1, <2>2
<1>2. /\ u \in Seq(S) /\ Len(u) = Len(few) + 1 /\ u[Len(few) + 1] = s
      /\ \A i \in 1 .. Len(few) : u[i] = few[i]
  OBVIOUS
<1>3. /\ v \in Seq(S) /\ Len(v) = Len(few)
      /\ \A i \in 1 .. Len(few) : v[i] = u[i + 1]
  BY <1>2
<1>4. ToEnd(s, all) = w
  BY DEF ToEnd
<1>5. Grown(few, s, n) = IF Len(few) + 1 > n THEN v ELSE u
  BY <1>2 DEF Grown
<1> HIDE DEF u, v, rest
<1>6. CASE s \in ToSet(all)
  <2>1. PICK p \in 1 .. Len(all) :
            /\ all[p] = s
            /\ rest \in Seq(S) /\ Len(rest) = Len(all) - 1
            /\ \A i \in 1 .. Len(rest) : rest[i] = IF i < p THEN all[i] ELSE all[i + 1]
    BY <1>6, DropPlaces DEF rest
  <2>2. p <= d
    <3> SUFFICES ASSUME p > d PROVE FALSE
      BY <1>0
    <3>1. p - d \in 1 .. Len(few) /\ (p - d) + d = p
      BY <1>0
    <3>2. few[p - d] = s
      BY <3>1, <1>1, <2>1
    <3> QED
      BY <3>1, <3>2 DEF ToSet
  <2>3. Len(few) = n
    BY <1>0, <2>1, <2>2 DEF IsEnd
  <2>4. /\ Len(w) = Len(all) /\ w[Len(all)] = s
        /\ \A i \in 1 .. Len(all) - 1 : w[i] = rest[i]
    BY <2>1
  <2> HIDE DEF w
  <2>5. ASSUME NEW i \in 1 .. Len(few) PROVE v[i] = w[i + d]
    <3>1. CASE i = Len(few)
      <4>1. i + d = Len(all)
        BY <3>1
      <4>2. v[i] = s
        BY <3>1, <1>2, <1>3
      <4> QED
        BY <4>1, <4>2, <2>4
    <3>2. CASE i # Len(few)
      <4>1. /\ i + 1 \in 1 .. Len(few) /\ i + d \in 1 .. Len(all) - 1 /\ ~(i + d < p)
            /\ (i + 1) + d = (i + d) + 1
        BY <3>2, <1>0, <2>2
      <4>2. v[i] = few[i + 1] /\ few[i + 1] = all[(i + 1) + d]
        BY <4>1, <1>1, <1>2, <1>3
      <4>3. w[i + d] = all[(i + d) + 1]
        BY <4>1, <2>1, <2>4
      <4> QED
        BY <4>1, <4>2, <4>3
    <3> QED
      BY <3>1, <3>2
  <2>6. Len(w) - Len(v) = d
    BY <1>3, <2>4
  <2>7. IsEnd(v, w, n)
    BY <1>0, <1>3, <2>3, <2>4, <2>5, <2>6 DEF IsEnd
  <2> QED
    BY <1>3, <1>4, <1>5, <2>3, <2>7
<1>7. CASE s \notin ToSet(all)
  <2>1. rest = all
    BY <1>7, DropNothing DEF rest
  <2>2. /\ Len(w) = Len(all) + 1 /\ w[Len(all) + 1] = s
        /\ \A i \in 1 .. Len(all) : w[i] = all[i]
    BY <2>1
  <2> HIDE DEF w
  <2>3. CASE Len(few) < n
    <3>1. d = 0 /\ Len(all) = Len(few) /\ ~(Len(few) + 1 > n)
      BY <2>3, <1>0 DEF IsEnd
    <3>2. \A i \in 1 .. Len(few) + 1 : u[i] = w[i]
      BY <3>1, <1>1, <1>2, <2>2
    <3>3. IsEnd(u, w, n)
      BY <3>1, <3>2, <1>2, <2>2 DEF IsEnd
    <3> QED
      BY <3>1, <3>3, <1>2, <1>4, <1>5
  <2>4. CASE Len(few) = n
    <3>1. ASSUME NEW i \in 1 .. Len(few) PROVE v[i] = w[i + (d + 1)]
      <4>1. CASE i = Len(few)
        <5>1. i + (d + 1) = Len(all) + 1
          BY <4>1
        <5> QED
          BY <4>1, <5>1, <1>2, <1>3, <2>2
      <4>2. CASE i # Len(few)
        <5>1. i + 1 \in 1 .. Len(few) /\ i + (d + 1) \in 1 .. Len(all) /\ (i + 1) + d = i + (d + 1)
          BY <4>2, <1>0
        <5>2. v[i] = few[i + 1] /\ few[i + 1] = all[(i + 1) + d]
          BY <5>1, <1>1, <1>2, <1>3
        <5> QED
          BY <5>1, <5>2, <2>2
      <4> QED
        BY <4>1, <4>2
    <3>2. Len(w) - Len(v) = d + 1
      BY <1>3, <2>2
    <3>3. IsEnd(v, w, n)
      <4>1. Len(v) = n /\ Len(w) > n
        BY <1>0, <1>3, <2>2, <2>4
      <4>2. \A i \in 1 .. Len(v) : v[i] = w[i + (Len(w) - Len(v))]
        BY <3>1, <3>2, <1>3
      <4> QED
        BY <4>1, <4>2 DEF IsEnd
    <3> QED
      BY <1>3, <1>4, <1>5, <2>4, <3>3
  <2> QED
    BY <1>0, <2>3, <2>4
<1> QED
  BY <1>6, <1>7

(***************************************************************************)
(* What a task's turn does to the lists it is in.                          *)
(***************************************************************************)

\* What a task may await.
Points == {"idle", "lock", "chat"} \cup Awaiting

\* The calls agree with what the tasks await.
Calls(p, j, r) ==
    /\ p \in [Tasks -> Points]
    /\ j \in Seq(Tasks)
    /\ IsInjective(j)
    /\ r \subseteq Tasks
    /\ ToSet(j) \cup r = {t \in Tasks : p[t] \in Awaiting}
    /\ ToSet(j) \cap r = {}

\* The list of calls once t awaits v: its last one there, if v is a call.
JobsThen(j, t, v) == IF v \in Awaiting THEN ToEnd(t, j) ELSE RemoveFirst(j, t)

LEMMA CallMoves ==
    ASSUME NEW p, NEW j, NEW r, Calls(p, j, r), NEW t \in Tasks, NEW v \in Points
    PROVE  Calls([p EXCEPT ![t] = v], JobsThen(j, t, v), r \ {t})
<1> DEFINE q == [p EXCEPT ![t] = v]
           k == JobsThen(j, t, v)
<1>1. q \in [Tasks -> Points] /\ q[t] = v /\ \A x \in Tasks : x # t => q[x] = p[x]
  BY DEF Calls
<1> HIDE DEF q
<1>2. CASE v \in Awaiting
  <2>1. k \in Seq(Tasks) /\ IsInjective(k) /\ ToSet(k) = ToSet(j) \cup {t}
    BY <1>2, ToEndOnce DEF JobsThen, Calls
  <2> HIDE DEF k
  <2>2. ToSet(k) \cup (r \ {t}) = {x \in Tasks : q[x] \in Awaiting}
    BY <1>1, <1>2, <2>1 DEF Calls
  <2> QED
    BY <1>1, <2>1, <2>2 DEF Calls, q, k
<1>3. CASE v \notin Awaiting
  <2>1. k \in Seq(Tasks) /\ IsInjective(k) /\ ToSet(k) = ToSet(j) \ {t}
    BY <1>3, DropOnce DEF JobsThen, Calls
  <2> HIDE DEF k
  <2>2. ToSet(k) \cup (r \ {t}) = {x \in Tasks : q[x] \in Awaiting}
    BY <1>1, <1>3, <2>1 DEF Calls
  <2> QED
    BY <1>1, <2>1, <2>2 DEF Calls, q, k
<1> QED
  BY <1>2, <1>3

\* The invariant by the parts a step changes.
Threads ==
    /\ Calls(pc, jobs, running)
    /\ IsFiniteSet(running)
    /\ hung \subseteq {t \in running : pc[t] = "factory"}
    /\ late \in Nat
    /\ stuck \in Nat
    /\ Busy <= Workers
    /\ hangs \in 0 .. MaxHangs
    /\ stuck + Cardinality(hung) <= hangs

Fixed ==
    /\ size \in PoolSizes
    /\ timed \in BOOLEAN
    /\ sender \in [Tasks -> Senders]

Lines == line \in Seq(Tasks) /\ LineInv

Pool ==
    /\ pool \in Seq(Senders)
    /\ recent \in Seq(Senders)
    /\ PoolInv

LEMMA Parts == IInv <=> Threads /\ Fixed /\ Lines /\ Pool
<1>1. ASSUME IInv PROVE Threads /\ Fixed /\ Lines /\ Pool
  BY <1>1 DEF IInv, TypeOK, PoolInv, CallsInv, Threads, Fixed, Lines, Pool, Calls, Points
<1>2. ASSUME Threads, Fixed, Lines, Pool PROVE IInv
  <2>1. Len(pool) <= size
    <3>1. Len(pool) = (IF Len(recent) > size THEN size ELSE Len(recent)) /\ size \in Nat
      BY <1>2, HermesAssumption DEF Pool, PoolInv, IsEnd, Fixed
    <3> QED
      BY <3>1, <1>2 DEF Pool
  <2>2. stuck <= MaxHangs
    <3>1. IsFiniteSet(hung)
      BY <1>2, FS_Subset DEF Threads
    <3>2. Cardinality(hung) \in Nat
      BY <3>1, FS_CardinalityType
    <3> QED
      BY <3>2, <1>2, HermesAssumption DEF Threads
  <2>3. TypeOK
    BY <1>2, <2>1, <2>2, HermesAssumption DEF TypeOK, Threads, Fixed, Lines, Pool, Calls, Points
  <2> QED
    BY <2>3, <1>2 DEF IInv, CallsInv, Threads, Calls, Lines, Pool
<1> QED
  BY <1>1, <1>2

\* The same of the next state.
LEMMA PartsNext == Threads' /\ Fixed' /\ Lines' /\ Pool' => IInv'
BY Parts, PTL

\* A task that goes on leaves the worker that ran its call, or leaves the call
\* behind with it.
LEMMA ThreadsTurn ==
    ASSUME Threads, NEW t \in Tasks, NEW v \in Points,
           pc' = [pc EXCEPT ![t] = v],
           jobs' = JobsThen(jobs, t, v),
           running' = running \ {t},
           hung' = hung \ {t},
           UNCHANGED <<late, stuck>> \/ Abandon(t),
           hangs' = hangs
    PROVE  Threads'
<1>1. Calls(pc', jobs', running')
  BY CallMoves DEF Threads
<1>2. /\ IsFiniteSet(running')
      /\ Cardinality(running) \in Nat
      /\ Cardinality(running') = IF t \in running THEN Cardinality(running) - 1 ELSE Cardinality(running)
  BY FS_RemoveElement, FS_CardinalityType DEF Threads
<1>3. IsFiniteSet(hung) /\ Cardinality(hung) \in Nat
  BY FS_Subset, FS_CardinalityType DEF Threads
<1>4. Cardinality(hung') = IF t \in hung THEN Cardinality(hung) - 1 ELSE Cardinality(hung)
  BY <1>3, FS_RemoveElement
<1>5. hung' \subseteq {x \in running' : pc'[x] = "factory"}
  BY DEF Threads, Calls
<1>6. late' \in Nat /\ stuck' \in Nat
  BY DEF Threads, Abandon
<1>7. stuck' + Cardinality(hung') <= hangs'
  <2> DEFINE c == Cardinality(hung)
             e == Cardinality(hung')
             k == stuck'
  <2>1. c \in Nat /\ e = (IF t \in hung THEN c - 1 ELSE c) /\ stuck \in Nat
    BY <1>3, <1>4 DEF Threads
  <2>2. k = stuck \/ k = (IF t \in hung THEN stuck + 1 ELSE stuck)
    BY DEF Abandon
  <2>3. stuck + c <= hangs /\ hangs \in Nat
    BY HermesAssumption DEF Threads
  <2> HIDE DEF c, e, k
  <2>4. k + e <= hangs
    BY <2>1, <2>2, <2>3
  <2> QED
    BY <2>4 DEF e, k
<1>8. Busy' <= Workers
  <2> DEFINE c == Cardinality(running)
             e == Cardinality(running')
             k == stuck'
             l == late'
  <2>1. c \in Nat /\ e = (IF t \in running THEN c - 1 ELSE c) /\ stuck \in Nat /\ late \in Nat
    BY <1>2 DEF Threads
  <2>2. \/ k = stuck /\ l = late
        \/ /\ k = (IF t \in hung THEN stuck + 1 ELSE stuck)
           /\ l = (IF t \in running \ hung THEN late + 1 ELSE late)
    BY DEF Abandon
  <2>3. (c + late) + stuck <= Workers /\ Workers \in Nat /\ (t \in hung => t \in running)
    BY HermesAssumption DEF Threads, Busy
  <2> HIDE DEF c, e, k, l
  <2>4. (e + l) + k <= Workers
    BY <2>1, <2>2, <2>3
  <2> QED
    BY <2>4 DEF e, k, l, Busy
<1> QED
  BY <1>1, <1>2, <1>5, <1>6, <1>7, <1>8 DEF Threads

\* What wants the lock or has it.
AtLock == {"lock", "factory"}

\* Who leaves the lock leaves the line.
LEMMA LinesLeave ==
    ASSUME Fixed, Threads, Lines, NEW t \in Tasks, NEW v \in Points \ AtLock,
           pc[t] \in AtLock, size > 0 => t = Head(line),
           pc' = [pc EXCEPT ![t] = v], Release, UNCHANGED <<config, sender>>
    PROVE  Lines'
<1>1. /\ pc' \in [Tasks -> Points] /\ pc'[t] = v
      /\ \A x \in Tasks : x # t => pc'[x] = pc[x]
      /\ size' = size /\ size \in Nat
  BY HermesAssumption DEF Threads, Calls, Fixed, config
<1>2. CASE size = 0
  <2>1. line' = line
    BY <1>2 DEF Release
  <2> QED
    BY <1>1, <1>2, <2>1 DEF Lines, LineInv, AtLock
<1>3. CASE size > 0
  <2>1. line \in Seq(Tasks) /\ IsInjective(line) /\ t \in ToSet(line) /\ t = Head(line)
    BY <1>3 DEF Lines, LineInv, AtLock
  <2>2. line # <<>>
    BY <2>1 DEF ToSet
  <2>3. line' = Tail(line)
    BY <1>3 DEF Release
  <2>4. line' \in Seq(Tasks) /\ IsInjective(line') /\ ToSet(line') = ToSet(line) \ {t}
    BY <2>1, <2>2, <2>3, TailOnce
  <2>5. \A x \in Tasks : pc'[x] # "factory"
    BY <1>1, <1>3, <2>1 DEF Lines, LineInv, AtLock
  <2>6. ToSet(line') = {x \in Tasks : size' > 0 /\ pc'[x] \in {"lock", "factory"}}
    BY <1>1, <1>3, <2>4 DEF Lines, LineInv, AtLock
  <2> QED
    BY <1>1, <1>3, <2>4, <2>5, <2>6 DEF Lines, LineInv
<1> QED
  BY <1>1, <1>2, <1>3

\* What happens away from the lock does not concern it.
LEMMA LinesStay ==
    ASSUME Fixed, Threads, Lines, NEW t \in Tasks, NEW v \in Points \ AtLock,
           pc[t] \notin AtLock, pc' = [pc EXCEPT ![t] = v],
           UNCHANGED <<config, sender, line, pool>>
    PROVE  Lines'
<1>1. /\ pc' \in [Tasks -> Points] /\ pc'[t] = v
      /\ \A x \in Tasks : x # t => pc'[x] = pc[x]
      /\ size' = size
  BY DEF Threads, Calls, config
<1>2. \A x \in Tasks : pc'[x] \in AtLock <=> pc[x] \in AtLock
  BY <1>1
<1>3. \A x \in Tasks : pc'[x] \in AtLock => pc'[x] = pc[x]
  BY <1>1
<1> QED
  BY <1>1, <1>2, <1>3 DEF Lines, LineInv, AtLock

\* A task whose call does not wait has none to withdraw.
LEMMA NoneWaits ==
    ASSUME Threads, NEW t \in Tasks, t \notin ToSet(jobs), NEW v
    PROVE  JobsThen(jobs, t, v) = IF v \in Awaiting THEN Append(jobs, t) ELSE jobs
<1>1. RemoveFirst(jobs, t) = jobs
  BY DropNothing DEF Threads, Calls
<1> QED
  BY <1>1 DEF JobsThen, ToEnd

\* Where a task is in the executor, by what it awaits.
LEMMA WhereCalls ==
    ASSUME Threads, NEW t \in Tasks
    PROVE  /\ pc[t] \notin Awaiting => t \notin ToSet(jobs) /\ t \notin running /\ t \notin hung
           /\ t \in running => t \notin ToSet(jobs)
           /\ pc[t] # "factory" => t \notin hung
BY DEF Threads, Calls

-----------------------------------------------------------------------------
LEMMA InitIInv == ASSUME Init PROVE IInv
<1>1. IsFiniteSet({}) /\ Cardinality({}) = 0
  BY FS_EmptySet
<1>2. /\ <<>> \in Seq(Tasks) /\ <<>> \in Seq(Senders) /\ ToSet(<<>>) = {}
      /\ IsInjective(<<>>) /\ Len(<<>>) = 0
  BY DEF ToSet, IsInjective
<1>3. Threads
  <2>1. Calls(pc, jobs, running)
    BY <1>2 DEF Init, Calls, Points, Awaiting
  <2> QED
    BY <1>1, <2>1, HermesAssumption DEF Init, Threads, Busy
<1>4. Fixed
  BY DEF Init, Fixed
<1>5. Lines
  BY <1>2 DEF Init, Lines, LineInv
<1>6. Pool
  <2>1. size \in Nat
    BY HermesAssumption DEF Init
  <2> QED
    BY <1>2, <2>1 DEF Init, Pool, PoolInv, IsEnd
<1> QED
  BY <1>3, <1>4, <1>5, <1>6, Parts

\* A use of the sender's agent.
LEMMA PoolReuse ==
    ASSUME Fixed, Pool, NEW s \in ToSet(pool), UNCHANGED config,
           pool' = ToEnd(s, pool), recent' = ToEnd(s, recent)
    PROVE  Pool'
<1>1. size \in Nat /\ size' = size
  BY HermesAssumption DEF Fixed, config
<1>2. s \in Senders
  BY DEF Pool, ToSet
<1>3. recent' \in Seq(Senders) /\ IsInjective(recent')
  BY <1>2, ToEndOnce DEF Pool, PoolInv
<1>4. IsEnd(ToEnd(s, pool), ToEnd(s, recent), size)
  BY <1>1, UsedIsEnd DEF Pool, PoolInv
<1>5. pool' \in Seq(Senders)
  <2>1. PICK p \in 1 .. Len(pool) : RemoveFirst(pool, s) \in Seq(Senders)
    BY DropPlaces DEF Pool
  <2> QED
    BY <2>1, <1>2 DEF ToEnd
<1> QED
  BY <1>1, <1>3, <1>4, <1>5 DEF Pool, PoolInv

\* The entry of a new agent.
LEMMA PoolKeep ==
    ASSUME Fixed, Pool, NEW s \in Senders, size > 0 => s \notin ToSet(pool),
           UNCHANGED config, Keep(s)
    PROVE  Pool'
<1>1. size \in Nat /\ size' = size
  BY HermesAssumption DEF Fixed, config
<1>2. CASE size = 0
  BY <1>1, <1>2 DEF Keep, Pool, PoolInv
<1>3. CASE size > 0
  <2>1. pool' = Grown(pool, s, size) /\ recent' = ToEnd(s, recent)
    BY <1>3 DEF Keep, Grown
  <2>2. Grown(pool, s, size) \in Seq(Senders) /\ IsEnd(Grown(pool, s, size), ToEnd(s, recent), size)
    BY <1>1, <1>3, GrownIsEnd DEF Pool, PoolInv
  <2>3. recent' \in Seq(Senders) /\ IsInjective(recent')
    BY <2>1, ToEndOnce DEF Pool, PoolInv
  <2> QED
    BY <1>1, <2>1, <2>2, <2>3 DEF Pool, PoolInv
<1> QED
  BY <1>1, <1>2, <1>3

\* The lock comes with the place in the line.
LEMMA HasLock ==
    ASSUME Lines, NEW t \in Tasks, pc[t] = "factory"
    PROVE  size > 0 => t = Head(line) /\ sender[t] \notin ToSet(pool)
BY DEF Lines, LineInv

LEMMA PoolStays ==
    ASSUME Pool, UNCHANGED <<config, pool, recent>>
    PROVE  Pool'
BY DEF Pool, PoolInv, IsEnd, config

LEMMA BeginIInv == ASSUME IInv, NEW t \in Tasks, NEW s \in Senders, Begin(t, s) PROVE IInv'
<1> USE Parts, PartsNext
<1>1. pc[t] = "idle" /\ sender' = [sender EXCEPT ![t] = s] /\ UNCHANGED <<config, pool, running, hung, late, stuck, recent, hangs>>
  BY DEF Begin
<1>2. Pool'
  BY <1>1, PoolStays
<1>3. Fixed'
  BY <1>1 DEF Fixed, config
<1>4. t \notin ToSet(jobs) /\ t \notin running /\ t \notin hung
  BY <1>1, WhereCalls DEF Awaiting
<1>5. running' = running \ {t} /\ hung' = hung \ {t}
  BY <1>1, <1>4
<1>6. size \in Nat /\ size' = size /\ pc \in [Tasks -> Points] /\ sender \in [Tasks -> Senders]
  BY <1>1, HermesAssumption DEF Fixed, Threads, Calls, config
<1>7. CASE size = 0 /\ Submit(t, "factory") /\ UNCHANGED line
  <2>1. "factory" \in Awaiting /\ "factory" \in Points
    BY DEF Awaiting, Points
  <2>2. Threads'
    BY <1>1, <1>4, <1>5, <1>7, <2>1, NoneWaits, ThreadsTurn DEF Submit
  <2>3. Lines'
    BY <1>6, <1>7 DEF Lines, LineInv, Submit
  <2> QED
    BY <1>2, <1>3, <2>2, <2>3
<1>8. CASE size > 0 /\ line' = Append(line, t) /\ pc' = [pc EXCEPT ![t] = "lock"] /\ UNCHANGED jobs
  <2>1. "lock" \notin Awaiting /\ "lock" \in Points
    BY DEF Awaiting, Points
  <2>2. Threads'
    BY <1>1, <1>4, <1>5, <1>8, <2>1, NoneWaits, ThreadsTurn
  <2>3. /\ pc'[t] = "lock" /\ \A x \in Tasks : x # t => pc'[x] = pc[x] /\ sender'[x] = sender[x]
    BY <1>1, <1>6, <1>8
  <2>4. line \in Seq(Tasks) /\ IsInjective(line) /\ t \notin ToSet(line)
    BY <1>1 DEF Lines, LineInv
  <2>5. line' \in Seq(Tasks) /\ IsInjective(line') /\ ToSet(line') = ToSet(line) \cup {t}
    BY <1>8, <2>4, AppendOnce
  <2>6. ToSet(line') = {x \in Tasks : size' > 0 /\ pc'[x] \in {"lock", "factory"}}
    BY <1>6, <1>8, <2>3, <2>5 DEF Lines, LineInv
  <2>7. ASSUME NEW x \in Tasks, pc'[x] = "factory"
        PROVE  x = Head(line') /\ sender'[x] \notin ToSet(pool')
    <3>1. x # t /\ pc[x] = "factory" /\ sender'[x] = sender[x]
      BY <2>3, <2>7
    <3>2. x = Head(line) /\ sender[x] \notin ToSet(pool) /\ x \in ToSet(line)
      BY <1>8, <3>1 DEF Lines, LineInv
    <3>3. line # <<>>
      BY <3>2 DEF ToSet
    <3>4. Head(line') = Head(line)
      BY <1>8, <2>4, <3>3, HeadStays
    <3> QED
      BY <1>1, <3>1, <3>2, <3>4
  <2>8. Lines'
    BY <1>6, <1>8, <2>5, <2>6, <2>7 DEF Lines, LineInv
  <2> QED
    BY <1>2, <1>3, <2>2, <2>8
<1> QED
  BY <1>1, <1>7, <1>8 DEF Begin

LEMMA ReuseIInv == ASSUME IInv, NEW t \in Tasks, Reuse(t) PROVE IInv'
<1> USE Parts, PartsNext
<1>1. /\ pc[t] = "lock" /\ t = Head(line) /\ sender[t] \in ToSet(pool)
      /\ pool' = ToEnd(sender[t], pool) /\ recent' = ToEnd(sender[t], recent)
      /\ Release /\ Talk(t, jobs)
      /\ UNCHANGED <<config, sender, running, hung, late, stuck, hangs>>
  BY DEF Reuse
<1>2. PICK s \in ToSet(pool) : s = sender[t]
  BY <1>1
<1>3. Pool'
  BY <1>1, <1>2, PoolReuse
<1>4. Fixed'
  BY <1>1 DEF Fixed, config
<1>5. t \notin ToSet(jobs) /\ running' = running \ {t} /\ hung' = hung \ {t}
  BY <1>1, WhereCalls DEF Awaiting
<1>6. PICK v \in {"chat", "relay", "ack"} :
          /\ pc' = [pc EXCEPT ![t] = v]
          /\ jobs' = (IF v = "chat" THEN jobs ELSE Append(jobs, t))
  BY <1>1 DEF Talk
<1>7. v \in Points \ AtLock /\ (v \in Awaiting <=> v # "chat")
  BY DEF Points, Awaiting, AtLock
<1>8. Threads'
  BY <1>1, <1>5, <1>6, <1>7, NoneWaits, ThreadsTurn
<1>9. Lines'
  BY <1>1, <1>6, <1>7, LinesLeave DEF AtLock
<1> QED
  BY <1>3, <1>4, <1>8, <1>9

LEMMA MissIInv == ASSUME IInv, NEW t \in Tasks, Miss(t) PROVE IInv'
<1> USE Parts, PartsNext
<1>1. /\ pc[t] = "lock" /\ t = Head(line) /\ sender[t] \notin ToSet(pool)
      /\ Submit(t, "factory")
      /\ UNCHANGED <<config, sender, line, pool, running, hung, late, stuck, recent, hangs>>
  BY DEF Miss
<1>2. Pool' /\ Fixed'
  BY <1>1, PoolStays DEF Fixed, config
<1>3. t \notin ToSet(jobs) /\ running' = running \ {t} /\ hung' = hung \ {t}
  BY <1>1, WhereCalls DEF Awaiting
<1>4. "factory" \in Awaiting /\ "factory" \in Points
  BY DEF Awaiting, Points
<1>5. Threads'
  BY <1>1, <1>3, <1>4, NoneWaits, ThreadsTurn DEF Submit
<1>6. /\ pc \in [Tasks -> Points] /\ size' = size
      /\ pc' = [pc EXCEPT ![t] = "factory"]
  BY <1>1 DEF Threads, Calls, Submit, config
<1>7. pc'[t] = "factory" /\ \A x \in Tasks : x # t => pc'[x] = pc[x]
  BY <1>6
<1>8. Lines'
  BY <1>1, <1>6, <1>7 DEF Lines, LineInv
<1> QED
  BY <1>2, <1>5, <1>8

LEMMA FactoryReturnsIInv == ASSUME IInv, NEW t \in Tasks, FactoryReturns(t) PROVE IInv'
<1> USE Parts, PartsNext
<1>1. /\ pc[t] = "factory" /\ t \in running \ hung /\ running' = running \ {t}
      /\ Keep(sender[t]) /\ Release /\ Talk(t, jobs)
      /\ UNCHANGED <<config, sender, hung, late, stuck, hangs>>
  BY DEF FactoryReturns
<1>2. PICK s \in Senders : s = sender[t]
  BY DEF Fixed
<1>3. size > 0 => t = Head(line) /\ s \notin ToSet(pool)
  BY <1>1, <1>2, HasLock
<1>4. Pool'
  BY <1>1, <1>2, <1>3, PoolKeep
<1>5. Fixed'
  BY <1>1 DEF Fixed, config
<1>6. t \notin ToSet(jobs) /\ hung' = hung \ {t}
  BY <1>1, WhereCalls
<1>7. PICK v \in {"chat", "relay", "ack"} :
          /\ pc' = [pc EXCEPT ![t] = v]
          /\ jobs' = (IF v = "chat" THEN jobs ELSE Append(jobs, t))
  BY <1>1 DEF Talk
<1>8. v \in Points \ AtLock /\ (v \in Awaiting <=> v # "chat")
  BY DEF Points, Awaiting, AtLock
<1>9. Threads'
  BY <1>1, <1>6, <1>7, <1>8, NoneWaits, ThreadsTurn
<1>10. Lines'
  BY <1>1, <1>3, <1>7, <1>8, LinesLeave DEF AtLock
<1> QED
  BY <1>4, <1>5, <1>9, <1>10

LEMMA FactoryRaisesIInv == ASSUME IInv, NEW t \in Tasks, FactoryRaises(t) PROVE IInv'
<1> USE Parts, PartsNext
<1>1. /\ pc[t] = "factory" /\ t \in running \ hung /\ running' = running \ {t} /\ Release
      /\ Submit(t, "ack") \/ (pc' = [pc EXCEPT ![t] = "idle"] /\ UNCHANGED jobs)
      /\ UNCHANGED <<config, sender, pool, hung, late, stuck, recent, hangs>>
  BY DEF FactoryRaises
<1>2. Pool' /\ Fixed'
  BY <1>1, PoolStays DEF Fixed, config
<1>3. t \notin ToSet(jobs) /\ hung' = hung \ {t}
  BY <1>1, WhereCalls
<1>4. PICK v \in {"ack", "idle"} :
          /\ pc' = [pc EXCEPT ![t] = v]
          /\ jobs' = (IF v = "ack" THEN Append(jobs, t) ELSE jobs)
  BY <1>1 DEF Submit
<1>5. v \in Points \ AtLock /\ (v \in Awaiting <=> v = "ack")
  BY DEF Points, Awaiting, AtLock
<1>6. Threads'
  BY <1>1, <1>3, <1>4, <1>5, NoneWaits, ThreadsTurn
<1>7. Lines'
  BY <1>1, <1>4, <1>5, HasLock, LinesLeave DEF AtLock
<1> QED
  BY <1>2, <1>6, <1>7

LEMMA TimeoutIInv == ASSUME IInv, NEW t \in Tasks, Timeout(t) PROVE IInv'
<1> USE Parts, PartsNext
<1>1. /\ pc[t] = "factory" /\ Abandon(t) /\ Release
      /\ jobs' = Append(RemoveFirst(jobs, t), t)
      /\ pc' = [pc EXCEPT ![t] = "ack"]
      /\ UNCHANGED <<config, sender, pool, recent, hangs>>
  BY DEF Timeout
<1>2. Pool' /\ Fixed'
  BY <1>1, PoolStays DEF Fixed, config
<1>3. "ack" \in Points \ AtLock /\ "ack" \in Awaiting
  BY DEF Points, Awaiting, AtLock
<1>4. jobs' = JobsThen(jobs, t, "ack")
  BY <1>1, <1>3 DEF JobsThen, ToEnd
<1>5. Threads'
  BY <1>1, <1>3, <1>4, ThreadsTurn DEF Abandon
<1>6. Lines'
  BY <1>1, <1>3, HasLock, LinesLeave DEF AtLock
<1> QED
  BY <1>2, <1>5, <1>6

\* The answers a task gets with the lock given back.
LEMMA AnswerIInv ==
    ASSUME IInv, NEW t \in Tasks, ChatReturns(t) \/ RelayReturns(t) \/ AckReturns(t)
    PROVE  IInv'
<1> USE Parts, PartsNext
<1>1. /\ pc[t] \in {"chat", "relay", "ack"} /\ t \notin ToSet(jobs)
      /\ running' = running \ {t} /\ hung' = hung \ {t}
      /\ UNCHANGED <<config, sender, line, pool, late, stuck, recent, hangs>>
  BY WhereCalls DEF ChatReturns, RelayReturns, AckReturns, Awaiting
<1>2. PICK v \in {"ack", "idle"} :
          /\ pc' = [pc EXCEPT ![t] = v]
          /\ jobs' = (IF v = "ack" THEN Append(jobs, t) ELSE jobs)
  BY DEF ChatReturns, RelayReturns, AckReturns, Submit
<1>3. v \in Points \ AtLock /\ (v \in Awaiting <=> v = "ack")
  BY DEF Points, Awaiting, AtLock
<1>4. Pool' /\ Fixed'
  BY <1>1, PoolStays DEF Fixed, config
<1>5. Threads'
  BY <1>1, <1>2, <1>3, NoneWaits, ThreadsTurn
<1>6. Lines'
  BY <1>1, <1>2, <1>3, LinesStay DEF AtLock
<1> QED
  BY <1>4, <1>5, <1>6

LEMMA StartJobIInv == ASSUME IInv, StartJob PROVE IInv'
<1> USE Parts, PartsNext
<1>1. /\ jobs # <<>> /\ Busy < Workers
      /\ running' = running \cup {Head(jobs)} /\ jobs' = Tail(jobs)
      /\ UNCHANGED <<config, pc, sender, line, pool, hung, late, stuck, recent, hangs>>
  BY DEF StartJob
<1>2. Pool' /\ Fixed'
  BY <1>1, PoolStays DEF Fixed, config
<1>3. Lines'
  BY <1>1 DEF Lines, LineInv, config
<1>4. /\ Head(jobs) \in ToSet(jobs)
      /\ jobs' \in Seq(Tasks) /\ IsInjective(jobs') /\ ToSet(jobs') = ToSet(jobs) \ {Head(jobs)}
  BY <1>1, TailOnce DEF Threads, Calls
<1>5. ToSet(jobs) \subseteq Tasks
  BY DEF Threads, Calls, ToSet
<1>6. Calls(pc', jobs', running')
  <2> DEFINE h == Head(jobs)
             w == jobs'
             r == running'
  <2>1. r = running \cup {h} /\ ToSet(w) = ToSet(jobs) \ {h} /\ h \in ToSet(jobs)
    BY <1>1, <1>4
  <2> HIDE DEF h, w, r
  <2>2. r \subseteq Tasks /\ ToSet(w) \cup r = ToSet(jobs) \cup running /\ ToSet(w) \cap r = {}
    BY <2>1, <1>5 DEF Threads, Calls
  <2> QED
    BY <1>1, <1>4, <2>2 DEF Threads, Calls, r, w
<1>7. /\ IsFiniteSet(running') /\ Cardinality(running) \in Nat /\ Cardinality(running') \in Nat
      /\ Cardinality(running') <= Cardinality(running) + 1
  <2>1. IsFiniteSet(running)
    BY DEF Threads
  <2>2. /\ IsFiniteSet(running') /\ Cardinality(running) \in Nat
        /\ Cardinality(running') = IF Head(jobs) \in running THEN Cardinality(running)
                                   ELSE Cardinality(running) + 1
    BY <1>1, <2>1, FS_AddElement, FS_CardinalityType
  <2> QED
    BY <2>2
<1>8. Busy' <= Workers
  <2> DEFINE c == Cardinality(running)
             e == Cardinality(running')
  <2>1. c + late + stuck < Workers /\ e <= c + 1 /\ c \in Nat /\ e \in Nat
        /\ late \in Nat /\ stuck \in Nat /\ Workers \in Nat
    BY <1>1, <1>7, HermesAssumption DEF Busy, Threads
  <2>2. Busy' = e + late + stuck
    BY <1>1 DEF Busy
  <2> HIDE DEF c, e
  <2> QED
    BY <2>1, <2>2
<1>9. hung' \subseteq {t \in running' : pc'[t] = "factory"}
  BY <1>1 DEF Threads
<1>10. Threads'
  BY <1>1, <1>6, <1>7, <1>8, <1>9 DEF Threads
<1> QED
  BY <1>2, <1>3, <1>10

LEMMA HangIInv == ASSUME IInv, NEW t \in Tasks, Hang(t) PROVE IInv'
<1> USE Parts, PartsNext
<1>1. /\ pc[t] = "factory" /\ t \in running \ hung /\ hangs < MaxHangs
      /\ hangs' = hangs + 1 /\ hung' = hung \cup {t}
      /\ UNCHANGED <<config, pc, sender, line, pool, jobs, running, late, stuck, recent>>
  BY DEF Hang
<1>2. Pool' /\ Fixed'
  BY <1>1, PoolStays DEF Fixed, config
<1>3. Lines'
  BY <1>1 DEF Lines, LineInv, config
<1>4. IsFiniteSet(hung) /\ Cardinality(hung) \in Nat
  BY FS_Subset, FS_CardinalityType DEF Threads
<1>5. Cardinality(hung') = Cardinality(hung) + 1
  BY <1>1, <1>4, FS_AddElement
<1>6. stuck' + Cardinality(hung') <= hangs' /\ hangs' \in 0 .. MaxHangs
  BY <1>1, <1>4, <1>5, HermesAssumption DEF Threads
<1>7. Threads'
  BY <1>1, <1>6 DEF Threads, Busy
<1> QED
  BY <1>2, <1>3, <1>7

LEMMA LateReturnsIInv == ASSUME IInv, LateReturns PROVE IInv'
<1> USE Parts, PartsNext
<1>1. /\ late > 0 /\ late' = late - 1
      /\ UNCHANGED <<config, pc, sender, line, pool, jobs, running, hung, stuck, recent, hangs>>
  BY DEF LateReturns
<1>2. Pool' /\ Fixed'
  BY <1>1, PoolStays DEF Fixed, config
<1>3. Lines'
  BY <1>1 DEF Lines, LineInv, config
<1>4. Cardinality(running) \in Nat
  BY FS_CardinalityType DEF Threads
<1>5. Threads'
  BY <1>1, <1>4, HermesAssumption DEF Threads, Busy
<1> QED
  BY <1>2, <1>3, <1>5

LEMMA StutterIInv == ASSUME IInv, UNCHANGED vars PROVE IInv'
<1> USE Parts, PartsNext
<1>1. Pool'
  BY PoolStays DEF vars, config
<1> QED
  BY <1>1 DEF vars, Threads, Busy, Fixed, Lines, LineInv

LEMMA StepIInv == IInv /\ [Next]_vars => IInv'
<1> SUFFICES ASSUME IInv, [Next]_vars PROVE IInv'
  OBVIOUS
<1>1. ASSUME NEW t \in Tasks, Step(t) PROVE IInv'
  BY <1>1, ReuseIInv, MissIInv, FactoryReturnsIInv, FactoryRaisesIInv, TimeoutIInv, AnswerIInv
     DEF Step
<1>2. ASSUME NEW t \in Tasks, Hang(t) PROVE IInv'
  BY <1>2, HangIInv
<1>3. ASSUME NEW t \in Tasks, NEW s \in Senders, Begin(t, s) PROVE IInv'
  BY <1>3, BeginIInv
<1>4. CASE StartJob \/ LateReturns
  BY <1>4, StartJobIInv, LateReturnsIInv
<1>5. CASE UNCHANGED vars
  BY <1>5, StutterIInv
<1> QED
  BY <1>1, <1>2, <1>3, <1>4, <1>5 DEF Next

LEMMA AlwaysIInv == Spec => []IInv
<1>1. Init => IInv
  BY InitIInv
<1> QED
  BY <1>1, StepIInv, PTL DEF Spec

\* The lock's line, the executor's calls and the pool keep their types: whoever
\* awaits the executor has one call there, the pool keeps within its size and
\* the executor within its threads, hangs and abandoned factories included.
THEOREM TypesKept == Spec => []TypeOK
BY AlwaysIInv, PTL DEF IInv

\* The pool is the senders used last, in that order, whatever the interleaving
\* of tasks, timeouts, failures and late factories (_get_agent).
THEOREM PoolKeepsRecent == Spec => []PoolIsRecent
<1>1. IInv => PoolIsRecent
  <2> SUFFICES ASSUME IInv PROVE PoolIsRecent
    OBVIOUS
  <2>1. /\ pool \in Seq(Senders) /\ recent \in Seq(Senders) /\ size \in Nat
        /\ IsEnd(pool, recent, size)
    BY HermesAssumption DEF IInv, TypeOK, PoolInv
  <2> DEFINE from == IF Len(recent) > size THEN Len(recent) - size + 1 ELSE 1
             w == SubSeq(recent, from, Len(recent))
  <2>2. from \in 1 .. Len(recent) + 1 /\ Len(pool) = Len(recent) - from + 1
    BY <2>1 DEF IsEnd
  <2>3. \A i \in 1 .. Len(pool) : pool[i] = recent[i + (Len(recent) - Len(pool))]
    BY <2>1 DEF IsEnd
  <2> HIDE DEF from
  <2>4. \A i \in from .. Len(recent) : recent[i] \in Senders
    BY <2>1, <2>2
  <2>5. /\ w \in Seq(Senders) /\ Len(w) = Len(pool)
        /\ \A i \in 1 .. Len(recent) - from + 1 : w[i] = recent[from + i - 1]
    BY <2>1, <2>2, <2>4, SubSeqProperties
  <2>6. \A i \in 1 .. Len(pool) : pool[i] = w[i]
    <3> TAKE i \in 1 .. Len(pool)
    <3>1. i + (Len(recent) - Len(pool)) = from + i - 1
      BY <2>1, <2>2
    <3> QED
      BY <2>2, <2>3, <2>5, <3>1
  <2>7. pool = w
    <3> HIDE DEF w
    <3> QED
      BY <2>1, <2>5, <2>6, SeqEqual
  <2> QED
    BY <2>7 DEF PoolIsRecent, from
<1> QED
  BY <1>1, AlwaysIInv, PTL
=============================================================================
