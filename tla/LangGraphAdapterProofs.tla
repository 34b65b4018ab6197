----------------------- MODULE LangGraphAdapterProofs -----------------------
(***************************************************************************)
(* The lock per thread makes the look at a thread's state and the act on   *)
(* it one, and the turns of a thread come one after another: for any       *)
(* tasks, messages, threads and resolver.                                  *)
(***************************************************************************)
EXTENDS LangGraphAdapter, TLAPS

Thread(t) == ThreadOf[msg[t]]

\* A thread's line holds, once each, tasks that handle a message of it.
Lines ==
    \A th \in Threads :
        /\ \A i \in 1 .. Len(line[th]) :
                pc[line[th][i]] # "idle" /\ Thread(line[th][i]) = th
        /\ \A i, j \in 1 .. Len(line[th]) : line[th][i] = line[th][j] => i = j

\* Who has looked is the first in line.
Holders ==
    \A t \in Tasks : pc[t] \in {"looked", "turn"} =>
        /\ line[Thread(t)] # <<>>
        /\ t = line[Thread(t)][1]

\* What a task has seen of its thread is what is there; a turn that started
\* over has nothing open.
Snapshots ==
    \A t \in Tasks :
        /\ pc[t] = "looked" => (resumes[t] <=> open[Thread(t)] \in Msgs)
        /\ pc[t] = "turn" => IF resumes[t] THEN open[Thread(t)] \in Msgs
                                           ELSE open[Thread(t)] = NoMsg

IInv == TypeOK /\ Lines /\ Holders /\ Snapshots

-----------------------------------------------------------------------------
\* At the start all lines are empty.
LEMMA InitIInv == Init => IInv
<1> SUFFICES ASSUME Init PROVE IInv
  OBVIOUS
<1>1. TypeOK
  BY LangGraphAssumption DEF Init, TypeOK
<1>2. Lines /\ Holders /\ Snapshots
  BY DEF Init, Lines, Holders, Snapshots
<1> QED
  BY <1>1, <1>2 DEF IInv

-----------------------------------------------------------------------------
(***************************************************************************)
(* One lemma per kind of step.                                             *)
(***************************************************************************)

\* A step of t that moves no line, no message and none but t's program counter.
LEMMA StayInLine ==
    ASSUME IInv, NEW t \in Tasks, Holds(t), pc[t] # "idle",
           UNCHANGED <<msg, line>>,
           NEW where \in {"looked", "turn"}, pc' = [pc EXCEPT ![t] = where]
    PROVE  (Lines /\ Holders)'
<1>1. Thread(t)' = Thread(t) /\ Thread(t) \in Threads
  BY LangGraphAssumption DEF Thread, IInv, TypeOK
<1>2. \A u \in Tasks : pc'[u] = IF u = t THEN where ELSE pc[u]
  BY DEF IInv, TypeOK
<1>3. line[Thread(t)] # <<>> /\ t = line[Thread(t)][1]
  <2>1. line[Thread(t)] \in Seq(Tasks) /\ t \in ToSet(line[Thread(t)])
    BY <1>1 DEF IInv, TypeOK, Thread
  <2> QED
    BY <2>1 DEF Holds, LockOf, Thread, ToSet
<1>4. Lines'
  <2> SUFFICES ASSUME NEW th \in Threads, NEW i \in 1 .. Len(line[th])
               PROVE  pc'[line[th][i]] # "idle"
    BY DEF Lines, IInv, Thread
  <2>1. line[th][i] \in Tasks
    BY DEF IInv, TypeOK
  <2> QED
    BY <2>1, <1>2 DEF Lines, IInv
<1>5. Holders'
  BY <1>2, <1>3 DEF Holders, IInv, Thread
<1> QED
  BY <1>4, <1>5

\* A call of inject() gets in line at the end.
LEMMA CallKeeps ==
    ASSUME IInv, NEW t \in Tasks, NEW m \in Msgs, Call(t, m)
    PROVE  IInv'
<1> DEFINE th == ThreadOf[m]
<1>1. /\ th \in Threads
      /\ pc[t] = "idle"
      /\ pc' = [pc EXCEPT ![t] = "lock"]
      /\ msg' = [msg EXCEPT ![t] = m]
      /\ line' = [line EXCEPT ![th] = Append(@, t)]
      /\ UNCHANGED <<resumes, open>>
  BY LangGraphAssumption DEF Call, LockOf
<1>2. \A u \in Tasks : u # t => pc'[u] = pc[u] /\ Thread(u)' = Thread(u)
  BY <1>1 DEF IInv, TypeOK, Thread
<1>3. pc'[t] = "lock" /\ Thread(t)' = th /\ msg'[t] = m
  BY <1>1 DEF IInv, TypeOK, Thread
<1>4. \A x \in Threads : \A i \in 1 .. Len(line[x]) : line[x][i] \in Tasks \ {t}
  BY <1>1 DEF IInv, TypeOK, Lines
<1>5. \A x \in Threads : x # th => line'[x] = line[x]
  BY <1>1 DEF IInv, TypeOK
<1>6. /\ line[th] \in Seq(Tasks)
      /\ line'[th] = Append(line[th], t)
  BY <1>1 DEF IInv, TypeOK
<1>7. /\ line'[th] \in Seq(Tasks)
      /\ Len(line'[th]) = Len(line[th]) + 1
      /\ \A i \in 1 .. Len(line[th]) : line'[th][i] = line[th][i]
      /\ line'[th][Len(line[th]) + 1] = t
  BY <1>6
<1> HIDE DEF th
<1>8. Lines'
  <2> SUFFICES ASSUME NEW x \in Threads
               PROVE  /\ \A i \in 1 .. Len(line'[x]) :
                            pc'[line'[x][i]] # "idle" /\ ThreadOf[msg'[line'[x][i]]] = x
                      /\ \A i, j \in 1 .. Len(line'[x]) : line'[x][i] = line'[x][j] => i = j
    BY DEF Lines, Thread
  <2>1. CASE x # th
    <3>1. \A i \in 1 .. Len(line[x]) :
              pc'[line[x][i]] # "idle" /\ ThreadOf[msg'[line[x][i]]] = x
      BY <1>2, <1>4 DEF IInv, Lines, Thread
    <3> QED
      BY <2>1, <3>1, <1>5 DEF IInv, Lines
  <2>2. CASE x = th
    <3>1. \A i \in 1 .. Len(line[th]) :
              pc'[line[th][i]] # "idle" /\ ThreadOf[msg'[line[th][i]]] = th
      BY <2>2, <1>2, <1>4 DEF IInv, Lines, Thread
    <3>2. \A i \in 1 .. Len(line'[th]) :
              pc'[line'[th][i]] # "idle" /\ ThreadOf[msg'[line'[th][i]]] = th
      BY <3>1, <1>3, <1>6, <1>7 DEF Thread
    <3>3. \A i, j \in 1 .. Len(line[th]) : line[th][i] = line[th][j] => i = j
      BY <2>2 DEF IInv, Lines
    <3>4. \A i \in 1 .. Len(line[th]) : line[th][i] # t
      BY <2>2, <1>4
    <3>5. \A i, j \in 1 .. Len(line'[th]) : line'[th][i] = line'[th][j] => i = j
      BY <3>3, <3>4, <1>6, <1>7
    <3> QED
      BY <2>2, <3>2, <3>5
  <2> QED
    BY <2>1, <2>2
<1>9. Holders'
  <2> SUFFICES ASSUME NEW u \in Tasks, pc'[u] \in {"looked", "turn"}
               PROVE  line'[Thread(u)'] # <<>> /\ u = line'[Thread(u)'][1]
    BY DEF Holders, Thread
  <2>1. u # t /\ pc[u] \in {"looked", "turn"} /\ Thread(u)' = Thread(u)
    BY <1>2, <1>3
  <2>2. line[Thread(u)] # <<>> /\ u = line[Thread(u)][1] /\ Thread(u) \in Threads
    BY <2>1, LangGraphAssumption DEF IInv, Holders, TypeOK, Thread
  <2>3. CASE Thread(u) = th
    BY <2>1, <2>2, <2>3, <1>6, <1>7
  <2>4. CASE Thread(u) # th
    BY <2>1, <2>2, <2>4, <1>5
  <2> QED
    BY <2>3, <2>4
<1>10. Snapshots'
  BY <1>1, <1>2, <1>3 DEF IInv, Snapshots, Thread
<1>11. TypeOK'
  <2>1. line' \in [Threads -> Seq(Tasks)]
    BY <1>1, <1>5, <1>7 DEF IInv, TypeOK
  <2>2. \A u \in Tasks : pc'[u] # "idle" =>
            msg'[u] \in Msgs /\ u \in ToSet(line'[ThreadOf[msg'[u]]])
    <3> SUFFICES ASSUME NEW u \in Tasks, pc'[u] # "idle"
                 PROVE  msg'[u] \in Msgs /\ u \in ToSet(line'[ThreadOf[msg'[u]]])
      OBVIOUS
    <3>1. CASE u = t
      BY <3>1, <1>3, <1>6, <1>7 DEF ToSet, Thread
    <3>2. CASE u # t
      <4>1. msg[u] \in Msgs /\ msg'[u] = msg[u] /\ u \in ToSet(line[ThreadOf[msg[u]]])
        BY <3>2, <1>1, <1>2 DEF IInv, TypeOK
      <4>2. ThreadOf[msg[u]] \in Threads
        BY <4>1, LangGraphAssumption
      <4>3. CASE ThreadOf[msg[u]] = th
        BY <4>1, <4>3, <1>6, <1>7 DEF ToSet
      <4>4. CASE ThreadOf[msg[u]] # th
        BY <4>1, <4>2, <4>4, <1>5
      <4> QED
        BY <4>1, <4>3, <4>4
    <3> QED
      BY <3>1, <3>2
  <2>3. /\ pc' \in [Tasks -> {"idle", "lock", "looked", "turn"}]
        /\ msg' \in [Tasks -> Msgs \cup {NoMsg}]
        /\ hung' \subseteq {u \in Tasks : pc'[u] = "turn"}
        /\ calls' \in 0 .. MaxCalls
    BY <1>1, <1>2, LangGraphAssumption DEF IInv, TypeOK, Call
  <2> QED
    BY <2>1, <2>2, <2>3 DEF IInv, TypeOK, Call
<1> QED
  BY <1>8, <1>9, <1>10, <1>11 DEF IInv

\* The lock goes to the next in line.
LEMMA LeaveKeeps ==
    ASSUME IInv, NEW t \in Tasks, Holds(t), pc[t] # "idle",
           NEW r \in Msgs \cup {NoMsg}, Leave(t, r), UNCHANGED msg
    PROVE  /\ (Lines /\ Holders)'
           /\ line' \in [Threads -> Seq(Tasks)]
           /\ \A u \in Tasks : pc'[u] # "idle" =>
                  msg'[u] \in Msgs /\ u \in ToSet(line'[ThreadOf[msg'[u]]])
           /\ \A u \in Tasks : pc'[u] = IF u = t THEN "idle" ELSE pc[u]
           /\ reply' \in [Tasks -> Msgs \cup {NoMsg}]
<1> DEFINE th == Thread(t)
           old == line[th]
           new == line'[th]
<1>1. /\ th \in Threads
      /\ pc' = [pc EXCEPT ![t] = "idle"]
      /\ line' = [line EXCEPT ![th] = Tail(@)]
      /\ reply' = [reply EXCEPT ![t] = r]
  BY LangGraphAssumption DEF Leave, LockOf, Thread, IInv, TypeOK
<1>2. \A u \in Tasks : pc'[u] = IF u = t THEN "idle" ELSE pc[u]
  BY <1>1 DEF IInv, TypeOK
<1>3. /\ old \in Seq(Tasks) /\ old # <<>> /\ t = old[1]
      /\ \A i, j \in 1 .. Len(old) : old[i] = old[j] => i = j
  <2>1. old \in Seq(Tasks) /\ t \in ToSet(old)
    BY <1>1 DEF IInv, TypeOK, Thread
  <2> QED
    BY <1>1, <2>1 DEF Holds, LockOf, Thread, ToSet, IInv, Lines
<1>4. \A x \in Threads : x # th => line'[x] = line[x]
  BY <1>1 DEF IInv, TypeOK
<1>5. new = Tail(old)
  BY <1>1 DEF IInv, TypeOK
<1>6. /\ new \in Seq(Tasks) /\ Len(new) = Len(old) - 1 /\ Len(old) \in Nat
      /\ \A i \in 1 .. Len(new) : new[i] = old[i + 1]
  BY <1>3, <1>5
<1>7. \A i \in 1 .. Len(new) : new[i] \in Tasks \ {t}
  BY <1>3, <1>6
<1>8. \A x \in Threads : x # th => \A i \in 1 .. Len(line[x]) : line[x][i] \in Tasks \ {t}
  <2> SUFFICES ASSUME NEW x \in Threads, x # th, NEW i \in 1 .. Len(line[x])
               PROVE  line[x][i] \in Tasks \ {t}
    OBVIOUS
  <2>1. line[x][i] \in Tasks
    BY DEF IInv, TypeOK
  <2>2. Thread(line[x][i]) = x
    BY DEF IInv, Lines
  <2> QED
    BY <2>1, <2>2
<1>9. \A x \in Threads : \A i \in 1 .. Len(line[x]) :
          pc[line[x][i]] # "idle" /\ ThreadOf[msg[line[x][i]]] = x
  BY DEF IInv, Lines, Thread
<1> HIDE DEF th, old, new
<1>10. line' \in [Threads -> Seq(Tasks)]
  BY <1>1, <1>4, <1>6 DEF new, IInv, TypeOK
<1>11. Lines'
  <2> SUFFICES ASSUME NEW x \in Threads
               PROVE  /\ \A i \in 1 .. Len(line'[x]) :
                            pc'[line'[x][i]] # "idle" /\ ThreadOf[msg'[line'[x][i]]] = x
                      /\ \A i, j \in 1 .. Len(line'[x]) : line'[x][i] = line'[x][j] => i = j
    BY DEF Lines, Thread
  <2>1. CASE x # th
    <3>1. line'[x] = line[x]
      BY <2>1, <1>4
    <3>2. \A i \in 1 .. Len(line[x]) : pc'[line[x][i]] # "idle"
      BY <2>1, <1>2, <1>8, <1>9
    <3> QED
      BY <3>1, <3>2, <1>9 DEF IInv, Lines
  <2>2. CASE x = th
    <3>1. line'[x] = new
      BY <2>2 DEF new
    <3>2. \A i \in 1 .. Len(old) : pc[old[i]] # "idle" /\ ThreadOf[msg[old[i]]] = th
      BY <1>1, <1>9 DEF old
    <3>3. \A i \in 1 .. Len(new) : pc'[new[i]] # "idle" /\ ThreadOf[msg[new[i]]] = th
      BY <3>2, <1>2, <1>6, <1>7
    <3>4. \A i, j \in 1 .. Len(new) : new[i] = new[j] => i = j
      BY <1>3, <1>6
    <3> QED
      BY <2>2, <3>1, <3>3, <3>4
  <2> QED
    BY <2>1, <2>2
<1>12. \A u \in Tasks : pc'[u] # "idle" => u # t /\ pc[u] = pc'[u]
  BY <1>2
<1>13. \A u \in Tasks : pc'[u] # "idle" =>
          msg'[u] \in Msgs /\ u \in ToSet(line'[ThreadOf[msg'[u]]])
  <2> SUFFICES ASSUME NEW u \in Tasks, pc'[u] # "idle"
               PROVE  msg[u] \in Msgs /\ u \in ToSet(line'[ThreadOf[msg[u]]])
    OBVIOUS
  <2>1. u # t /\ msg[u] \in Msgs /\ u \in ToSet(line[ThreadOf[msg[u]]])
    BY <1>12 DEF IInv, TypeOK
  <2>2. ThreadOf[msg[u]] \in Threads
    BY <2>1, LangGraphAssumption
  <2>3. CASE ThreadOf[msg[u]] = th
    <3>1. PICK i \in 1 .. Len(old) : old[i] = u
      BY <2>1, <2>3 DEF ToSet, old
    <3>2. i # 1 /\ i - 1 \in 1 .. Len(new) /\ new[i - 1] = u
      BY <3>1, <2>1, <1>3, <1>6
    <3>3. u \in ToSet(new)
      BY <3>2 DEF ToSet
    <3> QED
      BY <2>1, <2>3, <3>3 DEF new
  <2>4. CASE ThreadOf[msg[u]] # th
    BY <2>1, <2>2, <2>4, <1>4
  <2> QED
    BY <2>3, <2>4
<1>14. Holders'
  <2> SUFFICES ASSUME NEW u \in Tasks, pc'[u] \in {"looked", "turn"}
               PROVE  line'[Thread(u)] # <<>> /\ u = line'[Thread(u)][1]
    BY DEF Holders, Thread
  <2>1. u # t /\ pc[u] \in {"looked", "turn"} /\ msg[u] \in Msgs
    BY <1>12 DEF IInv, TypeOK
  <2>2. line[Thread(u)] # <<>> /\ u = line[Thread(u)][1] /\ Thread(u) \in Threads
    BY <2>1, LangGraphAssumption DEF IInv, Holders, Thread
  <2>3. Thread(u) # th
    BY <2>1, <2>2, <1>3 DEF old
  <2> QED
    BY <2>2, <2>3, <1>4
<1>15. reply' \in [Tasks -> Msgs \cup {NoMsg}]
  BY <1>1 DEF IInv, TypeOK
<1> QED
  BY <1>2, <1>10, <1>11, <1>13, <1>14, <1>15

\* Nobody else of the holder's thread has looked.
LEMMA OthersElsewhere ==
    ASSUME IInv, NEW t \in Tasks, Holds(t), pc[t] # "idle",
           NEW u \in Tasks, u # t, pc[u] \in {"looked", "turn"}
    PROVE  Thread(u) # Thread(t)
<1>1. line[Thread(t)] \in Seq(Tasks) /\ line[Thread(t)] # <<>>
  <2>1. line[Thread(t)] \in Seq(Tasks) /\ t \in ToSet(line[Thread(t)])
    BY LangGraphAssumption DEF IInv, TypeOK, Thread
  <2> QED
    BY <2>1 DEF ToSet
<1>2. t = line[Thread(t)][1]
  BY <1>1 DEF Holds, LockOf, Thread
<1> QED
  BY <1>2 DEF IInv, Holders

\* Who is in a turn holds the lock.
LEMMA TurnHolds ==
    ASSUME IInv, NEW t \in Tasks, pc[t] \in {"looked", "turn"}
    PROVE  Holds(t) /\ Thread(t) \in Threads /\ msg[t] \in Msgs
<1>1. Thread(t) \in Threads /\ msg[t] \in Msgs
  BY LangGraphAssumption DEF IInv, TypeOK, Thread
<1>2. line[Thread(t)] \in Seq(Tasks)
  BY <1>1 DEF IInv, TypeOK
<1> QED
  BY <1>1, <1>2 DEF IInv, Holders, Holds, LockOf, Thread

-----------------------------------------------------------------------------
(***************************************************************************)
(* Every step.                                                             *)
(***************************************************************************)

\* The holder takes its snapshot.
LEMMA LookKeeps ==
    ASSUME IInv, NEW t \in Tasks, Look(t) PROVE IInv'
<1>1. /\ pc[t] = "lock" /\ Holds(t)
      /\ pc' = [pc EXCEPT ![t] = "looked"]
      /\ resumes' = [resumes EXCEPT ![t] = open[Thread(t)] \in Msgs]
      /\ UNCHANGED <<msg, reply, line, open, said, hung, bounds>>
  BY DEF Look, Thread
<1>2. \A u \in Tasks : pc'[u] = IF u = t THEN "looked" ELSE pc[u]
  BY <1>1 DEF IInv, TypeOK
<1>3. (Lines /\ Holders)'
  BY <1>1, StayInLine
<1>4. \A u \in Tasks : resumes'[u] = IF u = t THEN open[Thread(t)] \in Msgs ELSE resumes[u]
  BY <1>1 DEF IInv, TypeOK
<1>5. Snapshots'
  <2> SUFFICES ASSUME NEW u \in Tasks, pc'[u] \in {"looked", "turn"}
               PROVE  /\ pc'[u] = "looked" => (resumes'[u] <=> open[Thread(u)] \in Msgs)
                      /\ pc'[u] = "turn" => IF resumes'[u] THEN open[Thread(u)] \in Msgs
                                                          ELSE open[Thread(u)] = NoMsg
    BY <1>1 DEF Snapshots, Thread
  <2>1. CASE u = t
    BY <2>1, <1>2, <1>4
  <2>2. CASE u # t
    BY <2>2, <1>2, <1>4 DEF IInv, Snapshots
  <2> QED
    BY <2>1, <2>2
<1>6. TypeOK'
  <2>1. resumes' \in [Tasks -> BOOLEAN]
    BY <1>1 DEF IInv, TypeOK
  <2>2. hung' \subseteq {u \in Tasks : pc'[u] = "turn"}
    BY <1>1, <1>2 DEF IInv, TypeOK
  <2> QED
    BY <1>1, <1>2, <2>1, <2>2 DEF IInv, TypeOK, bounds
<1> QED
  BY <1>3, <1>5, <1>6 DEF IInv

\* The holder cannot, and leaves.
LEMMA LookFailsKeeps ==
    ASSUME IInv, NEW t \in Tasks, LookFails(t) PROVE IInv'
<1>1. /\ pc[t] = "lock" /\ Holds(t) /\ Leave(t, NoMsg)
      /\ UNCHANGED <<msg, resumes, open, said, hung, bounds>>
  BY DEF LookFails
<1>2. /\ (Lines /\ Holders)'
      /\ line' \in [Threads -> Seq(Tasks)]
      /\ \A u \in Tasks : pc'[u] # "idle" =>
             msg'[u] \in Msgs /\ u \in ToSet(line'[ThreadOf[msg'[u]]])
      /\ \A u \in Tasks : pc'[u] = IF u = t THEN "idle" ELSE pc[u]
      /\ reply' \in [Tasks -> Msgs \cup {NoMsg}]
  BY <1>1, LeaveKeeps
<1>3. Snapshots'
  BY <1>1, <1>2 DEF IInv, Snapshots, Thread
<1>4. pc' \in [Tasks -> {"idle", "lock", "looked", "turn"}]
  BY <1>1 DEF Leave, IInv, TypeOK
<1>5. hung' \subseteq {u \in Tasks : pc'[u] = "turn"}
  BY <1>1, <1>2 DEF IInv, TypeOK
<1>6. TypeOK'
  BY <1>1, <1>2, <1>4, <1>5 DEF IInv, TypeOK, bounds
<1> QED
  BY <1>2, <1>3, <1>6 DEF IInv

\* The holder acts on its snapshot, which is still true.
LEMMA EnterKeeps ==
    ASSUME IInv, NEW t \in Tasks, Enter(t) PROVE IInv'
<1>1. /\ pc[t] = "looked"
      /\ pc' = [pc EXCEPT ![t] = "turn"]
      /\ open' = IF resumes[t] THEN open ELSE [open EXCEPT ![Thread(t)] = NoMsg]
      /\ UNCHANGED <<msg, resumes, reply, line, said, hung, bounds>>
  BY DEF Enter, Thread
<1>2. Holds(t) /\ Thread(t) \in Threads
  BY <1>1, TurnHolds
<1>3. \A u \in Tasks : pc'[u] = IF u = t THEN "turn" ELSE pc[u]
  BY <1>1 DEF IInv, TypeOK
<1>4. (Lines /\ Holders)'
  BY <1>1, <1>2, StayInLine
<1>5. \A x \in Threads : open'[x] = IF x = Thread(t) /\ ~resumes[t] THEN NoMsg ELSE open[x]
  BY <1>1 DEF IInv, TypeOK
<1>6. Snapshots'
  <2> SUFFICES ASSUME NEW u \in Tasks, pc'[u] \in {"looked", "turn"}
               PROVE  /\ pc'[u] = "looked" => (resumes[u] <=> open'[Thread(u)] \in Msgs)
                      /\ pc'[u] = "turn" => IF resumes[u] THEN open'[Thread(u)] \in Msgs
                                                         ELSE open'[Thread(u)] = NoMsg
    BY <1>1 DEF Snapshots, Thread
  <2>1. CASE u = t
    BY <2>1, <1>1, <1>2, <1>3, <1>5 DEF IInv, Snapshots
  <2>2. CASE u # t
    <3>1. pc'[u] = pc[u] /\ Thread(u) # Thread(t) /\ Thread(u) \in Threads
      BY <2>2, <1>1, <1>2, <1>3, OthersElsewhere, TurnHolds
    <3> QED
      BY <3>1, <1>5 DEF IInv, Snapshots
  <2> QED
    BY <2>1, <2>2
<1>7. TypeOK'
  <2>1. open' \in [Threads -> Msgs \cup {NoMsg, Stalled}]
    BY <1>1 DEF IInv, TypeOK
  <2>2. hung' \subseteq {u \in Tasks : pc'[u] = "turn"}
    BY <1>1, <1>3 DEF IInv, TypeOK
  <2> QED
    BY <1>1, <1>3, <2>1, <2>2 DEF IInv, TypeOK, bounds
<1> QED
  BY <1>4, <1>6, <1>7 DEF IInv

\* A turn ends: what it leaves open, nobody else has looked at.
LEMMA TurnEnds ==
    ASSUME IInv, NEW t \in Tasks, pc[t] = "turn", t \notin hung,
           NEW left \in Msgs \cup {NoMsg, Stalled}, Writes(t, left),
           NEW r \in Msgs \cup {NoMsg}, Leave(t, r),
           UNCHANGED <<msg, resumes, hung, bounds>>
    PROVE  IInv'
<1>1. Holds(t) /\ Thread(t) \in Threads /\ msg[t] \in Msgs
  BY TurnHolds
<1>2. /\ (Lines /\ Holders)'
      /\ line' \in [Threads -> Seq(Tasks)]
      /\ \A u \in Tasks : pc'[u] # "idle" =>
             msg'[u] \in Msgs /\ u \in ToSet(line'[ThreadOf[msg'[u]]])
      /\ \A u \in Tasks : pc'[u] = IF u = t THEN "idle" ELSE pc[u]
      /\ reply' \in [Tasks -> Msgs \cup {NoMsg}]
  BY <1>1, LeaveKeeps
<1>3. \A x \in Threads : x # Thread(t) => open'[x] = open[x]
  BY DEF Writes, IInv, TypeOK, Thread
<1>4. Snapshots'
  <2> SUFFICES ASSUME NEW u \in Tasks, pc'[u] \in {"looked", "turn"}
               PROVE  /\ pc'[u] = "looked" => (resumes[u] <=> open'[Thread(u)] \in Msgs)
                      /\ pc'[u] = "turn" => IF resumes[u] THEN open'[Thread(u)] \in Msgs
                                                         ELSE open'[Thread(u)] = NoMsg
    BY DEF Snapshots, Thread
  <2>1. u # t /\ pc'[u] = pc[u]
    BY <1>2
  <2>2. Thread(u) # Thread(t) /\ Thread(u) \in Threads
    BY <2>1, <1>1, OthersElsewhere, TurnHolds
  <2> QED
    BY <2>1, <2>2, <1>3 DEF IInv, Snapshots
<1>5. open' \in [Threads -> Msgs \cup {NoMsg, Stalled}] /\ said' \in [Threads -> Msgs \cup {NoMsg}]
  BY <1>1 DEF Writes, IInv, TypeOK
<1>6. pc' \in [Tasks -> {"idle", "lock", "looked", "turn"}]
  BY DEF Leave, IInv, TypeOK
<1>7. hung' \subseteq {u \in Tasks : pc'[u] = "turn"}
  BY <1>2 DEF IInv, TypeOK
<1>8. TypeOK'
  BY <1>2, <1>5, <1>6, <1>7 DEF IInv, TypeOK, bounds
<1> QED
  BY <1>2, <1>4, <1>8 DEF IInv

\* A turn that returned, and one that raised.
LEMMA ReturnsKeeps ==
    ASSUME IInv, NEW t \in Tasks, Returns(t) PROVE IInv'
<1>1. pc[t] = "turn" /\ t \notin hung /\ UNCHANGED <<msg, resumes, hung, bounds>>
  BY DEF Returns
<1>2. Thread(t) \in Threads /\ msg[t] \in Msgs
  BY <1>1, TurnHolds
<1>3. PICK left \in {NoMsg, msg[t]} : Writes(t, left)
  BY DEF Returns
<1>4. said'[Thread(t)] \in Msgs \cup {NoMsg}
  BY <1>2, <1>3 DEF Writes, IInv, TypeOK
<1>5. Leave(t, said'[Thread(t)])
  BY DEF Returns, Thread
<1> QED
  BY <1>1, <1>2, <1>3, <1>4, <1>5, TurnEnds

LEMMA RaisesKeeps ==
    ASSUME IInv, NEW t \in Tasks, Raises(t) PROVE IInv'
<1>1. /\ pc[t] = "turn" /\ t \notin hung /\ UNCHANGED <<msg, resumes, hung, bounds>>
      /\ Leave(t, NoMsg)
  BY DEF Raises
<1>2. Thread(t) \in Threads /\ msg[t] \in Msgs
  BY <1>1, TurnHolds
<1>3. PICK left \in {open[Thread(t)], msg[t], Stalled} : Writes(t, left)
  BY DEF Raises, Thread
<1>4. left \in Msgs \cup {NoMsg, Stalled}
  BY <1>2, <1>3 DEF IInv, TypeOK
<1> QED
  BY <1>1, <1>3, <1>4, TurnEnds

\* Every step keeps the invariant.
LEMMA NextIInv == IInv /\ [Next]_vars => IInv'
<1> SUFFICES ASSUME IInv, [Next]_vars PROVE IInv'
  OBVIOUS
<1>1. ASSUME NEW t \in Tasks, Step(t) PROVE IInv'
  BY <1>1, LookKeeps, LookFailsKeeps, EnterKeeps, ReturnsKeeps, RaisesKeeps DEF Step
<1>2. ASSUME NEW t \in Tasks, NEW m \in Msgs, Call(t, m) PROVE IInv'
  BY <1>2, CallKeeps
<1>3. ASSUME NEW t \in Tasks, Hang(t) PROVE IInv'
  <2>1. hangs' \in 0 .. MaxHangs
    BY <1>3, LangGraphAssumption DEF Hang, IInv, TypeOK
  <2>2. TypeOK'
    BY <1>3, <2>1 DEF Hang, IInv, TypeOK
  <2> QED
    BY <1>3, <2>2 DEF Hang, IInv, Lines, Holders, Snapshots, Thread
<1>4. CASE Crash
  <2>1. TypeOK'
    BY <1>4, LangGraphAssumption DEF Crash, IInv, TypeOK
  <2>2. (Lines /\ Holders /\ Snapshots)'
    BY <1>4 DEF Crash, Lines, Holders, Snapshots
  <2> QED
    BY <2>1, <2>2 DEF IInv
<1>5. CASE UNCHANGED vars
  BY <1>5 DEF vars, IInv, TypeOK, Lines, Holders, Snapshots, Thread
<1> QED
  BY <1>1, <1>2, <1>3, <1>4, <1>5 DEF Next

\* The types, and that nobody acts on a thread between another's look and act.
THEOREM LocksInvariant == Spec => []IInv
BY InitIInv, NextIInv, PTL DEF Spec

\* Every task that is not idle stands in the line of its thread; all other
\* variables keep their types.
THEOREM TypeCorrect == Spec => []TypeOK
<1>1. IInv => TypeOK
  BY DEF IInv
<1> QED
  BY <1>1, LocksInvariant, PTL

\* A message is handed over as an answer only while its thread has a question
\* open.
THEOREM ResumesMeetInterrupts == Spec => []ResumeMeetsInterrupt
<1>1. IInv => ResumeMeetsInterrupt
  BY DEF IInv, Snapshots, ResumeMeetsInterrupt, Thread
<1> QED
  BY <1>1, LocksInvariant, PTL

\* What closes a question is a turn that resumes it.
LEMMA StepKeepsInterrupts ==
    ASSUME IInv, [Next]_vars, NEW th \in Threads, open[th] \in Msgs, open'[th] # open[th]
    PROVE  \E t \in Tasks : pc[t] = "turn" /\ resumes[t] /\ ThreadOf[msg[t]] = th
<1>1. PICK t \in Tasks : Enter(t) \/ Returns(t) \/ Raises(t)
  <2>1. open' # open
    OBVIOUS
  <2> QED
    BY <2>1 DEF Next, Step, Look, LookFails, Hang, Call, Crash, vars
<1>2. Thread(t) \in Threads
  BY <1>1, TurnHolds DEF Enter, Returns, Raises
<1>3. CASE Enter(t)
  <2>1. pc[t] = "looked" /\ ~resumes[t] /\ Thread(t) = th
    BY <1>3, <1>2 DEF Enter, IInv, TypeOK, Thread
  <2>2. open[th] \notin Msgs
    BY <2>1 DEF IInv, Snapshots
  <2> QED
    BY <2>2
<1>4. CASE Returns(t) \/ Raises(t)
  <2>1. pc[t] = "turn"
    BY <1>4 DEF Returns, Raises
  <2>2. PICK left : Writes(t, left)
    BY <1>4 DEF Returns, Raises
  <2>3. Thread(t) = th
    BY <2>2, <1>2 DEF Writes, IInv, TypeOK, Thread
  <2>4. resumes[t]
    BY <2>1, <2>3, LangGraphAssumption DEF IInv, Snapshots
  <2> QED
    BY <2>1, <2>3, <2>4 DEF Thread
<1> QED
  BY <1>1, <1>3, <1>4

\* Only a turn that resumes it closes a question: no new turn started on an old
\* snapshot drops it.
THEOREM InterruptsKept == Spec => InterruptKept
<1>1. IInv /\ [Next]_vars =>
          [\A th \in Threads : open[th] \in Msgs /\ open'[th] # open[th] =>
               \E t \in Tasks : pc[t] = "turn" /\ resumes[t] /\ ThreadOf[msg[t]] = th]_vars
  BY StepKeepsInterrupts
<1> QED
  BY <1>1, LocksInvariant, PTL DEF Spec, InterruptKept
-----------------------------------------------------------------------------
(***************************************************************************)
(* The turns of a thread come one after another.                           *)
(***************************************************************************)

\* Nobody enters or leaves a turn, so the same turns run.
LEMMA SameTurns ==
    ASSUME \A u \in Tasks : /\ pc'[u] = "turn" <=> pc[u] = "turn"
                            /\ pc[u] = "turn" => msg'[u] = msg[u]
    PROVE  Running' = Running
<1>1. ASSUME NEW th \in Threads
      PROVE  {msg'[t] : t \in {u \in Tasks : pc'[u] = "turn" /\ ThreadOf[msg'[u]] = th}}
                 = {msg[t] : t \in {u \in Tasks : pc[u] = "turn" /\ ThreadOf[msg[u]] = th}}
  OBVIOUS
<1> QED
  BY <1>1 DEF Running

\* With t in its turn no other turn of its thread runs.
LEMMA OnlyTurn ==
    ASSUME IInv, NEW t \in Tasks, pc[t] = "turn"
    PROVE  Running[Thread(t)] = {msg[t]}
<1>1. Holds(t) /\ Thread(t) \in Threads
  BY TurnHolds
<1>2. \A u \in Tasks : pc[u] = "turn" /\ Thread(u) = Thread(t) => u = t
  BY <1>1, OthersElsewhere
<1>3. Running[Thread(t)] = {msg[u] : u \in {v \in Tasks : pc[v] = "turn" /\ Thread(v) = Thread(t)}}
  BY <1>1 DEF Running, Thread
<1> QED
  BY <1>2, <1>3

\* With t before its turn and first in line, none runs.
LEMMA NoTurnYet ==
    ASSUME IInv, NEW t \in Tasks, pc[t] = "looked"
    PROVE  Running[Thread(t)] = {}
<1>1. Holds(t) /\ Thread(t) \in Threads
  BY TurnHolds
<1>2. \A u \in Tasks : ~(pc[u] = "turn" /\ Thread(u) = Thread(t))
  BY <1>1, OthersElsewhere
<1>3. Running[Thread(t)] = {msg[u] : u \in {v \in Tasks : pc[v] = "turn" /\ Thread(v) = Thread(t)}}
  BY <1>1 DEF Running, Thread
<1> QED
  BY <1>2, <1>3

\* What t does to the turn that runs in its thread, it does to that one only.
LEMMA TurnsOfOthers ==
    ASSUME IInv, NEW t \in Tasks, pc[t] \in {"looked", "turn"}, UNCHANGED msg,
           NEW where, pc' = [pc EXCEPT ![t] = where]
    PROVE  Running' = [Running EXCEPT ![Thread(t)] = IF where = "turn" THEN {msg[t]} ELSE {}]
<1>1. Holds(t) /\ Thread(t) \in Threads /\ pc \in [Tasks -> {"idle", "lock", "looked", "turn"}]
  BY TurnHolds DEF IInv, TypeOK
<1>2. \A u \in Tasks : pc'[u] = IF u = t THEN where ELSE pc[u]
  BY <1>1
<1>3. \A u \in Tasks : pc[u] = "turn" /\ Thread(u) = Thread(t) => u = t
  BY <1>1, OthersElsewhere
<1>4. ASSUME NEW th \in Threads
      PROVE  {msg[v] : v \in {u \in Tasks : pc'[u] = "turn" /\ Thread(u) = th}}
                 = IF th = Thread(t) THEN IF where = "turn" THEN {msg[t]} ELSE {}
                   ELSE {msg[v] : v \in {u \in Tasks : pc[u] = "turn" /\ Thread(u) = th}}
  <2>1. CASE th = Thread(t)
    <3>1. {u \in Tasks : pc'[u] = "turn" /\ Thread(u) = th} = IF where = "turn" THEN {t} ELSE {}
      BY <1>2, <1>3, <2>1
    <3> QED
      BY <2>1, <3>1
  <2>2. CASE th # Thread(t)
    <3>1. {u \in Tasks : pc'[u] = "turn" /\ Thread(u) = th}
              = {u \in Tasks : pc[u] = "turn" /\ Thread(u) = th}
      BY <1>2, <2>2
    <3> QED
      BY <2>2, <3>1
  <2> QED
    BY <2>1, <2>2
<1>5. /\ Running = [th \in Threads |->
                        {msg[v] : v \in {u \in Tasks : pc[u] = "turn" /\ Thread(u) = th}}]
      /\ Running' = [th \in Threads |->
                        {msg[v] : v \in {u \in Tasks : pc'[u] = "turn" /\ Thread(u) = th}}]
  BY DEF Running, Thread
<1> QED
  BY <1>1, <1>4, <1>5

LEMMA EnterBegins ==
    ASSUME IInv, NEW t \in Tasks, Enter(t)
    PROVE  msg[t] \in Msgs /\ OneByOne!Begin(msg[t])
<1>1. /\ pc[t] = "looked" /\ pc' = [pc EXCEPT ![t] = "turn"]
      /\ UNCHANGED <<msg, said>>
      /\ open' = (IF resumes[t] THEN open ELSE [open EXCEPT ![Thread(t)] = NoMsg])
  BY DEF Enter, Thread
<1>2. Running[Thread(t)] = {} /\ Running' = [Running EXCEPT ![Thread(t)] = {msg[t]}]
  BY <1>1, NoTurnYet, TurnsOfOthers
<1>3. resumes[t] <=> open[Thread(t)] \in Msgs
  BY <1>1 DEF IInv, Snapshots
<1>4. msg[t] \in Msgs
  BY <1>1, TurnHolds
<1> QED
  BY <1>1, <1>2, <1>3, <1>4 DEF OneByOne!Begin, Thread

LEMMA ReturnOrRaiseEnds ==
    ASSUME IInv, NEW t \in Tasks, Returns(t) \/ Raises(t)
    PROVE  msg[t] \in Msgs /\ OneByOne!End(msg[t])
<1>1. /\ pc[t] = "turn" /\ pc' = [pc EXCEPT ![t] = "idle"] /\ UNCHANGED msg
      /\ \E left \in {NoMsg, msg[t], Stalled, open[Thread(t)]} : Writes(t, left)
  BY DEF Returns, Raises, Leave, Thread
<1>2. Running[Thread(t)] = {msg[t]} /\ Running' = [Running EXCEPT ![Thread(t)] = {}]
  <2>1. Running' = [Running EXCEPT ![Thread(t)] = IF "idle" = "turn" THEN {msg[t]} ELSE {}]
    BY <1>1, TurnsOfOthers
  <2> QED
    BY <1>1, <2>1, OnlyTurn
<1>3. msg[t] \in Msgs
  BY <1>1, TurnHolds
<1>4. /\ \E left \in {NoMsg, msg[t], Stalled, open[Thread(t)]} :
             open' = [open EXCEPT ![Thread(t)] = left]
      /\ said' \in {said, [said EXCEPT ![Thread(t)] = msg[t]]}
  BY <1>1 DEF Writes, Thread
<1> QED
  BY <1>2, <1>3, <1>4 DEF OneByOne!End, Thread

\* One step of the adapter, one case per kind of step.
LEMMA TurnsStep == IInv /\ [Next]_vars => [OneByOne!Next]_(OneByOne!turns)
<1> SUFFICES ASSUME IInv, [Next]_vars PROVE [OneByOne!Next]_(OneByOne!turns)
  OBVIOUS
<1>0. pc \in [Tasks -> {"idle", "lock", "looked", "turn"}] /\ msg \in [Tasks -> Msgs \cup {NoMsg}]
  BY DEF IInv, TypeOK
<1>1. ASSUME NEW t \in Tasks, Look(t) \/ LookFails(t) \/ Hang(t) \/ (\E m \in Msgs : Call(t, m))
      PROVE  UNCHANGED OneByOne!turns
  <2>1. UNCHANGED <<open, said>>
    BY <1>1 DEF Look, LookFails, Hang, Call
  <2>2. \A u \in Tasks : /\ pc'[u] = "turn" <=> pc[u] = "turn"
                         /\ pc[u] = "turn" => msg'[u] = msg[u]
    BY <1>0, <1>1 DEF Look, LookFails, Leave, Hang, Call
  <2> QED
    BY <2>1, <2>2, SameTurns DEF OneByOne!turns
<1>2. ASSUME NEW t \in Tasks, Enter(t) PROVE OneByOne!Next
  BY <1>2, EnterBegins DEF OneByOne!Next
<1>3. ASSUME NEW t \in Tasks, Returns(t) \/ Raises(t) PROVE OneByOne!Next
  BY <1>3, ReturnOrRaiseEnds DEF OneByOne!Next
<1>4. CASE Crash
  <2>1. pc' = [t \in Tasks |-> "idle"] /\ UNCHANGED <<open, said>>
    BY <1>4 DEF Crash
  <2>2. Running' = [th \in Threads |-> {}]
    BY <2>1 DEF Running
  <2> QED
    BY <2>1, <2>2 DEF OneByOne!Next, OneByOne!Die
<1>5. CASE UNCHANGED vars
  BY <1>5 DEF vars, OneByOne!turns, Running
<1> QED
  BY <1>1, <1>2, <1>3, <1>4, <1>5 DEF Next, Step

\* However many tasks call inject(), a thread has one turn at a time, begun on
\* the state the one before it left: the lock per thread (_lock_for) makes
\* aget_state() and the start of ainvoke() one step.
THEOREM TurnsOneByOne == Spec => TurnsInOrder
<1>1. Init => OneByOne!Init
  BY DEF Init, OneByOne!Init, Running
<1> QED
  BY <1>1, TurnsStep, LocksInvariant, PTL DEF Spec, TurnsInOrder, OneByOne!Spec
=============================================================================
