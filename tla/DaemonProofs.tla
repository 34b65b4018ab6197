---------------------------- MODULE DaemonProofs ----------------------------
(***************************************************************************)
(* The forwarder daemon.  Of its channel directory (ChatRouting): that     *)
(* discover-chat confirms no message to Telegram, and what a daemon and    *)
(* send-test make of the file it leaves, for any log of updates, any       *)
(* directory file and any interleaving of the three.  Of its start         *)
(* (Daemon): the key it takes, for any number of credential files.         *)
(***************************************************************************)
EXTENDS ChatRouting, Daemon, WellFoundedInduction, TLAPS

\* Telegram's log and the two positions in it.
LogTypes ==
    /\ updates \in Seq(Update)
    /\ confirmed \in 0..Len(updates)
    /\ offset \in 0..(Len(updates) + 1)

\* What discover-chat would confirm with its next request came from no chat.
PassedNoMessage == \A i \in 1..(offset - 1) : updates[i].chat = NoChat

ConfirmInv == LogTypes /\ PassedNoMessage /\ ConfirmsNoMessage

\* An update at the end of the log leaves what was said of the others.
LEMMA AppendedUpdate ==
    ASSUME ConfirmInv, NEW u \in Update, updates' = Append(updates, u),
           UNCHANGED <<confirmed, offset>>
    PROVE  ConfirmInv'
<1>1. Len(updates') = Len(updates) + 1 /\ updates' \in Seq(Update)
  BY DEF ConfirmInv, LogTypes
<1>2. \A i \in 1..Len(updates) : updates'[i] = updates[i]
  BY DEF ConfirmInv, LogTypes
<1>3. LogTypes'
  BY <1>1 DEF ConfirmInv, LogTypes
<1>4. PassedNoMessage'
  <2>1. 1..(offset - 1) \subseteq 1..Len(updates)
    BY DEF ConfirmInv, LogTypes
  <2> QED
    BY <1>2, <2>1 DEF ConfirmInv, PassedNoMessage
<1>5. ConfirmsNoMessage'
  <2>1. 1..confirmed \subseteq 1..Len(updates)
    BY DEF ConfirmInv, LogTypes
  <2> QED
    BY <1>2, <2>1 DEF ConfirmInv, ConfirmsNoMessage
<1> QED
  BY <1>3, <1>4, <1>5 DEF ConfirmInv

\* A request confirms what its offset passed, and no more.
LEMMA RequestConfirms ==
    ASSUME ConfirmInv
    PROVE  /\ Confirmed \in 0..Len(updates)
           /\ \A i \in 1..Confirmed : updates[i].chat = NoChat
  BY DEF ConfirmInv, LogTypes, PassedNoMessage, ConfirmsNoMessage, Confirmed

\* A batch without a chat moves the offset to its end, any other leaves it.
LEMMA PollKeepsInvariant ==
    ASSUME ConfirmInv, DiscoverPoll
    PROVE  ConfirmInv'
<1>1. confirmed' = Confirmed /\ updates' = updates
  BY DEF DiscoverPoll
<1>2. confirmed' \in 0..Len(updates) /\ \A i \in 1..confirmed' : updates[i].chat = NoChat
  BY <1>1, RequestConfirms
<1>3. ConfirmsNoMessage'
  BY <1>1, <1>2 DEF ConfirmsNoMessage
<1>4. CASE UNCHANGED offset
  BY <1>1, <1>2, <1>3, <1>4 DEF ConfirmInv, LogTypes, PassedNoMessage
<1>5. CASE WithChat(confirmed' + 1) = {} /\ offset' = Len(updates) + 1
  <2>1. \A i \in (confirmed' + 1)..Len(updates) : updates[i].chat = NoChat
    BY <1>5 DEF WithChat
  <2>2. \A i \in 1..(offset' - 1) : updates'[i].chat = NoChat
    BY <1>1, <1>2, <1>5, <2>1 DEF ConfirmInv, LogTypes
  <2> QED
    BY <1>1, <1>2, <1>3, <1>5, <2>2 DEF ConfirmInv, LogTypes, PassedNoMessage
<1>6. UNCHANGED offset \/ (WithChat(confirmed' + 1) = {} /\ offset' = Len(updates) + 1)
  BY DEF DiscoverPoll
<1> QED
  BY <1>4, <1>5, <1>6

LEMMA InvariantKept ==
    ASSUME ConfirmInv, [Next]_vars
    PROVE  ConfirmInv'
<1> USE DEF telegram, discovery, daemon
<1>1. CASE \E u \in Update : BotUpdate(u)
  <2>1. PICK u \in Update : BotUpdate(u)
    BY <1>1
  <2>2. updates' = Append(updates, u) /\ UNCHANGED <<confirmed, offset>>
    BY <2>1 DEF BotUpdate
  <2> QED
    BY <2>2, AppendedUpdate
<1>2. CASE DiscoverOpen
  BY <1>2 DEF DiscoverOpen, ConfirmInv, LogTypes, PassedNoMessage, ConfirmsNoMessage
<1>3. CASE DiscoverPoll
  BY <1>3, PollKeepsInvariant
<1>4. CASE DiscoverPollFails
  BY <1>4, RequestConfirms
  DEF DiscoverPollFails, ConfirmInv, LogTypes, PassedNoMessage, ConfirmsNoMessage
<1>5. CASE UNCHANGED <<updates, confirmed, offset>>
  BY <1>5 DEF ConfirmInv, LogTypes, PassedNoMessage, ConfirmsNoMessage
<1>6. DiscoverTruncate \/ DiscoverWrite \/ DiscoverEnds => UNCHANGED <<updates, confirmed, offset>>
  BY DEF DiscoverTruncate, DiscoverWrite, DiscoverEnds
<1>7. (\E d \in Chats \cup {NoChat} : Start(d)) \/ Stop => UNCHANGED <<updates, confirmed, offset>>
  BY DEF Start, Stop
<1>8. UNCHANGED vars => UNCHANGED <<updates, confirmed, offset>>
  BY DEF vars
<1> QED
  BY <1>1, <1>2, <1>3, <1>4, <1>5, <1>6, <1>7, <1>8 DEF Next

\* discover-chat takes no message away from the bridge that polls after it,
\* whatever its polls lose and however often it is run.
THEOREM NoMessageConfirmed == Spec => []ConfirmsNoMessage
<1>1. Init => ConfirmInv
  BY DEF Init, ConfirmInv, LogTypes, PassedNoMessage, ConfirmsNoMessage
<1>2. ConfirmInv /\ [Next]_vars => ConfirmInv'
  BY InvariantKept
<1>3. ConfirmInv => ConfirmsNoMessage
  BY DEF ConfirmInv
<1> QED
  BY <1>1, <1>2, <1>3, PTL DEF Spec

-----------------------------------------------------------------------------
(***************************************************************************)
(* The directory file.                                                     *)
(***************************************************************************)

Shapes == {"absent", "unreadable", "flat", "nested"}

FileType ==
    [shape : Shapes, top : Maps(Chats \cup {Junk}), entries : Seq(Entry)]

\* What discover-chat has found is a chat, and what it writes a file.
DiscoveryTypes ==
    /\ file \in FileType
    /\ draft \in FileType
    /\ dpc \in {"found", "write"} => found \in [name : Names, chat : Chats]

\* While a write is under way there is no file to read and no daemon that has
\* read it; else `routes` is what a start would read.
WriteHides ==
    /\ dpc = "write" => ~current /\ file.shape = "unreadable"
    /\ dpc # "write" => routes = Load(file)

\* A daemon that has read the file as it is has its map, and one chat for
\* everybody only if the map is empty.
ReadAsIs ==
    up /\ current => directory = Load(file) /\ (directory # EmptyMap => chat = NoChat)

\* The draft sends all but the new label where a start would have sent them.
DraftKeepsRoutes ==
    dpc = "write" =>
        \A n \in DOMAIN routes \cap Names :
            n = found.name \/ (n \in DOMAIN Load(draft) /\ Load(draft)[n] = routes[n])

\* A flat draft sends the new label, and whoever has none, to the new chat.
DraftHasFound ==
    dpc = "write" /\ draft.shape = "flat" =>
        \A k \in {found.name, Default} : k \in DOMAIN draft.top /\ draft.top[k] = found.chat

\* So does the flat file that was made of it.
FileHasWritten ==
    wrote # Nothing =>
        /\ wrote \in [name : Names, chat : Chats]
        /\ file.shape = "flat" =>
               \A k \in {wrote.name, Default} :
                   k \in DOMAIN file.top /\ file.top[k] = wrote.chat

\* The inductive invariant of the three programs around the file.
RoutingInv ==
    /\ DiscoveryTypes
    /\ WriteHides
    /\ ReadAsIs
    /\ DraftKeepsRoutes
    /\ DraftHasFound
    /\ FileHasWritten

\* A nested file is read from its list alone.
LEMMA NestedIgnoresTop ==
    ASSUME NEW f, NEW g, f.shape = "nested", g.shape = "nested", f.entries = g.entries
    PROVE  Load(f) = Load(g)
BY DEF Load, Normalize

\* A flat file is read as its scalar entries.
LEMMA FlatLoad ==
    ASSUME NEW f, f.shape = "flat"
    PROVE  Load(f) = [k \in {j \in DOMAIN f.top : f.top[j] # Junk} |-> f.top[k]]
BY DEF Load, Normalize

\* No file, an unreadable one and an empty object read as nothing.
LEMMA NothingLoaded ==
    ASSUME NEW f, f.shape \in {"absent", "unreadable"}
    PROVE  Load(f) = EmptyMap
BY DEF Load

\* What a write adds to the top level, and what it leaves.
LEMMA DiscoveredTop ==
    ASSUME NEW f \in FileType, NEW u \in [name : Names, chat : Chats]
    PROVE  LET d == Discovered(Existing(f), u)
               old == Existing(f)
           IN  /\ d \in FileType
               /\ old \in FileType
               /\ d.shape = old.shape
               /\ d.entries = old.entries
               /\ DOMAIN d.top = DOMAIN old.top \cup {u.name, Default}
               /\ \A k \in {u.name, Default} : d.top[k] = u.chat
               /\ \A k \in DOMAIN old.top \ {u.name, Default} : d.top[k] = old.top[k]
<1> DEFINE old == Existing(f)
           t == Put(Put(old.top, Default, u.chat), u.name, u.chat)
<1>1. old \in FileType
  <2>1. EmptyMap \in [{} -> Chats \cup {Junk}]
    BY DEF EmptyMap
  <2>2. EmptyMap \in Maps(Chats \cup {Junk})
    BY <2>1 DEF Maps
  <2>3. <<>> \in Seq(Entry)
    OBVIOUS
  <2> QED
    BY <2>2, <2>3 DEF Existing, Flat, File, FileType, Shapes
<1>2. PICK ks \in SUBSET Keys : old.top \in [ks -> Chats \cup {Junk}]
  BY <1>1 DEF FileType, Maps
<1>3. u.name \in Names /\ u.chat \in Chats
  OBVIOUS
<1>4. /\ DOMAIN t = ks \cup {u.name, Default}
      /\ \A k \in {u.name, Default} : t[k] = u.chat
      /\ \A k \in ks \ {u.name, Default} : t[k] = old.top[k]
  BY <1>2 DEF Put
<1>5. t \in [ks \cup {u.name, Default} -> Chats \cup {Junk}]
  <2>1. t = [k \in ks \cup {u.name, Default} |-> t[k]]
    BY <1>2 DEF Put
  <2>2. \A k \in ks \cup {u.name, Default} : t[k] \in Chats \cup {Junk}
    BY <1>2, <1>3, <1>4
  <2> HIDE DEF t
  <2> QED
    BY <2>1, <2>2
<1>6. t \in Maps(Chats \cup {Junk})
  BY <1>3, <1>5 DEF Maps, Keys
<1>7. Discovered(old, u) = [old EXCEPT !.top = t]
  BY <1>1 DEF Discovered, FileType
<1> HIDE DEF t, old
<1>8. /\ Discovered(old, u) \in FileType /\ Discovered(old, u).top = t
      /\ Discovered(old, u).shape = old.shape /\ Discovered(old, u).entries = old.entries
  BY <1>1, <1>6, <1>7 DEF FileType
<1>9. DOMAIN old.top = ks
  BY <1>2
<1> QED
  BY <1>1, <1>4, <1>8, <1>9 DEF old

\* A set of numbers that is not empty has a least one: what an argument by
\* induction, or by a least counterexample, rests on here.
LEMMA LessRelation == \A m, n \in Nat : m < n => <<m, n>> \in OpToRel(<, Nat)
BY DEF OpToRel

LEMMA LessWellFounded ==
    \E R : IsWellFoundedOn(R, Nat) /\ \A m, n \in Nat : m < n => <<m, n>> \in R
BY LessRelation, NatLessThanWellFounded

LEMMA LeastNumber ==
    ASSUME NEW S \in SUBSET Nat, S # {}
    PROVE  \E n \in S : \A m \in S : n <= m
<1>1. PICK R : IsWellFoundedOn(R, Nat) /\ \A m, n \in Nat : m < n => <<m, n>> \in R
  BY LessWellFounded
<1>2. IsWellFoundedOn(R, Nat) /\ S \subseteq Nat /\ S # {}
  BY <1>1
<1>3. PICK n \in S : \A m \in S : ~(<<m, n>> \in R)
  BY ONLY <1>2, WFMin, Zenon
<1>4. \A m \in S : ~(m < n)
  BY <1>1, <1>3
<1> QED
  BY <1>4

\* The first update with a chat is one.
LEMMA FirstWithChat ==
    ASSUME LogTypes, NEW first \in Nat \ {0}, WithChat(first) # {}
    PROVE  updates[Min(WithChat(first))] \in [name : Names, chat : Chats]
<1>1. WithChat(first) \in SUBSET Nat
  BY DEF WithChat, LogTypes
<1>2. PICK i \in WithChat(first) : \A j \in WithChat(first) : i <= j
  BY <1>1, LeastNumber
<1>3. Min(WithChat(first)) \in WithChat(first)
  BY <1>2 DEF Min
<1> DEFINE i0 == Min(WithChat(first))
<1> HIDE DEF i0
<1>4. i0 \in 1..Len(updates) /\ updates[i0].chat # NoChat
  BY <1>3 DEF WithChat, LogTypes, i0
<1>5. updates[i0] \in Update
  BY <1>4 DEF LogTypes
<1> QED
  BY <1>4, <1>5 DEF Update, i0

LEMMA RoutingUnchanged ==
    ASSUME RoutingInv,
           UNCHANGED <<file, dpc, found, draft, up, directory, chat, wrote, routes, current>>
    PROVE  RoutingInv'
BY DEF RoutingInv, DiscoveryTypes, WriteHides, ReadAsIs, DraftKeepsRoutes, DraftHasFound,
       FileHasWritten

\* What discover-chat finds is a chat; nothing else of the invariant is about
\* a poll.
LEMMA PollKeepsRouting ==
    ASSUME RoutingInv, LogTypes, DiscoverPoll
    PROVE  RoutingInv'
<1>1. /\ UNCHANGED <<file, draft, up, directory, chat, wrote, routes, current>>
      /\ dpc = "poll" /\ dpc' \in {"poll", "found"}
      /\ confirmed' = Confirmed
  BY DEF DiscoverPoll, daemon
<1>2. dpc' = "found" => found' \in [name : Names, chat : Chats]
  <2> SUFFICES ASSUME dpc' = "found"
               PROVE  found' \in [name : Names, chat : Chats]
    OBVIOUS
  <2>1. WithChat(confirmed' + 1) # {} /\ found' = updates[Min(WithChat(confirmed' + 1))]
    BY <1>1 DEF DiscoverPoll
  <2>2. confirmed' + 1 \in Nat \ {0}
    BY <1>1 DEF Confirmed, LogTypes
  <2> QED
    BY <2>1, <2>2, FirstWithChat
<1> QED
  BY <1>1, <1>2 DEF RoutingInv, DiscoveryTypes, WriteHides, ReadAsIs, DraftKeepsRoutes,
                    DraftHasFound, FileHasWritten

\* The draft differs from the file in the found chat's keys alone.
LEMMA TruncateKeepsRouting ==
    ASSUME RoutingInv, DiscoverTruncate
    PROVE  RoutingInv'
<1> DEFINE old == Existing(file)
<1>1. /\ dpc = "found" /\ dpc' = "write" /\ file' = Unreadable /\ ~current'
      /\ draft' = Discovered(old, found)
      /\ UNCHANGED <<found, up, directory, chat, wrote, routes>>
  BY DEF DiscoverTruncate, daemon
<1>2. file \in FileType /\ found \in [name : Names, chat : Chats] /\ routes = Load(file)
  BY <1>1 DEF RoutingInv, DiscoveryTypes, WriteHides
<1>3. /\ draft' \in FileType
      /\ old \in FileType
      /\ draft'.shape = old.shape
      /\ draft'.entries = old.entries
      /\ DOMAIN draft'.top = DOMAIN old.top \cup {found.name, Default}
      /\ \A k \in {found.name, Default} : draft'.top[k] = found.chat
      /\ \A k \in DOMAIN old.top \ {found.name, Default} : draft'.top[k] = old.top[k]
  BY <1>1, <1>2, DiscoveredTop
<1>4. Unreadable \in FileType /\ Unreadable.shape = "unreadable"
  <2>1. EmptyMap \in [{} -> Chats \cup {Junk}]
    BY DEF EmptyMap
  <2>2. EmptyMap \in Maps(Chats \cup {Junk})
    BY <2>1 DEF Maps
  <2> QED
    BY <2>2 DEF Unreadable, File, FileType, Shapes
<1>5. DiscoveryTypes'
  BY <1>1, <1>2, <1>3, <1>4 DEF DiscoveryTypes
<1>6. WriteHides'
  BY <1>1, <1>4 DEF WriteHides
<1>7. ReadAsIs'
  BY <1>1 DEF ReadAsIs
<1>8. DraftHasFound'
  BY <1>1, <1>3 DEF DraftHasFound
<1>9. FileHasWritten'
  BY <1>1, <1>4 DEF RoutingInv, FileHasWritten
<1>10. DraftKeepsRoutes'
  <2> SUFFICES ASSUME NEW n \in DOMAIN routes \cap Names, n # found.name
               PROVE  n \in DOMAIN Load(draft') /\ Load(draft')[n] = routes[n]
    BY <1>1 DEF DraftKeepsRoutes
  <2>1. CASE file.shape \in {"absent", "unreadable"}
    BY <2>1, <1>2, NothingLoaded DEF EmptyMap
  <2>2. CASE file.shape = "nested"
    <3>1. old = file
      BY <2>2 DEF Existing
    <3> QED
      BY <2>2, <3>1, <1>2, <1>3, NestedIgnoresTop
  <2>3. CASE file.shape = "flat"
    <3>1. old = file
      BY <2>3 DEF Existing
    <3>2. n \in DOMAIN file.top /\ file.top[n] # Junk /\ routes[n] = file.top[n]
      <4>1. routes = [k \in {j \in DOMAIN file.top : file.top[j] # Junk} |-> file.top[k]]
        BY <1>2, <2>3, FlatLoad
      <4> QED
        BY <4>1
    <3>3. n # Default
      BY ChatRoutingAssumption
    <3>4. n \in DOMAIN draft'.top /\ draft'.top[n] = file.top[n]
      BY <1>3, <3>1, <3>2, <3>3
    <3>5. draft'.shape = "flat"
      BY <1>3, <2>3, <3>1
    <3> QED
      BY <3>2, <3>4, <3>5, FlatLoad
  <2> QED
    BY <1>2, <2>1, <2>2, <2>3 DEF FileType, Shapes
<1> QED
  BY <1>5, <1>6, <1>7, <1>8, <1>9, <1>10 DEF RoutingInv

LEMMA EmptyFileTypes == {Absent, Unreadable} \subseteq FileType
<1>1. EmptyMap \in [{} -> Chats \cup {Junk}]
  BY DEF EmptyMap
<1>2. EmptyMap \in Maps(Chats \cup {Junk})
  BY <1>1 DEF Maps
<1> QED
  BY <1>2 DEF Absent, Unreadable, File, FileType, Shapes

LEMMA RoutingInvKept ==
    ASSUME RoutingInv, LogTypes, [Next]_vars
    PROVE  RoutingInv'
<1> USE DEF telegram, discovery, daemon
<1>1. CASE \/ \E u \in Update : BotUpdate(u)
           \/ DiscoverPollFails
           \/ UNCHANGED vars
  BY <1>1, RoutingUnchanged DEF BotUpdate, DiscoverPollFails, vars
<1>2. CASE DiscoverOpen
  BY <1>2 DEF DiscoverOpen, RoutingInv, DiscoveryTypes, WriteHides, ReadAsIs, DraftKeepsRoutes,
              DraftHasFound, FileHasWritten
<1>3. CASE DiscoverPoll
  BY <1>3, PollKeepsRouting
<1>4. CASE DiscoverTruncate
  BY <1>4, TruncateKeepsRouting
<1>5. CASE DiscoverWrite
  BY <1>5, EmptyFileTypes
  DEF DiscoverWrite, RoutingInv, DiscoveryTypes, WriteHides, ReadAsIs, DraftKeepsRoutes,
      DraftHasFound, FileHasWritten
<1>6. CASE DiscoverEnds
  BY <1>6, EmptyFileTypes, NothingLoaded
  DEF DiscoverEnds, RoutingInv, DiscoveryTypes, WriteHides, ReadAsIs, DraftKeepsRoutes,
      DraftHasFound, FileHasWritten
<1>7. CASE \E default \in Chats \cup {NoChat} : Start(default)
  BY <1>7 DEF Start, RoutingInv, DiscoveryTypes, WriteHides, ReadAsIs, DraftKeepsRoutes,
              DraftHasFound, FileHasWritten
<1>8. CASE Stop
  BY <1>8 DEF Stop, RoutingInv, DiscoveryTypes, WriteHides, ReadAsIs, DraftKeepsRoutes,
              DraftHasFound, FileHasWritten
<1> QED
  BY <1>1, <1>2, <1>3, <1>4, <1>5, <1>6, <1>7, <1>8 DEF Next

\* Every file a directory may hold at the start is one of the three shapes.
LEMMA RoutingInvInit == Init => RoutingInv
<1> SUFFICES ASSUME Init
             PROVE  RoutingInv
  OBVIOUS
<1>1. file \in FileType
  <2> DEFINE flat == {Flat(top) : top \in Maps(Chats \cup {Junk})}
             nested == {Nested(es) : es \in BoundedSeq(Entry, MaxEntries)}
  <2>1. flat \subseteq FileType
    <3> SUFFICES ASSUME NEW top \in Maps(Chats \cup {Junk})
                 PROVE  Flat(top) \in FileType
      OBVIOUS
    <3> HIDE DEF flat, nested
    <3>1. <<>> \in Seq(Entry)
      OBVIOUS
    <3> QED
      BY <3>1 DEF Flat, File, FileType, Shapes
  <2>2. nested \subseteq FileType
    <3> SUFFICES ASSUME NEW es \in BoundedSeq(Entry, MaxEntries)
                 PROVE  Nested(es) \in FileType
      OBVIOUS
    <3>1. es \in Seq(Entry)
      BY DEF BoundedSeq, SeqOf
    <3>2. EmptyMap \in [{} -> Chats \cup {Junk}]
      BY DEF EmptyMap
    <3>3. EmptyMap \in Maps(Chats \cup {Junk})
      BY <3>2 DEF Maps
    <3> QED
      BY <3>1, <3>3 DEF Nested, File, FileType, Shapes
  <2>3. file \in {Absent, Unreadable} \cup flat \cup nested
    BY DEF Init
  <2> HIDE DEF flat, nested
  <2> QED
    BY <2>1, <2>2, <2>3, EmptyFileTypes
<1> QED
  BY <1>1, EmptyFileTypes
  DEF Init, RoutingInv, DiscoveryTypes, WriteHides, ReadAsIs, DraftKeepsRoutes, DraftHasFound,
      FileHasWritten

-----------------------------------------------------------------------------
(***************************************************************************)
(* The nested shape.  The loop of _normalize_directory is a recursive      *)
(* function; what it computes is shown by the least turn at which it would *)
(* not.                                                                    *)
(***************************************************************************)

\* A bounded set of numbers that is not empty has a greatest one.
LEMMA GreatestNumber ==
    ASSUME NEW N \in Nat, NEW S \in SUBSET (0..N), S # {}
    PROVE  \E n \in S : \A m \in S : m <= n
<1> DEFINE T == {N - m : m \in S}
<1>1. T \in SUBSET Nat /\ T # {}
  <2>1. \A m \in S : N - m \in Nat
    OBVIOUS
  <2> QED
    BY <2>1
<1>2. PICK t \in T : \A m \in T : t <= m
  <2> HIDE DEF T
  <2> QED
    BY <1>1, LeastNumber
<1>3. PICK n \in S : t = N - n
  BY <1>2
<1>4. ASSUME NEW m \in S
      PROVE  m <= n
  <2>1. N - m \in T
    OBVIOUS
  <2>2. N - n <= N - m
    BY <1>2, <1>3, <2>1
  <2> QED
    BY <2>2
<1> QED
  BY <1>4

\* The loop after n turns, as a table of what it has after each.
Table(g, es, n) ==
    g = [i \in 0..n |-> IF i = 0 THEN EmptyMap ELSE Add(g[i - 1], es[i])]

LEMMA NextTable ==
    ASSUME NEW es, NEW n \in Nat, NEW g, Table(g, es, n)
    PROVE  \E h : Table(h, es, n + 1)
<1> DEFINE h == [i \in 0..(n + 1) |-> IF i = n + 1 THEN Add(g[n], es[n + 1]) ELSE g[i]]
<1>1. \A i \in 0..n : g[i] = IF i = 0 THEN EmptyMap ELSE Add(g[i - 1], es[i])
  BY DEF Table
<1>2. \A i \in 0..(n + 1) : h[i] = IF i = 0 THEN EmptyMap ELSE Add(h[i - 1], es[i])
  <2> SUFFICES ASSUME NEW i \in 0..(n + 1)
               PROVE  h[i] = IF i = 0 THEN EmptyMap ELSE Add(h[i - 1], es[i])
    OBVIOUS
  <2>1. CASE i = 0
    BY <2>1, <1>1
  <2>2. CASE i \in 1..n
    BY <2>2, <1>1
  <2>3. CASE i = n + 1
    BY <2>3
  <2> QED
    BY <2>1, <2>2, <2>3
<1>3. h = [i \in 0..(n + 1) |-> h[i]]
  OBVIOUS
<1> HIDE DEF h
<1>4. Table(h, es, n + 1)
  BY <1>2, <1>3 DEF Table
<1> QED
  BY <1>4

\* The recursion is well defined, for lists of every length.
LEMMA TableExists ==
    ASSUME NEW es
    PROVE  \A n \in Nat : \E g : Table(g, es, n)
<1> DEFINE Bad == {n \in Nat : ~\E g : Table(g, es, n)}
<1> SUFFICES ASSUME Bad # {}
             PROVE  FALSE
  OBVIOUS
<1>1. PICK n \in Bad : \A m \in Bad : n <= m
  <2>1. Bad \in SUBSET Nat
    OBVIOUS
  <2> HIDE DEF Bad
  <2> QED
    BY <2>1, LeastNumber
<1>2. CASE n = 0
  <2> DEFINE g0 == [i \in 0..0 |-> EmptyMap]
  <2>1. g0 = [i \in 0..0 |-> IF i = 0 THEN EmptyMap ELSE Add(g0[i - 1], es[i])]
    OBVIOUS
  <2>2. Table(g0, es, 0)
    BY <2>1 DEF Table
  <2> QED
    BY <1>1, <1>2, <2>2
<1>3. CASE n # 0
  <2>1. n - 1 \in Nat /\ n - 1 \notin Bad
    BY <1>1, <1>3
  <2>2. PICK g : Table(g, es, n - 1)
    BY <2>1
  <2>3. \E h : Table(h, es, (n - 1) + 1)
    BY <2>1, <2>2, NextTable
  <2> QED
    BY <1>1, <2>3
<1> QED
  BY <1>2, <1>3

LEMMA FlattenedTable ==
    ASSUME NEW es \in Seq(Entry)
    PROVE  /\ Flattened(es)[0] = EmptyMap
           /\ \A i \in 1..Len(es) : Flattened(es)[i] = Add(Flattened(es)[i - 1], es[i])
<1> DEFINE t == Flattened(es)
<1>1. \E g : Table(g, es, Len(es))
  BY TableExists
<1>2. t = CHOOSE g : Table(g, es, Len(es))
  BY DEF Flattened, Table
<1>3. Table(t, es, Len(es))
  BY <1>1, <1>2
<1> HIDE DEF t
<1>4. \A i \in 0..Len(es) : t[i] = IF i = 0 THEN EmptyMap ELSE Add(t[i - 1], es[i])
  BY <1>3 DEF Table
<1> QED
  BY <1>4 DEF t

\* The entries among the first n that have a chat, and those of a name.
Usable(es, n) == {i \in 1..n : es[i].chat # NoChat}
Of(es, n, name) == {i \in Usable(es, n) : es[i].name = name}

\* What the loop has made of the first n entries.
Reads(map, es, n) ==
    /\ map \in Maps(Chats)
    /\ DOMAIN map = {k \in Names : Of(es, n, k) # {}} \cup {d \in {Default} : Usable(es, n) # {}}
    /\ \A i \in Usable(es, n) :
           (\A j \in Usable(es, n) : i <= j) => map[Default] = es[i].chat
    /\ \A k \in Names : \A i \in Of(es, n, k) :
           (\A j \in Of(es, n, k) : j <= i) => map[k] = es[i].chat

LEMMA PutMap ==
    ASSUME NEW map \in Maps(Chats), NEW who \in Keys, NEW c \in Chats
    PROVE  /\ Put(map, who, c) \in Maps(Chats)
           /\ DOMAIN Put(map, who, c) = DOMAIN map \cup {who}
           /\ Put(map, who, c)[who] = c
           /\ \A k \in DOMAIN map \ {who} : Put(map, who, c)[k] = map[k]
<1>1. PICK ks \in SUBSET Keys : map \in [ks -> Chats]
  BY DEF Maps
<1>2. DOMAIN map = ks
  BY <1>1
<1>3. Put(map, who, c) \in [ks \cup {who} -> Chats]
  BY <1>1, <1>2 DEF Put
<1>4. Put(map, who, c) \in Maps(Chats)
  BY <1>3 DEF Maps
<1> QED
  BY <1>2, <1>4 DEF Put

\* One turn: the first chat stays the default, the last of a name replaces
\* the one before.
LEMMA ReadsNext ==
    ASSUME NEW es \in Seq(Entry), NEW n \in 1..Len(es), NEW map, Reads(map, es, n - 1)
    PROVE  Reads(Add(map, es[n]), es, n)
<1> DEFINE e == es[n]
           first == WithDefault(map, e.chat)
           new == Add(map, e)
<1>1. e \in Entry /\ e.name \in Names \cup {NoName} /\ e.chat \in Chats \cup {NoChat}
  <2>1. es[n] \in Entry
    OBVIOUS
  <2> QED
    BY <2>1 DEF Entry
<1>2. /\ Usable(es, n) = Usable(es, n - 1) \cup {i \in {n} : e.chat # NoChat}
      /\ \A i \in Usable(es, n - 1) : i \in 1..(n - 1)
  BY DEF Usable
<1>3. \A k : /\ Of(es, n, k) = Of(es, n - 1, k) \cup {i \in {n} : e.chat # NoChat /\ e.name = k}
             /\ \A i \in Of(es, n - 1, k) : i \in 1..(n - 1)
  BY <1>2 DEF Of
<1>4. map \in Maps(Chats)
  BY DEF Reads
<1>5. CASE e.chat = NoChat
  <2>1. new = map
    BY <1>5 DEF Add
  <2>2. Usable(es, n) = Usable(es, n - 1) /\ \A k : Of(es, n, k) = Of(es, n - 1, k)
    BY <1>2, <1>3, <1>5
  <2> HIDE DEF new, e
  <2>3. Reads(new, es, n)
    BY <2>1, <2>2 DEF Reads
  <2> QED
    BY <2>3 DEF new, e
<1>6. CASE e.chat # NoChat
  <2>1. e.chat \in Chats /\ Default \in Keys /\ Names \subseteq Keys
    BY <1>1, <1>6 DEF Keys
  <2>2. n \in Usable(es, n) /\ Usable(es, n) = Usable(es, n - 1) \cup {n}
    BY <1>2, <1>6
  <2>3. Default \in DOMAIN map <=> Usable(es, n - 1) # {}
    BY ChatRoutingAssumption DEF Reads
  <2> HIDE DEF e
  <2>4. /\ first \in Maps(Chats)
        /\ DOMAIN first = DOMAIN map \cup {Default}
        /\ \A k \in DOMAIN map : first[k] = map[k]
        /\ Usable(es, n - 1) = {} => first[Default] = e.chat
    <3>1. CASE Default \in DOMAIN map
      BY <3>1, <1>4, <2>3 DEF WithDefault
    <3>2. CASE Default \notin DOMAIN map
      <4>1. first = Put(map, Default, e.chat)
        BY <3>2 DEF WithDefault
      <4> DEFINE put == Put(map, Default, e.chat)
      <4>2. /\ put \in Maps(Chats)
            /\ DOMAIN put = DOMAIN map \cup {Default}
            /\ put[Default] = e.chat
            /\ \A k \in DOMAIN map \ {Default} : put[k] = map[k]
        BY ONLY <1>4, <2>1, PutMap, Zenon
      <4>3. first = put
        BY <4>1
      <4> HIDE DEF first, put
      <4> QED
        BY <3>2, <4>2, <4>3
    <3> QED
      BY <3>1, <3>2
  <2> HIDE DEF first
  <2>5. /\ new \in Maps(Chats)
        /\ DOMAIN new = DOMAIN first \cup {k \in Names : k = e.name}
        /\ e.name \in Names => new[e.name] = e.chat
        /\ \A k \in DOMAIN first : k # e.name => new[k] = first[k]
    <3>1. CASE e.name = NoName
      <4>1. new = first
        BY <3>1, <1>6 DEF Add, first
      <4> QED
        BY <4>1, <3>1, <2>4, ChatRoutingAssumption
    <3>2. CASE e.name # NoName
      <4>1. new = Put(first, e.name, e.chat) /\ e.name \in Names /\ e.name \in Keys
        BY <3>2, <1>1, <1>6, <2>1 DEF Add, first
      <4> DEFINE put == Put(first, e.name, e.chat)
      <4>2. /\ put \in Maps(Chats)
            /\ DOMAIN put = DOMAIN first \cup {e.name}
            /\ put[e.name] = e.chat
            /\ \A k \in DOMAIN first \ {e.name} : put[k] = first[k]
        BY ONLY <4>1, <2>1, <2>4, PutMap, Zenon
      <4>3. new = put
        BY <4>1
      <4> HIDE DEF new, put
      <4> QED
        BY <4>1, <4>2, <4>3
    <3> QED
      BY <3>1, <3>2
  <2> HIDE DEF new
  <2>6. DOMAIN new = {k \in Names : Of(es, n, k) # {}} \cup {d \in {Default} : Usable(es, n) # {}}
    <3>1. DOMAIN map \cup {Default} = {k \in Names : Of(es, n - 1, k) # {}} \cup {Default}
      BY DEF Reads
    <3>2. {k \in Names : Of(es, n, k) # {}}
              = {k \in Names : Of(es, n - 1, k) # {}} \cup {k \in Names : k = e.name}
      BY <1>3, <1>6 DEF e
    <3>3. {d \in {Default} : Usable(es, n) # {}} = {Default}
      BY <2>2
    <3> QED
      BY <2>4, <2>5, <3>1, <3>2, <3>3
  <2>7. ASSUME NEW i \in Usable(es, n), \A j \in Usable(es, n) : i <= j
        PROVE  new[Default] = es[i].chat
    <3>1. Default # e.name /\ Default \in DOMAIN first
      BY <1>1, <2>4, ChatRoutingAssumption
    <3>2. new[Default] = first[Default]
      BY <2>5, <3>1
    <3>3. CASE Usable(es, n - 1) = {}
      BY <2>2, <2>4, <3>2, <3>3 DEF e
    <3>4. CASE Usable(es, n - 1) # {}
      <4>1. PICK j \in Usable(es, n - 1) : TRUE
        BY <3>4
      <4>2. i <= j /\ j < n
        <5>1. j \in 1..(n - 1)
          BY <4>1, <1>2
        <5> QED
          BY <4>1, <5>1, <2>2, <2>7
      <4>3. i \in Usable(es, n - 1)
        <5>1. i \in Usable(es, n - 1) \/ i = n
          BY <2>2, <2>7
        <5> QED
          BY <4>2, <5>1, <1>2
      <4>4. map[Default] = es[i].chat
        BY <4>3, <2>2, <2>7 DEF Reads
      <4> QED
        BY <4>4, <3>2, <2>3, <2>4, <3>4
    <3> QED
      BY <3>3, <3>4
  <2>8. ASSUME NEW k \in Names, NEW i \in Of(es, n, k), \A j \in Of(es, n, k) : j <= i
        PROVE  new[k] = es[i].chat
    <3>1. CASE k = e.name
      <4>1. n \in Of(es, n, k)
        BY <3>1, <1>3, <1>6 DEF e
      <4>2. i = n
        <5>1. n <= i /\ (i = n \/ i \in 1..(n - 1))
          BY <4>1, <2>8, <1>3
        <5> QED
          BY <5>1
      <4> QED
        BY <3>1, <4>2, <2>5 DEF e
    <3>2. CASE k # e.name
      <4>1. Of(es, n, k) = Of(es, n - 1, k)
        BY <1>3, <3>2 DEF e
      <4>2. k \in DOMAIN map /\ map[k] = es[i].chat
        BY <4>1, <2>8 DEF Reads
      <4> QED
        BY <3>2, <4>2, <2>4, <2>5
    <3> QED
      BY <3>1, <3>2
  <2>9. Reads(new, es, n)
    BY <2>5, <2>6, <2>7, <2>8 DEF Reads
  <2> QED
    BY <2>9 DEF new, e
<1> QED
  BY <1>5, <1>6

\* So it is after every turn.
LEMMA FlattenedReads ==
    ASSUME NEW es \in Seq(Entry)
    PROVE  \A n \in 0..Len(es) : Reads(Flattened(es)[n], es, n)
<1> DEFINE Bad == {n \in 0..Len(es) : ~Reads(Flattened(es)[n], es, n)}
<1> SUFFICES ASSUME Bad # {}
             PROVE  FALSE
  OBVIOUS
<1>1. PICK n \in Bad : \A m \in Bad : n <= m
  <2>1. Bad \in SUBSET Nat
    OBVIOUS
  <2> HIDE DEF Bad
  <2> QED
    BY <2>1, LeastNumber
<1>2. CASE n = 0
  <2>1. EmptyMap \in [{} -> Chats] /\ DOMAIN EmptyMap = {}
    BY DEF EmptyMap
  <2>2. EmptyMap \in Maps(Chats)
    BY <2>1 DEF Maps
  <2>3. Usable(es, 0) = {} /\ \A k : Of(es, 0, k) = {}
    BY DEF Usable, Of
  <2>4. Reads(EmptyMap, es, 0)
    BY <2>1, <2>2, <2>3 DEF Reads
  <2> QED
    BY <1>1, <1>2, <2>4, FlattenedTable
<1>3. CASE n # 0
  <2>1. n \in 1..Len(es) /\ n - 1 \in 0..Len(es) /\ n - 1 \notin Bad
    BY <1>1, <1>3
  <2>2. Reads(Flattened(es)[n - 1], es, n - 1)
    BY <2>1
  <2>3. Reads(Add(Flattened(es)[n - 1], es[n]), es, n)
    BY <2>1, <2>2, ReadsNext
  <2>4. Flattened(es)[n] = Add(Flattened(es)[n - 1], es[n])
    BY <2>1, FlattenedTable
  <2> QED
    BY <1>1, <2>3, <2>4
<1> QED
  BY <1>2, <1>3

\* What is read of a nested file, in one expression.
LEMMA NestedLoad ==
    ASSUME NEW f \in FileType, f.shape = "nested"
    PROVE  LET es == f.entries
               usable == {i \in DOMAIN es : es[i].chat # NoChat}
               of(n) == {i \in usable : es[i].name = n}
           IN  Load(f) =
                 [k \in {n \in Names : of(n) # {}} \cup {d \in {Default} : usable # {}} |->
                     IF k = Default THEN es[Min(usable)].chat ELSE es[Max(of(k))].chat]
<1> DEFINE es == f.entries
           usable == {i \in DOMAIN es : es[i].chat # NoChat}
           of(n) == {i \in usable : es[i].name = n}
           D == {n \in Names : of(n) # {}} \cup {d \in {Default} : usable # {}}
           map == Load(f)
<1>1. es \in Seq(Entry) /\ Len(es) \in Nat /\ DOMAIN es = 1..Len(es)
  BY DEF FileType
<1>2. map = Flattened(es)[Len(es)]
  BY DEF Load, Normalize
<1>3. Reads(map, es, Len(es))
  BY <1>1, <1>2, FlattenedReads
<1>4. usable = Usable(es, Len(es)) /\ \A n : of(n) = Of(es, Len(es), n)
  BY <1>1 DEF Usable, Of
<1>5. usable \in SUBSET Nat /\ \A n : of(n) \in SUBSET (0..Len(es))
  BY <1>1
<1> HIDE DEF map, es
<1>6. DOMAIN map = D /\ map = [k \in D |-> map[k]]
  <2>1. DOMAIN map = D
    BY <1>3, <1>4 DEF Reads
  <2>2. map = [k \in DOMAIN map |-> map[k]]
    BY <1>3 DEF Reads, Maps
  <2> QED
    BY <2>1, <2>2
<1> HIDE DEF usable
<1>7. usable # {} => map[Default] = es[Min(usable)].chat
  <2> SUFFICES ASSUME usable # {}
               PROVE  map[Default] = es[Min(usable)].chat
    OBVIOUS
  <2>1. \E i \in usable : \A j \in usable : i <= j
    BY <1>5, LeastNumber
  <2>2. Min(usable) \in usable /\ \A j \in usable : Min(usable) <= j
    BY <2>1 DEF Min
  <2> QED
    BY <2>2, <1>3, <1>4 DEF Reads
<1> HIDE DEF of
<1>8. ASSUME NEW k \in Names, of(k) # {}
      PROVE  map[k] = es[Max(of(k))].chat
  <2>1. \E i \in of(k) : \A j \in of(k) : j <= i
    BY <1>1, <1>5, <1>8, GreatestNumber
  <2>2. Max(of(k)) \in of(k) /\ \A j \in of(k) : j <= Max(of(k))
    BY <2>1 DEF Max
  <2> QED
    BY <2>2, <1>3, <1>4 DEF Reads
<1>9. ASSUME NEW k \in D
      PROVE  map[k] = IF k = Default THEN es[Min(usable)].chat ELSE es[Max(of(k))].chat
  BY <1>7, <1>8, ChatRoutingAssumption
<1>10. map = [k \in D |-> IF k = Default THEN es[Min(usable)].chat ELSE es[Max(of(k))].chat]
  <2> HIDE DEF D
  <2> QED
    BY <1>6, <1>9
<1> QED
  BY <1>10 DEF map, es, usable, of

\* Every file reads as a map from keys to chats.
LEMMA LoadType ==
    ASSUME NEW f \in FileType
    PROVE  Load(f) \in Maps(Chats)
<1>1. CASE f.shape \in {"absent", "unreadable"}
  <2>1. EmptyMap \in [{} -> Chats]
    BY DEF EmptyMap
  <2>2. EmptyMap \in Maps(Chats)
    BY <2>1 DEF Maps
  <2> QED
    BY <1>1, <2>2, NothingLoaded
<1>2. CASE f.shape = "nested"
  <2>1. f.entries \in Seq(Entry)
    BY DEF FileType
  <2>2. Reads(Flattened(f.entries)[Len(f.entries)], f.entries, Len(f.entries))
    BY <2>1, FlattenedReads
  <2>3. Load(f) = Flattened(f.entries)[Len(f.entries)]
    BY <1>2 DEF Load, Normalize
  <2> QED
    BY <2>2, <2>3 DEF Reads
<1>3. CASE f.shape = "flat"
  <2>1. PICK ks \in SUBSET Keys : f.top \in [ks -> Chats \cup {Junk}]
    BY DEF FileType, Maps
  <2> DEFINE ls == {j \in DOMAIN f.top : f.top[j] # Junk}
  <2>2. Load(f) = [k \in ls |-> f.top[k]]
    BY <1>3, FlatLoad
  <2>3. ls \in SUBSET Keys /\ \A k \in ls : f.top[k] \in Chats
    BY <2>1
  <2> HIDE DEF ls
  <2>4. Load(f) \in [ls -> Chats]
    BY <2>2, <2>3
  <2> QED
    BY <2>3, <2>4 DEF Maps
<1> QED
  BY <1>1, <1>2, <1>3 DEF FileType, Shapes

\* The rest of the type invariant: what RoutingInv and ConfirmInv leave open.
ReaderTypes ==
    /\ dpc \in {"off", "poll", "found", "write"}
    /\ found \in Update \cup {Nothing}
    /\ up \in BOOLEAN
    /\ directory \in Maps(Chats)
    /\ chat \in Chats \cup {NoChat}
    /\ wrote \in Update \cup {Nothing}
    /\ routes \in Maps(Chats)
    /\ current \in BOOLEAN

LEMMA ReaderTypesKept ==
    ASSUME ReaderTypes, RoutingInv, RoutingInv', [Next]_vars
    PROVE  ReaderTypes'
<1>1. Load(file) \in Maps(Chats) /\ Load(draft) \in Maps(Chats) /\ EmptyMap \in Maps(Chats)
  BY LoadType, NothingLoaded, EmptyFileTypes DEF RoutingInv, DiscoveryTypes, Absent, File
<1> USE DEF telegram, discovery, daemon
<1>2. [name : Names, chat : Chats] \subseteq Update
  BY DEF Update
<1>3. CASE DiscoverPoll
  <2>1. dpc' = "found" => found' \in Update
    BY <1>2 DEF RoutingInv, DiscoveryTypes
  <2> QED
    BY <1>3, <2>1 DEF DiscoverPoll, ReaderTypes
<1>4. CASE \/ \E u \in Update : BotUpdate(u)
           \/ DiscoverOpen
           \/ DiscoverPollFails
           \/ DiscoverTruncate
           \/ DiscoverEnds
           \/ UNCHANGED vars
  BY <1>1, <1>4
  DEF BotUpdate, DiscoverOpen, DiscoverPollFails, DiscoverTruncate, DiscoverEnds, ReaderTypes, vars
<1>5. CASE DiscoverWrite
  BY <1>1, <1>5 DEF DiscoverWrite, ReaderTypes
<1>6. CASE \E default \in Chats \cup {NoChat} : Start(default)
  BY <1>1, <1>6 DEF Start, ReaderTypes
<1>7. CASE Stop
  BY <1>1, <1>7 DEF Stop, ReaderTypes
<1> QED
  BY <1>3, <1>4, <1>5, <1>6, <1>7 DEF Next

-----------------------------------------------------------------------------
(***************************************************************************)
(* The theorems.                                                           *)
(***************************************************************************)

LEMMA RoutingAlways == Spec => [](ConfirmInv /\ RoutingInv)
<1>1. Init => ConfirmInv /\ RoutingInv
  <2>1. Init => ConfirmInv
    BY DEF Init, ConfirmInv, LogTypes, PassedNoMessage, ConfirmsNoMessage
  <2> QED
    BY <2>1, RoutingInvInit
<1>2. ConfirmInv /\ RoutingInv /\ [Next]_vars => (ConfirmInv /\ RoutingInv)'
  BY InvariantKept, RoutingInvKept DEF ConfirmInv
<1> QED
  BY <1>1, <1>2, PTL DEF Spec

\* send-test reports the chat that a daemon that has read the same file sends
\* a sender's messages to, unless that daemon goes by --default-chat alone.
THEOREM SendTestIsTrue == Spec => []SendTestTruth
<1>1. RoutingInv => SendTestTruth
  BY DEF RoutingInv, ReadAsIs, SendTestTruth, SendTest, GetChat, Lookup, EmptyMap
<1> QED
  BY <1>1, RoutingAlways, PTL

\* A daemon started on a flat file that a discovery has written sends the new
\* label, and whoever the file does not name, to the chat that was found.
THEOREM DiscoveryIsRead == Spec => []DiscoveryTakesEffect
<1>1. RoutingInv => DiscoveryTakesEffect
  <2> SUFFICES ASSUME RoutingInv, up, current, wrote # Nothing, file.shape = "flat",
                      NEW n \in Names, n \notin DOMAIN directory \ {wrote.name}
               PROVE  GetChat(n) = wrote.chat
    BY DEF DiscoveryTakesEffect
  <2>1. directory = [k \in {j \in DOMAIN file.top : file.top[j] # Junk} |-> file.top[k]]
    BY FlatLoad DEF RoutingInv, ReadAsIs
  <2>2. \A k \in {wrote.name, Default} : k \in DOMAIN file.top /\ file.top[k] = wrote.chat
    BY DEF RoutingInv, FileHasWritten
  <2>3. wrote.chat # Junk
    BY ChatRoutingAssumption DEF RoutingInv, FileHasWritten
  <2>4. \A k \in {wrote.name, Default} : k \in DOMAIN directory /\ directory[k] = wrote.chat
    BY <2>1, <2>2, <2>3
  <2> QED
    BY <2>4 DEF GetChat, Lookup
<1> QED
  BY <1>1, RoutingAlways, PTL

\* A discovery redirects nobody but its own label and those the directory
\* does not name, whatever the file was.
THEOREM OtherRoutesKept == Spec => RoutesKept
<1>1. RoutingInv /\ [Next]_vars =>
          [\A n \in DOMAIN routes \cap Names :
               DiscoverWrite => n = found.name
                                  \/ (n \in DOMAIN routes' /\ routes'[n] = routes[n])]_vars
  BY DEF RoutingInv, DraftKeepsRoutes, DiscoverWrite
<1> QED
  BY <1>1, RoutingAlways, PTL DEF Spec, RoutesKept

\* The three programs keep their types; that a nested file of any length
\* reads as a map from keys to chats is the part that is no single step.
THEOREM TypesKept == Spec => []TypeOK
<1>1. Init => ReaderTypes
  <2> SUFFICES ASSUME Init
               PROVE  ReaderTypes
    OBVIOUS
  <2>1. file \in FileType /\ EmptyMap \in Maps(Chats)
    BY RoutingInvInit, EmptyFileTypes, LoadType, NothingLoaded
    DEF RoutingInv, DiscoveryTypes, Absent, File
  <2>2. Load(file) \in Maps(Chats)
    BY <2>1, LoadType
  <2> QED
    BY <2>1, <2>2 DEF Init, ReaderTypes
<1>2. ReaderTypes /\ RoutingInv /\ RoutingInv' /\ [Next]_vars => ReaderTypes'
  BY ReaderTypesKept
<1>3. ConfirmInv /\ RoutingInv /\ ReaderTypes => TypeOK
  BY DEF ConfirmInv, LogTypes, RoutingInv, DiscoveryTypes, FileType, Shapes, ReaderTypes, TypeOK
<1> QED
  BY <1>1, <1>2, <1>3, RoutingAlways, PTL DEF Spec

\* The first entry with a chat becomes "_default", a name means its last such
\* entry, and nothing else is read: for nested files of every length.
THEOREM NestedMeaning == Spec => []FlattenMeaning
<1>1. RoutingInv => FlattenMeaning
  BY NestedLoad DEF RoutingInv, DiscoveryTypes, FlattenMeaning
<1> QED
  BY <1>1, RoutingAlways, PTL

-----------------------------------------------------------------------------
(***************************************************************************)
(* The start of the process (Daemon): which layer its key comes from.      *)
(***************************************************************************)
\* Layer k is the last among the first n files that name the key, 0 for none.
Topmost(files, n, k) ==
    /\ k \in 0 .. n
    /\ k # 0 => files[k] # "absent"
    /\ \A j \in k + 1 .. n : files[j] = "absent"

LEMMA TopmostExists ==
    ASSUME NEW files, NEW n \in Nat
    PROVE  \E k : Topmost(files, n, k)
<1> DEFINE down == {d \in 0 .. n : d = n \/ files[n - d] # "absent"}
<1>1. down \in SUBSET Nat /\ n \in down
  OBVIOUS
<1>2. PICK d \in down : \A e \in down : d <= e
  BY <1>1, LeastNumber
<1>3. d \in 0 .. n /\ (d = n \/ files[n - d] # "absent")
  BY <1>2
<1>4. ASSUME NEW j \in (n - d) + 1 .. n PROVE files[j] = "absent"
  <2>1. n - j \in 0 .. n /\ n - j < d /\ n - (n - j) = j
    BY <1>3
  <2>2. n - j \notin down
    BY <1>2, <1>3, <2>1
  <2> QED
    BY <2>1, <2>2
<1>5. n - d \in 0 .. n /\ (n - d # 0 => d # n)
  BY <1>3
<1>6. Topmost(files, n, n - d)
  BY <1>3, <1>4, <1>5 DEF Topmost
<1> QED
  BY <1>6

LEMMA TopmostUnique ==
    ASSUME NEW files, NEW n \in Nat, NEW k, NEW l, Topmost(files, n, k), Topmost(files, n, l)
    PROVE  k = l
<1>1. ASSUME NEW x, NEW y, Topmost(files, n, x), Topmost(files, n, y) PROVE ~(x < y)
  BY <1>1 DEF Topmost
<1>2. k \in Nat /\ l \in Nat
  BY DEF Topmost
<1> QED
  BY <1>1, <1>2

\* The update file after file, as a function that satisfies its recursion.
Merging(g, files, n) ==
    g = [i \in 0 .. n |-> IF i = 0 THEN 0
                          ELSE IF files[i] = "absent" THEN g[i - 1] ELSE i]

LEMMA MergingExists ==
    ASSUME NEW files, NEW n \in Nat
    PROVE  \E g : Merging(g, files, n)
<1> DEFINE top(i) == CHOOSE k : Topmost(files, i, k)
           g == [i \in 0 .. n |-> top(i)]
<1>1. \A i \in 0 .. n : Topmost(files, i, top(i))
  BY TopmostExists
<1> HIDE DEF top
<1>2. top(0) = 0
  BY <1>1 DEF Topmost
<1>3. ASSUME NEW i \in 1 .. n, files[i] # "absent" PROVE top(i) = i
  <2>1. Topmost(files, i, i)
    BY <1>3 DEF Topmost
  <2> QED
    BY <1>1, <2>1, TopmostUnique
<1>4. ASSUME NEW i \in 1 .. n, files[i] = "absent" PROVE top(i) = top(i - 1)
  <2>1. i - 1 \in 0 .. n
    OBVIOUS
  <2>2. Topmost(files, i - 1, top(i - 1))
    BY <1>1, <2>1
  <2> DEFINE k == top(i - 1)
  <2> HIDE DEF k
  <2>3. Topmost(files, i, k)
    BY <1>4, <2>2 DEF Topmost, k
  <2> QED
    BY <1>1, <2>3, TopmostUnique DEF k
<1>5. \A i \in 0 .. n : g[i] = top(i)
  OBVIOUS
<1>6. \A i \in 0 .. n : g[i] = IF i = 0 THEN 0
                               ELSE IF files[i] = "absent" THEN g[i - 1] ELSE i
  <2> TAKE i \in 0 .. n
  <2>1. CASE i = 0
    BY <1>2, <1>5, <2>1
  <2>2. CASE i # 0 /\ files[i] = "absent"
    BY <1>4, <1>5, <2>2
  <2>3. CASE i # 0 /\ files[i] # "absent"
    BY <1>3, <1>5, <2>3
  <2> QED
    BY <2>1, <2>2, <2>3
<1>7. g = [i \in 0 .. n |-> g[i]]
  OBVIOUS
<1> HIDE DEF g
<1>8. Merging(g, files, n)
  BY <1>6, <1>7 DEF Merging
<1> QED
  BY <1>8

LEMMA MergingTopmost ==
    ASSUME NEW files, NEW n \in Nat, NEW g, Merging(g, files, n)
    PROVE  Topmost(files, n, g[n])
<1> DEFINE wrong == {i \in 0 .. n : ~Topmost(files, i, g[i])}
<1>1. \A i \in 0 .. n : g[i] = IF i = 0 THEN 0
                               ELSE IF files[i] = "absent" THEN g[i - 1] ELSE i
  BY DEF Merging
<1> SUFFICES ASSUME wrong # {} PROVE FALSE
  OBVIOUS
<1>2. PICK i \in wrong : \A j \in wrong : i <= j
  <2>1. wrong \in SUBSET Nat
    OBVIOUS
  <2> QED
    BY <2>1, LeastNumber
<1>3. CASE i = 0
  BY <1>1, <1>2, <1>3 DEF Topmost
<1>4. CASE i # 0 /\ files[i] # "absent"
  BY <1>1, <1>2, <1>4 DEF Topmost
<1>5. CASE i # 0 /\ files[i] = "absent"
  <2>1. i - 1 \in 0 .. n /\ ~(i <= i - 1) /\ i \in 1 .. n
    BY <1>5
  <2>2. Topmost(files, i - 1, g[i - 1])
    BY <1>2, <2>1
  <2>3. g[i] = g[i - 1]
    BY <1>1, <1>5, <2>1
  <2> DEFINE k == g[i - 1]
  <2> HIDE DEF k
  <2>4. Topmost(files, i, k)
    BY <1>5, <2>1, <2>2 DEF Topmost, k
  <2> QED
    BY <1>2, <2>3, <2>4 DEF k
<1> QED
  BY <1>3, <1>4, <1>5

LEMMA MergedIsTopmost ==
    ASSUME NumFiles \in Nat
    PROVE  Topmost(config.files, NumFiles, Merged)
<1> DEFINE g == CHOOSE f : Merging(f, config.files, NumFiles)
<1>1. Merged = g[NumFiles]
  BY DEF Merged, Merging
<1>2. Merging(g, config.files, NumFiles)
  BY MergingExists
<1> HIDE DEF g
<1> QED
  BY <1>1, <1>2, MergingTopmost


\* What KeyIsHighest says of the key, by the configuration alone.
Highest ==
    IF Naming = {} \/ (Max(Naming) <= NumFiles /\ config.files[Max(Naming)] = "empty")
    THEN 0 ELSE Max(Naming)

\* An element that no other exceeds is the greatest one.
LEMMA GreatestIsMax ==
    ASSUME NEW S \in SUBSET Nat, NEW x \in S, \A y \in S : y <= x
    PROVE  Max(S) = x
<1>1. \E m \in S : \A y \in S : m >= y
  OBVIOUS
<1>2. Max(S) \in S /\ Max(S) >= x
  BY <1>1 DEF Max
<1>3. Max(S) <= x
  BY <1>2
<1>4. Max(S) \in Nat /\ x \in Nat
  BY <1>2
<1> QED
  BY <1>2, <1>3, <1>4

LEMMA ResolveIsHighest ==
    ASSUME config \in Configs PROVE Resolve = Highest
<1> DEFINE k == Merged
           names == Naming
<1>0. NumFiles \in Nat
  BY DaemonAssumption
<1>1. Topmost(config.files, NumFiles, k)
  BY <1>0, MergedIsTopmost
<1>2. config.arg \in {"absent", "set"} /\ Arg = NumFiles + 2 /\ Env = NumFiles + 1
  BY DEF Configs, Arg, Env
<1>3. names = {i \in 1 .. NumFiles : config.files[i] # "absent"}
                \cup {i \in {NumFiles + 1} : config.env = "set"}
                \cup {i \in {NumFiles + 2} : config.arg = "set"}
  BY <1>2 DEF Naming
<1>4. Resolve = IF config.arg = "set" THEN NumFiles + 2
                  ELSE IF config.env = "set" THEN NumFiles + 1
                  ELSE IF k # 0 /\ config.files[k] = "empty" THEN 0 ELSE k
  BY <1>2 DEF Resolve
<1>5. Highest = IF names = {} \/ (Max(names) <= NumFiles /\ config.files[Max(names)] = "empty")
                THEN 0 ELSE Max(names)
  BY DEF Highest
<1> HIDE DEF k, names
<1>6. names \in SUBSET Nat
  BY <1>0, <1>3
<1>7. CASE config.arg = "set"
  <2>1. NumFiles + 2 \in names /\ \A y \in names : y <= NumFiles + 2
    BY <1>0, <1>3, <1>7
  <2>2. Max(names) = NumFiles + 2
    BY <1>6, <2>1, GreatestIsMax
  <2> QED
    BY <1>0, <1>4, <1>5, <1>7, <2>1, <2>2
<1>8. CASE config.arg # "set" /\ config.env = "set"
  <2>1. NumFiles + 1 \in names /\ \A y \in names : y <= NumFiles + 1
    BY <1>0, <1>3, <1>8
  <2>2. Max(names) = NumFiles + 1
    BY <1>6, <2>1, GreatestIsMax
  <2> QED
    BY <1>0, <1>4, <1>5, <1>8, <2>1, <2>2
<1>9. CASE config.arg # "set" /\ config.env # "set"
  <2>1. names = {i \in 1 .. NumFiles : config.files[i] # "absent"}
    BY <1>3, <1>9
  <2>2. CASE k = 0
    <3>1. names = {}
      BY <1>1, <2>1, <2>2 DEF Topmost
    <3> QED
      BY <1>4, <1>5, <1>9, <2>2, <3>1
  <2>3. CASE k # 0
    <3>1. k \in names /\ k <= NumFiles /\ \A y \in names : y <= k
      BY <1>1, <2>1, <2>3 DEF Topmost
    <3>2. Max(names) = k
      BY <1>6, <3>1, GreatestIsMax
    <3> QED
      BY <1>4, <1>5, <1>9, <2>3, <3>1, <3>2
  <2> QED
    BY <2>2, <2>3
<1> QED
  BY <1>7, <1>8, <1>9

\* The configuration is fixed, and the key is resolved once from it.
KeyInv == config \in Configs /\ (pc # "credentials" => key = Highest)

LEMMA KeyStep ==
    ASSUME KeyInv, [DaemonNext]_daemonVars
    PROVE  KeyInv'
<1>1. config' = config
  BY DEF DaemonNext, Process, LoadCredentials, FindToken, JobDone, JobRaises,
         JobTimesOut, Run, Exit, JobHangs, FactoryStalls, LoopEnds, daemonVars
<1>2. Highest' = Highest
  BY <1>1 DEF Highest, Naming, Max, Env, Arg
<1>3. CASE LoadCredentials
  <2>1. key' = Resolve
    BY <1>3 DEF LoadCredentials
  <2> QED
    BY <1>1, <1>2, <2>1, ResolveIsHighest DEF KeyInv
<1>4. CASE ~LoadCredentials
  <2>1. key' = key /\ (pc' # "credentials" => pc # "credentials")
    BY <1>4 DEF DaemonNext, Process, FindToken, JobDone, JobRaises, JobTimesOut,
                Run, Exit, JobHangs, FactoryStalls, LoopEnds, daemonVars, End
  <2> QED
    BY <1>1, <1>2, <2>1 DEF KeyInv
<1> QED
  BY <1>3, <1>4

\* The key is that of the highest layer that names it, for any number of files:
\* explicit argument, environment, then the last file, empty or not
\* (load_credentials).
THEOREM KeyOfHighestLayer == DaemonSpec => []KeyIsHighest
<1>1. DaemonInit => KeyInv
  BY DEF DaemonInit, KeyInv
<1>2. KeyInv /\ [DaemonNext]_daemonVars => KeyInv'
  BY KeyStep
<1>3. KeyInv => KeyIsHighest
  BY DEF KeyInv, Highest, KeyIsHighest
<1> QED
  BY <1>1, <1>2, <1>3, PTL DEF DaemonSpec
=============================================================================
