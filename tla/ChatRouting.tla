---------------------------- MODULE ChatRouting ----------------------------
(***************************************************************************)
(* Which chat a sender's messages go to: the channel-directory file that   *)
(* discover-chat --write writes, the daemon reads once at its start, and   *)
(* send-test reads again; and ClawTellAdapter.get_chat.  Three processes   *)
(* that share one file: core/clawtell_core/daemon.py, adapter.py.          *)
(*                                                                         *)
(* Kept: the three shapes the file may have and what each reader makes of  *)
(* them, the write that truncates first, the updates Telegram holds until  *)
(* they are confirmed.  Abstracted: JSON text, chat titles (an update      *)
(* carries the label they are reduced to), tokens, printing.               *)
(***************************************************************************)
EXTENDS Naturals, FiniteSets, SequencesExt

CONSTANTS
    Names,       \* sender names and labels
    Default,     \* the key "_default"
    Chats,
    NoChat,      \* None
    NoName,      \* an entry of the nested shape without a name
    Junk,        \* a value of the flat shape that is no scalar
    MaxEntries,  \* bound: entries of the nested shape
    MaxUpdates   \* bound: Telegram updates

ASSUME ChatRoutingAssumption ==
    /\ Default \notin Names
    /\ NoName \notin Names \cup {Default}
    /\ NoChat \notin Chats
    /\ Junk \notin Chats
    /\ MaxEntries \in Nat
    /\ MaxUpdates \in Nat

VARIABLES
    file,        \* channel-directory.json
    updates,     \* Telegram's log: updates with a chat and label, or without
    confirmed,   \* how many of them Telegram has dropped
    dpc,         \* discover-chat: "off", "poll", "found" or "write"
    offset,      \* its next offset, 0 for None
    found,       \* the chat and label it has found
    draft,       \* what write_text() is going to write
    up,          \* the daemon runs
    directory,   \* adapter._directory
    chat         \* adapter._chat

(***************************************************************************)
(* History.                                                                *)
(***************************************************************************)
VARIABLES
    wrote,       \* what the last complete discovery found, if a file holds it
    routes,      \* what a start would read, were no write under way
    current      \* the daemon has read the file as it is

discovery == <<dpc, offset, found, draft>>
daemon == <<up, directory, chat>>
telegram == <<updates, confirmed>>
vars == <<file, updates, confirmed, dpc, offset, found, draft, up, directory,
          chat, wrote, routes, current>>

Keys == Names \cup {Default}
Entry == [name : Names \cup {NoName}, chat : Chats \cup {NoChat}]
Update == [name : Names, chat : Chats \cup {NoChat}]
Maps(values) == UNION {[ks -> values] : ks \in SUBSET Keys}
EmptyMap == [k \in {} |-> NoChat]
Nothing == [name |-> NoName, chat |-> NoChat]

\* top holds the scalar keys beside "platforms", entries its telegram list.
File(shape, top, entries) == [shape |-> shape, top |-> top, entries |-> entries]
Absent == File("absent", EmptyMap, <<>>)
Unreadable == File("unreadable", EmptyMap, <<>>)
Flat(top) == File("flat", top, <<>>)
Nested(entries) == File("nested", EmptyMap, entries)

TypeOK ==
    /\ file.shape \in {"absent", "unreadable", "flat", "nested"}
    /\ file.top \in Maps(Chats \cup {Junk})
    /\ file.entries \in Seq(Entry)
    /\ updates \in Seq(Update)
    /\ confirmed \in 0..Len(updates)
    /\ dpc \in {"off", "poll", "found", "write"}
    /\ offset \in 0..(Len(updates) + 1)
    /\ found \in Update \cup {Nothing}
    /\ draft.top \in Maps(Chats \cup {Junk})
    /\ up \in BOOLEAN
    /\ directory \in Maps(Chats)
    /\ chat \in Chats \cup {NoChat}
    /\ wrote \in Update \cup {Nothing}
    /\ routes \in Maps(Chats)
    /\ current \in BOOLEAN

-----------------------------------------------------------------------------
(***************************************************************************)
(* Reading the file.                                                       *)
(***************************************************************************)
\* map[who] = c
Put(map, who, c) == [k \in DOMAIN map \cup {who} |-> IF k = who THEN c ELSE map[k]]

WithDefault(map, c) == IF Default \in DOMAIN map THEN map ELSE Put(map, Default, c)

\* Mutant: an earlier entry of the same name is kept.
AddKeeping(map, e) ==
    IF e.chat = NoChat THEN map
    ELSE IF e.name \in DOMAIN map \cup {NoName} THEN WithDefault(map, e.chat)
    ELSE Put(WithDefault(map, e.chat), e.name, e.chat)

\* One turn of the loop over the telegram list: a name is overwritten,
\* "_default" is not.
Add(map, e) ==
    IF e.chat = NoChat THEN map
    ELSE IF e.name = NoName THEN WithDefault(map, e.chat)
    ELSE Put(WithDefault(map, e.chat), e.name, e.chat)

\* The map after so many turns.
Flattened(es) ==
    LET map[i \in 0..Len(es)] == IF i = 0 THEN EmptyMap ELSE Add(map[i - 1], es[i])
    IN  map

\* Mutant: the flat shape is taken as it is.
NormalizeAsIs(f) ==
    IF f.shape = "nested" THEN Flattened(f.entries)[Len(f.entries)] ELSE f.top

\* _normalize_directory
Normalize(f) ==
    IF f.shape = "nested"
    THEN Flattened(f.entries)[Len(f.entries)]
    ELSE [k \in {j \in DOMAIN f.top : f.top[j] # Junk} |-> f.top[k]]

\* _load_directory: nothing, when there is no file or none that can be read.
Load(f) == IF f.shape \in {"absent", "unreadable"} THEN EmptyMap ELSE Normalize(f)

\* The lookup that get_chat and send-test both make, with what is left when
\* neither the name nor "_default" is in the directory.
Lookup(map, n, otherwise) ==
    IF n \in DOMAIN map THEN map[n]
    ELSE IF Default \in DOMAIN map THEN map[Default]
    ELSE otherwise

\* adapter.get_chat(n) in the daemon
GetChat(n) == Lookup(directory, n, chat)

\* send-test --to n, without --default-chat; NoChat: it reports an error
SendTest(n) == Lookup(Load(file), n, NoChat)

-----------------------------------------------------------------------------
Init ==
    /\ file \in {Absent, Unreadable}
                  \cup {Flat(top) : top \in Maps(Chats \cup {Junk})}
                  \cup {Nested(es) : es \in BoundedSeq(Entry, MaxEntries)}
    /\ updates = <<>>
    /\ confirmed = 0
    /\ dpc = "off"
    /\ offset = 0
    /\ found = Nothing
    /\ draft = Absent
    /\ up = FALSE
    /\ directory = EmptyMap
    /\ chat = NoChat
    /\ wrote = Nothing
    /\ routes = Load(file)
    /\ current = FALSE

\* Somebody writes to the bot, or something without a chat happens to it.
BotUpdate(u) ==
    /\ Len(updates) < MaxUpdates
    /\ updates' = Append(updates, u)
    /\ UNCHANGED <<file, confirmed, discovery, daemon, wrote, routes, current>>

(***************************************************************************)
(* discover-chat.                                                          *)
(***************************************************************************)
DiscoverOpen ==
    /\ dpc = "off"
    /\ dpc' = "poll"
    /\ offset' = 0
    /\ found' = Nothing
    /\ UNCHANGED <<file, telegram, draft, daemon, wrote, routes, current>>

\* getUpdates with an offset drops everything below it.
Confirmed == IF offset > confirmed + 1 THEN offset - 1 ELSE confirmed

\* Mutant: only the newest update of a batch is looked at.
WithChatNewest(first) ==
    {i \in {Len(updates)} : i >= first /\ updates[i].chat # NoChat}

WithChat(first) == {i \in first..Len(updates) : updates[i].chat # NoChat}

\* The loop over a batch returns at the first update with a chat, and so
\* never confirms it.
DiscoverPoll ==
    /\ dpc = "poll"
    /\ confirmed' = Confirmed
    /\ LET new == WithChat(confirmed' + 1)
       IN  IF new # {}
           THEN /\ found' = updates[Min(new)]
                /\ dpc' = "found"
                /\ UNCHANGED offset
           ELSE /\ offset' = (IF confirmed' < Len(updates) THEN Len(updates) + 1 ELSE offset)
                /\ UNCHANGED <<found, dpc>>
    /\ UNCHANGED <<file, updates, draft, daemon, wrote, routes, current>>

\* The answer is lost or no JSON: the request had its effect.
DiscoverPollFails ==
    /\ dpc = "poll"
    /\ confirmed' = Confirmed
    /\ UNCHANGED <<file, updates, discovery, daemon, wrote, routes, current>>

\* Mutant: the file is written anew.
ExistingForgotten(f) == Flat(EmptyMap)

\* The dictionary that _write_directory starts from.
Existing(f) == IF f.shape \in {"absent", "unreadable"} THEN Flat(EmptyMap) ELSE f

\* Mutant: the chat is written under its label only.
LabelOnly(f, u) == [f EXCEPT !.top = Put(@, u.name, u.chat)]

\* Top-level keys are set, whatever the shape.
Discovered(f, u) == [f EXCEPT !.top = Put(Put(@, Default, u.chat), u.name, u.chat)]

\* write_text() opens the file, which empties it ...
DiscoverTruncate ==
    /\ dpc = "found"
    /\ draft' = Discovered(Existing(file), found)
    /\ file' = Unreadable
    /\ dpc' = "write"
    /\ current' = FALSE
    /\ UNCHANGED <<telegram, offset, found, daemon, wrote, routes>>

\* ... and writes.
DiscoverWrite ==
    /\ dpc = "write"
    /\ file' = draft
    /\ draft' = Absent
    /\ dpc' = "off"
    /\ wrote' = found
    /\ routes' = Load(draft)
    /\ UNCHANGED <<telegram, offset, found, daemon, current>>

\* Without --write, after its deadline, or killed.
DiscoverEnds ==
    /\ dpc \in {"poll", "found", "write"}
    /\ dpc' = "off"
    /\ draft' = Absent
    /\ wrote' = (IF dpc = "write" THEN Nothing ELSE wrote)
    /\ routes' = (IF dpc = "write" THEN EmptyMap ELSE routes)
    /\ UNCHANGED <<file, telegram, offset, found, daemon, current>>

(***************************************************************************)
(* The daemon.                                                             *)
(***************************************************************************)

\* Mutant: --default-chat is bound beside the directory.
StartBindingBoth(default) ==
    /\ ~up
    /\ up' = TRUE
    /\ directory' = Load(file)
    /\ chat' = default
    /\ current' = (dpc # "write")
    /\ UNCHANGED <<file, telegram, discovery, wrote, routes>>

\* The directory, or else --default-chat.
Start(default) ==
    /\ ~up
    /\ up' = TRUE
    /\ directory' = Load(file)
    /\ chat' = (IF Load(file) = EmptyMap THEN default ELSE NoChat)
    /\ current' = (dpc # "write")
    /\ UNCHANGED <<file, telegram, discovery, wrote, routes>>

Stop ==
    /\ up
    /\ up' = FALSE
    /\ directory' = EmptyMap
    /\ chat' = NoChat
    /\ current' = FALSE
    /\ UNCHANGED <<file, telegram, discovery, wrote, routes>>

Next ==
    \/ \E u \in Update : BotUpdate(u)
    \/ DiscoverOpen
    \/ DiscoverPoll
    \/ DiscoverPollFails
    \/ DiscoverTruncate
    \/ DiscoverWrite
    \/ DiscoverEnds
    \/ \E default \in Chats \cup {NoChat} : Start(default)
    \/ Stop

Spec == Init /\ [][Next]_vars

-----------------------------------------------------------------------------
(***************************************************************************)
(* Properties.                                                             *)
(***************************************************************************)

\* What the docstring of _normalize_directory says of the nested shape, for
\* every list: "_default" is the first entry that has a chat, a name means
\* the last entry of that name that has one, and nothing else is there.
FlattenMeaning ==
    file.shape = "nested" =>
        LET es == file.entries
            usable == {i \in DOMAIN es : es[i].chat # NoChat}
            of(n) == {i \in usable : es[i].name = n}
        IN  Load(file) =
                [k \in {n \in Names : of(n) # {}} \cup {d \in {Default} : usable # {}} |->
                    IF k = Default THEN es[Min(usable)].chat ELSE es[Max(of(k))].chat]

\* A daemon started after a complete discover-chat --write sends everybody
\* the directory does not name to the chat that was found, and its label too,
\* whatever --default-chat says.  A file of the nested shape is the exception:
\* there the new top-level keys are written and never read.
DiscoveryTakesEffect ==
    up /\ current /\ wrote # Nothing /\ file.shape = "flat" =>
        \A n \in Names :
            GetChat(n) = wrote.chat \/ n \in DOMAIN directory \ {wrote.name}

\* A discovery redirects nobody but its own label and those who have no name
\* in the directory: all other names keep their chat, in either shape.
RoutesKept ==
    [][\A n \in DOMAIN routes \cap Names :
            DiscoverWrite => n = found.name \/ (n \in DOMAIN routes' /\ routes'[n] = routes[n])]_vars

\* What send-test --to n reports is what a daemon that has read the same file
\* does with n's messages; only a daemon with an empty directory has a chat
\* (of --default-chat) that send-test does not find.
SendTestTruth ==
    up /\ current =>
        \A n \in Names :
            SendTest(n) = GetChat(n) \/ (SendTest(n) = NoChat /\ directory = EmptyMap)

\* discover-chat takes no message away from the bridge that polls after it:
\* whatever it has confirmed to Telegram came from no chat.
ConfirmsNoMessage == \A i \in 1..confirmed : updates[i].chat = NoChat
=============================================================================
