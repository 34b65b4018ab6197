------------------------------- MODULE Bridge -------------------------------
(***************************************************************************)
(* telegram/clawtell_telegram/bridge.py: TelegramBridge binds the adapter  *)
(* to the chat of the latest Telegram update and keeps it in chat.json.    *)
(* Telegram keeps every update until a getUpdates call carries a higher    *)
(* offset; the bridge's offset is in memory only.                          *)
(*                                                                         *)
(* Kept: the order offset, bind, save; what an exception in each of them   *)
(* ends; replay after a restart.  Abstracted: the content of an update     *)
(* down to its chat.                                                       *)
(***************************************************************************)
EXTENDS Naturals, Sequences, FiniteSets, FiniteSetsExt

CONSTANTS
    Chats,       \* chat ids
    NoChat,
    BatchLimit,  \* updates in one answer of getUpdates
    MaxUpdates,  \* bound: updates in all
    MaxCrashes   \* bound: process deaths

BridgeAssumption ==
    /\ NoChat \notin Chats
    /\ BatchLimit \in Nat \ {0}
    /\ MaxUpdates \in Nat
    /\ MaxCrashes \in Nat

VARIABLES
    log,        \* Telegram: the chat of update 1, 2, ... (NoChat: not a message)
    confirmed,  \* Telegram: updates up to here are dropped
    offset,     \* _offset, 0 for None
    chat,       \* adapter._chat
    file,       \* chat.json
    pc,         \* "down", "poll", "handle", "save", "dead" (run() has raised)
    batch       \* updates of the last answer still to handle

(* History. *)
VARIABLES
    chatBy,     \* the update that set `chat`, 0 for none
    fileBy,     \* the update that set `file`
    saved,      \* updates whose chat was written to chat.json
    crashes

server == <<log, confirmed>>
vars == <<log, confirmed, offset, chat, file, pc, batch,
          chatBy, fileBy, saved, crashes>>

Updates == 1 .. Len(log)

\* The type invariant; offset and confirmed never pass the log's end.
TypeOK ==
    /\ log \in Seq(Chats \cup {NoChat})
    /\ confirmed \in 0 .. Len(log)
    /\ offset \in 0 .. Len(log) + 1
    /\ chat \in Chats \cup {NoChat}
    /\ file \in Chats \cup {NoChat}
    /\ pc \in {"down", "poll", "handle", "save", "dead"}
    /\ batch \in Seq(Updates)
    /\ chatBy \in 0 .. Len(log)
    /\ fileBy \in 0 .. Len(log)
    /\ saved \subseteq Updates
    /\ crashes \in 0 .. MaxCrashes

Init ==
    /\ log = <<>>
    /\ confirmed = 0
    /\ offset = 0
    /\ chat = NoChat
    /\ file = NoChat
    /\ pc = "down"
    /\ batch = <<>>
    /\ chatBy = 0
    /\ fileBy = 0
    /\ saved = {}
    /\ crashes = 0

\* Somebody writes to the bot, or Telegram has something without a chat to say.
Write(c) ==
    /\ Len(log) < MaxUpdates
    /\ log' = Append(log, c)
    /\ UNCHANGED <<confirmed, offset, chat, file, pc, batch, chatBy, fileBy, saved, crashes>>

\* Mutant: the persisted chat is not replayed.
AttachForgetful ==
    /\ pc = "down"
    /\ pc' = "poll"
    /\ UNCHANGED <<server, offset, chat, file, batch, chatBy, fileBy, saved, crashes>>

\* attach() replays chat.json, run() starts polling: the other tasks see the chat.
Attach ==
    /\ pc = "down"
    /\ chat' = file
    /\ chatBy' = fileBy
    /\ pc' = "poll"
    /\ UNCHANGED <<server, offset, file, batch, fileBy, saved, crashes>>

\* What Telegram drops on a getUpdates with the current offset.
Confirm == confirmed' = (IF offset = 0 THEN confirmed ELSE Max({confirmed, offset - 1}))

\* How many updates an answer carries.
Answered(from) == Min({BatchLimit, Len(log) - from})

\* _poll_once(): what is not yet confirmed, oldest first.
PollOnce ==
    /\ pc = "poll"
    /\ Confirm
    /\ batch' = [i \in 1 .. Answered(confirmed') |-> confirmed' + i]
    /\ pc' = "handle"
    /\ UNCHANGED <<log, offset, chat, file, chatBy, fileBy, saved, crashes>>

\* The call fails, or its answer is lost; the loop sleeps and polls again.
PollFails ==
    /\ pc = "poll"
    /\ Confirm \/ UNCHANGED confirmed
    /\ UNCHANGED <<log, offset, chat, file, pc, batch, chatBy, fileBy, saved, crashes>>

\* Mutant: only the first chat is bound.
HandleUpdateFirstOnly ==
    /\ pc = "handle"
    /\ batch # <<>>
    /\ batch' = Tail(batch)
    /\ offset' = Head(batch) + 1
    /\ \/ /\ log[Head(batch)] = NoChat \/ chat # NoChat
          /\ UNCHANGED <<chat, chatBy, pc>>
       \/ /\ log[Head(batch)] # NoChat /\ chat = NoChat
          /\ chat' = log[Head(batch)]
          /\ chatBy' = Head(batch)
          /\ pc' = "save"
    /\ UNCHANGED <<server, file, fileBy, saved, crashes>>

\* Mutant: an offset one too high.
HandleUpdateSkipping ==
    /\ pc = "handle"
    /\ batch # <<>>
    /\ batch' = Tail(batch)
    /\ offset' = Head(batch) + 2
    /\ \/ /\ log[Head(batch)] = NoChat
          /\ UNCHANGED <<chat, chatBy, pc>>
       \/ /\ log[Head(batch)] # NoChat
          /\ chat' = log[Head(batch)]
          /\ chatBy' = Head(batch)
          /\ pc' = "save"
    /\ UNCHANGED <<server, file, fileBy, saved, crashes>>

\* _handle_update() up to the save.
HandleUpdate ==
    /\ pc = "handle"
    /\ batch # <<>>
    /\ batch' = Tail(batch)
    /\ offset' = Head(batch) + 1
    /\ \/ /\ log[Head(batch)] = NoChat
          /\ UNCHANGED <<chat, chatBy, pc>>
       \/ /\ log[Head(batch)] # NoChat
          /\ chat' = log[Head(batch)]
          /\ chatBy' = Head(batch)
          /\ pc' = "save"
    /\ UNCHANGED <<server, file, fileBy, saved, crashes>>

\* Mutant: a failed save is passed over.
SaveOrNot ==
    /\ pc = "save"
    /\ pc' = "handle"
    /\ \/ file' = chat /\ fileBy' = chatBy /\ saved' = saved \cup {chatBy}
       \/ UNCHANGED <<file, fileBy, saved>>
    /\ UNCHANGED <<server, offset, chat, batch, chatBy, crashes>>

\* _save_persisted_chat(): a temporary file renamed over chat.json.
Save ==
    /\ pc = "save"
    /\ file' = chat
    /\ fileBy' = chatBy
    /\ saved' = saved \cup {chatBy}
    /\ pc' = "handle"
    /\ UNCHANGED <<server, offset, chat, batch, chatBy, crashes>>

\* Its exception is not caught: run() ends, the chat stays bound.
SaveFails ==
    /\ pc = "save"
    /\ pc' = "dead"
    /\ batch' = <<>>
    /\ UNCHANGED <<server, offset, chat, file, chatBy, fileBy, saved, crashes>>

\* No await inside a batch: other tasks see the chat only now.
BatchDone ==
    /\ pc = "handle"
    /\ batch = <<>>
    /\ pc' = "poll"
    /\ UNCHANGED <<server, offset, chat, file, batch, chatBy, fileBy, saved, crashes>>

\* The process ends, by itself or because run() had died, and starts again.
Crash ==
    /\ pc # "down"
    /\ crashes < MaxCrashes
    /\ crashes' = crashes + 1
    /\ pc' = "down"
    /\ offset' = 0
    /\ chat' = NoChat
    /\ chatBy' = 0
    /\ batch' = <<>>
    /\ UNCHANGED <<server, file, fileBy, saved>>

Bridge == Attach \/ PollOnce \/ HandleUpdate \/ Save \/ BatchDone

Next ==
    \/ Bridge \/ PollFails \/ SaveFails \/ Crash
    \/ \E c \in Chats \cup {NoChat} : Write(c)

Spec == Init /\ [][Next]_vars

-----------------------------------------------------------------------------
(***************************************************************************)
(* Properties.                                                             *)
(***************************************************************************)

\* Telegram drops an update only after its chat reached chat.json, although the
\* offset moves before the save: a save that fails ends the polling.
ConfirmedWasSaved ==
    \A u \in Updates : u <= confirmed /\ log[u] # NoChat => u \in saved

\* When people stop writing and the process is left alone, the last one who
\* wrote is bound and on disk, unless a save failed.
LastWriter == Max({u \in Updates : log[u] # NoChat} \cup {0})

LastWriterWins ==
    <>[](pc = "dead" \/ (chatBy = LastWriter /\ fileBy = LastWriter))
=============================================================================
