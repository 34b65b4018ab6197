------------------------------- MODULE Daemon -------------------------------
(***************************************************************************)
(* The life of one clawtell-forwarder process: core/clawtell_core/config.py*)
(* and _amain() of daemon.py.  It resolves its credentials, finds the bot  *)
(* token, loads the adapter and its factories under a timeout, runs the    *)
(* receive loop until it is told to stop or the loop raises, and ends.     *)
(*                                                                         *)
(* Kept: the layers of the credentials and what an empty value does in     *)
(* each, the exits, the thread a timeout leaves behind.  asyncio.run and   *)
(* the interpreter join the threads of the default executor before the     *)
(* process is gone.  Abstracted: values (a layer stands for its own); the  *)
(* name, which is resolved as the key is; the chats it binds (ChatRouting);*)
(* the receive loop (Subscribe); logging; death by a signal at the start.  *)
(***************************************************************************)
EXTENDS Naturals, Sequences, FiniteSetsExt

CONSTANTS
    NumFiles,    \* credential files, the lowest layer first
    Candidates   \* how many variables may hold the bot token

ASSUME DaemonAssumption ==
    /\ NumFiles \in Nat
    /\ Candidates \in Nat

Var == {"absent", "empty", "set"}

Configs ==
    [files : [1 .. NumFiles -> Var],      \* what each file has for the key
     env : Var,                           \* CLAWTELL_API_KEY
     arg : {"absent", "set"},             \* --api-key
     own : [1 .. Candidates -> Var],      \* this process's environment
     parent : [1 .. Candidates -> Var],   \* /proc/self/environ, /proc/1/environ
     adapter : BOOLEAN,                   \* --adapter, else forward only
     agent : BOOLEAN,                     \* --agent-factory
     graph : BOOLEAN,                     \* --graph-factory
     timed : BOOLEAN]                     \* --factory-timeout > 0

VARIABLES
    config,
    pc,
    key,         \* the layer the key comes from, 0 for none
    token,       \* the candidate the token comes from, 0 for none
    todo,        \* jobs before the receive loop, the current one first
    hung,        \* the job in a thread will never end
    stuck,       \* a thread that will never end was left behind
    code         \* exit status

daemonVars == <<config, pc, key, token, todo, hung, stuck, code>>

Env == NumFiles + 1
Arg == NumFiles + 2

-----------------------------------------------------------------------------
\* Mutant: the first file that names the key keeps it.
MergedFirst ==
    LET layer[i \in 0 .. NumFiles] ==
            IF i = 0 THEN 0
            ELSE IF config.files[i] = "absent" \/ layer[i - 1] # 0 THEN layer[i - 1] ELSE i
    IN  layer[NumFiles]

\* dict.update, file after file: also an empty value replaces what was there.
Merged ==
    LET layer[i \in 0 .. NumFiles] ==
            IF i = 0 THEN 0
            ELSE IF config.files[i] = "absent" THEN layer[i - 1] ELSE i
    IN  layer[NumFiles]

\* load_credentials(): variables and arguments count only if not empty.
Resolve ==
    IF config.arg = "set" THEN Arg
    ELSE IF config.env = "set" THEN Env
    ELSE IF Merged # 0 /\ config.files[Merged] = "empty" THEN 0
    ELSE Merged

\* discover_env_var(): an own variable, empty or not, hides the parent's.
FoundInEnv(c) ==
    config.own[c] = "set" \/ (config.own[c] = "absent" /\ config.parent[c] = "set")

\* _discover_telegram_token
Token == LET found == {c \in 1 .. Candidates : FoundInEnv(c)}
         IN  IF found = {} THEN 0 ELSE Min(found)

End(status) ==
    /\ pc' = "ending"
    /\ code' = status

DaemonInit ==
    /\ config \in Configs
    /\ pc = "credentials"
    /\ key = 0
    /\ token = 0
    /\ todo = <<>>
    /\ hung = FALSE
    /\ stuck = FALSE
    /\ code = 0

LoadCredentials ==
    /\ pc = "credentials"
    /\ key' = Resolve
    /\ \/ key' = 0 /\ End(2)
       \/ key' # 0 /\ pc' = "token" /\ UNCHANGED code
    /\ UNCHANGED <<config, token, todo, hung, stuck>>

\* What has to be imported or built for the adapter that was asked for.
Jobs ==
    IF ~config.adapter THEN <<>>
    ELSE <<"adapter">> \o (IF config.agent THEN <<"agent factory">> ELSE <<>>)
                       \o (IF config.graph THEN <<"graph factory", "graph">> ELSE <<>>)

\* Neither kind of adapter goes without a sender for Telegram.
FindToken ==
    /\ pc = "token"
    /\ token' = Token
    /\ \/ token' = 0 /\ End(2) /\ UNCHANGED todo
       \/ token' # 0 /\ todo' = Jobs /\ pc' = "load" /\ UNCHANGED code
    /\ UNCHANGED <<config, key, hung, stuck>>

\* A job runs in a thread, or without a timeout on the event loop itself.
JobDone ==
    /\ pc = "load"
    /\ todo # <<>>
    /\ ~hung
    /\ todo' = Tail(todo)
    /\ UNCHANGED <<config, pc, key, token, hung, stuck, code>>

\* An exception that _amain() does not catch, the adapter's constructor included.
JobRaises ==
    /\ pc = "load"
    /\ ~hung
    /\ config.adapter
    /\ End(1)
    /\ UNCHANGED <<config, key, token, todo, hung, stuck>>

JobHangs ==
    /\ pc = "load"
    /\ todo # <<>>
    /\ hung' = TRUE
    /\ UNCHANGED <<config, pc, key, token, todo, stuck, code>>

\* Mutant: the graph is built without the timeout.
JobTimesOutUnlessGraph ==
    /\ pc = "load"
    /\ todo # <<>>
    /\ Head(todo) # "graph"
    /\ config.timed
    /\ stuck' = hung
    /\ End(2)
    /\ UNCHANGED <<config, key, token, todo, hung>>

\* wait_for() gives up; the thread goes on, and ends only if the job does.
JobTimesOut ==
    /\ pc = "load"
    /\ todo # <<>>
    /\ config.timed
    /\ stuck' = hung
    /\ End(2)
    /\ UNCHANGED <<config, key, token, todo, hung>>

\* The adapter is made, its chats are bound, subscribe() is called.
Run ==
    /\ pc = "load"
    /\ todo = <<>>
    /\ pc' = "running"
    /\ UNCHANGED <<config, key, token, todo, hung, stuck, code>>

\* HermesAdapter gives up on a factory: see there.
FactoryStalls ==
    /\ pc = "running"
    /\ config.adapter /\ config.agent /\ config.timed
    /\ stuck' = TRUE
    /\ UNCHANGED <<config, pc, key, token, todo, hung, code>>

\* subscribe() returns after a signal, or raises.
LoopEnds ==
    /\ pc = "running"
    /\ \E status \in {0, 1} : End(status)
    /\ UNCHANGED <<config, key, token, todo, hung, stuck>>

\* asyncio.run and sys.exit, once every thread is done.
Exit ==
    /\ pc = "ending"
    /\ ~stuck
    /\ pc' = "exited"
    /\ UNCHANGED <<config, key, token, todo, hung, stuck, code>>

Process == LoadCredentials \/ FindToken \/ JobDone \/ JobRaises \/ JobTimesOut \/ Run \/ Exit

DaemonNext == Process \/ JobHangs \/ FactoryStalls \/ LoopEnds

DaemonSpec == DaemonInit /\ [][DaemonNext]_daemonVars

\* The process runs, and its clock; nobody has to stop it.
DaemonFairSpec == DaemonSpec /\ WF_daemonVars(Process)

-----------------------------------------------------------------------------
(***************************************************************************)
(* Properties.                                                             *)
(***************************************************************************)

\* The key is that of the highest layer that names it, in the order explicit
\* argument, environment, files from the last to the first; an empty variable
\* names nothing, an empty line in a file names no key and hides all below.
Naming == {i \in 1 .. NumFiles : config.files[i] # "absent"}
            \cup {i \in {Env} : config.env = "set"}
            \cup {i \in {Arg} : config.arg = "set"}

KeyIsHighest ==
    pc # "credentials" =>
        key = (IF Naming = {} \/ (Max(Naming) <= NumFiles /\ config.files[Max(Naming)] = "empty")
               THEN 0 ELSE Max(Naming))

\* With a timeout no import and no graph factory holds up the start for ever:
\* the process comes to run or to report why not.  Once it is to end it is
\* gone, unless a thread that hangs was left behind: that one keeps it alive
\* although it has reported its failure.
StartSettles ==
    (config.timed /\ pc # "running")
        ~> (pc \in {"running", "exited"} \/ (pc = "ending" /\ stuck))

(***************************************************************************)
(* What the documentation says of a start that fails, and a run refutes.   *)
(***************************************************************************)

\* docs/troubleshooting.md: a daemon whose import took too long exits at once,
\* as it does after every other failure of the load.
FailedLoadExits == (pc = "ending" /\ todo # <<>>) ~> pc = "exited"
=============================================================================
