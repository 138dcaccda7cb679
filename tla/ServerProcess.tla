---------------------------- MODULE ServerProcess ----------------------------
(***************************************************************************)
(* The life of a process of the web server: initAuth of auth.js (the       *)
(* master key and the users file of the data directory), the first-run     *)
(* setup of server.js (token, sentinel file, privileged commands) and its  *)
(* graceful shutdown.  Processes share the data directory: those of a      *)
(* cluster, and the old and the new one of a restart.                      *)
(*                                                                         *)
(* A key is named by the process that drew it, a setup token by a number   *)
(* that is never drawn twice.  A file is created and filled in two steps.  *)
(***************************************************************************)
EXTENDS Naturals, FiniteSets

CONSTANTS
    Instances,    \* processes
    BootMax,      \* bound: tokens drawn, that is starts
    Listeners,    \* servers of a process: {"main"} or {"main", "redirect"}
    NoKey,        \* no such file, or no key
    EmptyFile     \* a file that was created and not filled

ASSUME KeyNames ==
    NoKey \notin Instances /\ EmptyFile \notin Instances /\ NoKey # EmptyFile

VARIABLES
    stage,      \* "down", "look", "create", "fill", "users", "up", "closing"
    masterFile,    \* .master_key
    usersKey,   \* the key users.enc is encrypted with
    master,     \* ctx.MASTER_KEY of each process
    sentinel,   \* .setup_complete exists
    token,      \* SETUP_TOKEN of each process, 0 for null
    setup,      \* the setup request each process works on, and its token
    busy,       \* listeners with a request in flight
    phist       \* history: tokens drawn, held by the operator, spent, accepted
                \* after being spent; completions; last exit

bootVars == <<masterFile, usersKey, master>>
setupVars == <<sentinel, setup>>
processVars == <<stage, masterFile, usersKey, master, sentinel, token, setup, busy, phist>>

NoRequest == [at |-> "none", token |-> 0]

Die(p) ==
    /\ stage' = [stage EXCEPT ![p] = "down"]
    /\ master' = [master EXCEPT ![p] = NoKey]
    /\ token' = [token EXCEPT ![p] = 0]
    /\ setup' = [setup EXCEPT ![p] = NoRequest]
    /\ busy' = [busy EXCEPT ![p] = {}]

-----------------------------------------------------------------------------
(* initAuth *)

(* A new process draws its setup token. *)
StartServer(p) ==
    /\ stage[p] = "down" /\ phist.drawn < BootMax
    /\ stage' = [stage EXCEPT ![p] = "look"]
    /\ token' = [token EXCEPT ![p] = phist.drawn + 1]
    /\ phist' = [phist EXCEPT !.drawn = @ + 1]
    /\ UNCHANGED <<bootVars, setupVars, busy>>

(* existsSync, and the key is read: a file that is not 32 bytes long is fatal. *)
KeyLook(p) ==
    /\ stage[p] = "look"
    /\ \/ /\ masterFile = NoKey
          /\ stage' = [stage EXCEPT ![p] = "create"]
          /\ UNCHANGED <<master, token, setup, busy>>
       \/ /\ masterFile \notin {NoKey, EmptyFile}
          /\ stage' = [stage EXCEPT ![p] = "users"]
          /\ master' = [master EXCEPT ![p] = masterFile]
          /\ UNCHANGED <<token, setup, busy>>
       \/ masterFile = EmptyFile /\ Die(p)
    /\ UNCHANGED <<masterFile, usersKey, sentinel, phist>>

(* Mutant of KeyCreate: the file is opened without the flag wx. *)
KeyCreateOver(p) ==
    /\ stage[p] = "create"
    /\ masterFile' = EmptyFile
    /\ stage' = [stage EXCEPT ![p] = "fill"]
    /\ UNCHANGED <<usersKey, master, setupVars, token, busy, phist>>

(* A drawn key is written to a file that must not exist yet. *)
KeyCreate(p) ==
    /\ stage[p] = "create"
    /\ \/ /\ masterFile = NoKey
          /\ masterFile' = EmptyFile
          /\ stage' = [stage EXCEPT ![p] = "fill"]
          /\ UNCHANGED <<master, token, setup, busy>>
       \/ masterFile # NoKey /\ Die(p) /\ UNCHANGED masterFile
    /\ UNCHANGED <<usersKey, sentinel, phist>>

KeyFill(p) ==
    /\ stage[p] = "fill"
    /\ masterFile' = p
    /\ master' = [master EXCEPT ![p] = p]
    /\ stage' = [stage EXCEPT ![p] = "users"]
    /\ UNCHANGED <<usersKey, setupVars, token, busy, phist>>

(* The users file is made when there is none; the rest of initAuth (state  *)
(* store, repository, caches) is private to the process.                   *)
UsersFile(p) ==
    /\ stage[p] = "users"
    /\ usersKey' = IF usersKey = NoKey THEN master[p] ELSE usersKey
    /\ stage' = [stage EXCEPT ![p] = "up"]
    /\ UNCHANGED <<masterFile, master, setupVars, token, busy, phist>>

-----------------------------------------------------------------------------
(* First-run setup *)

(* GET /api/setup-token: the operator, on the same machine, is told it. *)
SetupToken(p) ==
    /\ stage[p] = "up" /\ ~sentinel
    /\ phist' = [phist EXCEPT !.held = @ \cup {token[p]}]
    /\ UNCHANGED <<stage, bootVars, setupVars, token, busy>>

(* requireSetupToken *)
Accepts(p, t) == token[p] # 0 /\ t = token[p]

Presented(p, t, at) ==
    /\ stage[p] = "up" /\ setup[p].at = "none"
    /\ t \in phist.held /\ Accepts(p, t)
    /\ setup' = [setup EXCEPT ![p] = [at |-> at, token |-> t]]
    /\ phist' = [phist EXCEPT !.reused = @ \/ t \in phist.spent]
    /\ UNCHANGED <<stage, bootVars, sentinel, token, busy>>

(* POST /api/setup-complete: refused when the sentinel is there. *)
SetupComplete(p, t) == ~sentinel /\ Presented(p, t, "complete")

(* The sentinel is created, which fails when it exists (410), and the      *)
(* token of this process is invalidated.                                   *)
SentinelWrite(p) ==
    /\ setup[p].at = "complete"
    /\ setup' = [setup EXCEPT ![p] = NoRequest]
    /\ IF sentinel
       THEN UNCHANGED <<sentinel, token, phist>>
       ELSE /\ sentinel' = TRUE
            /\ token' = [token EXCEPT ![p] = 0]
            /\ phist' = [phist EXCEPT !.completed = @ + 1, !.spent = @ \cup {setup[p].token}]
    /\ UNCHANGED <<stage, bootVars, busy>>

(* POST /api/ubuntu-pro/attach and enable-fips: the token is checked, the  *)
(* limiter is awaited, the command runs.                                   *)
ProCommand(p, t) == Presented(p, t, "command")

ProCommandEnds(p) ==
    /\ setup[p].at = "command"
    /\ setup' = [setup EXCEPT ![p] = NoRequest]
    /\ UNCHANGED <<stage, bootVars, sentinel, token, busy, phist>>

-----------------------------------------------------------------------------
(* Serving and stopping *)

Accept(p, l) ==
    /\ stage[p] = "up" /\ l \notin busy[p]
    /\ busy' = [busy EXCEPT ![p] = @ \cup {l}]
    /\ UNCHANGED <<stage, bootVars, setupVars, token, phist>>

Respond(p, l) ==
    /\ stage[p] \in {"up", "closing"} /\ l \in busy[p]
    /\ busy' = [busy EXCEPT ![p] = @ \ {l}]
    /\ UNCHANGED <<stage, bootVars, setupVars, token, phist>>

(* SIGTERM or SIGINT: the listeners close; a second signal adds nothing. *)
gracefulShutdown(p) ==
    /\ stage[p] = "up"
    /\ stage' = [stage EXCEPT ![p] = "closing"]
    /\ UNCHANGED <<bootVars, setupVars, token, busy, phist>>

Exit(p, code) ==
    /\ phist' = [phist EXCEPT !.exit = [code |-> code, busy |-> busy[p]]]
    /\ Die(p)
    /\ UNCHANGED <<masterFile, usersKey, sentinel>>

(* onClosed was called by every listener. *)
AllClosed(p) == busy[p] = {}

CleanExit(p) == stage[p] = "closing" /\ AllClosed(p) /\ Exit(p, 0)

DrainTimeout(p) == stage[p] = "closing" /\ Exit(p, 1)

(* Killed, at any point. *)
Kill(p) ==
    /\ stage[p] # "down" /\ Die(p)
    /\ UNCHANGED <<masterFile, usersKey, sentinel, phist>>

ProcessInit ==
    /\ stage = [p \in Instances |-> "down"]
    /\ masterFile = NoKey /\ usersKey = NoKey
    /\ master = [p \in Instances |-> NoKey]
    /\ sentinel = FALSE
    /\ token = [p \in Instances |-> 0]
    /\ setup = [p \in Instances |-> NoRequest]
    /\ busy = [p \in Instances |-> {}]
    /\ phist = [drawn |-> 0, held |-> {}, spent |-> {}, reused |-> FALSE,
                completed |-> 0, exit |-> [code |-> 1, busy |-> {}]]

ProcessStep(p) ==
    \/ StartServer(p) \/ KeyLook(p) \/ KeyCreate(p) \/ KeyFill(p) \/ UsersFile(p)
    \/ SetupToken(p) \/ SentinelWrite(p) \/ ProCommandEnds(p)
    \/ \E t \in 1..BootMax : SetupComplete(p, t) \/ ProCommand(p, t)
    \/ \E l \in Listeners : Accept(p, l) \/ Respond(p, l)
    \/ gracefulShutdown(p) \/ CleanExit(p) \/ DrainTimeout(p) \/ Kill(p)

ProcessNext == \E p \in Instances : ProcessStep(p)

ProcessSpec == ProcessInit /\ [][ProcessNext]_processVars

-----------------------------------------------------------------------------
(* Properties *)

(* However starts interleave and crash, every process that serves uses one *)
(* and the same master key, the one on disk, and can read the users file:  *)
(* the loser of a race to create the key file dies instead of serving with *)
(* a key of its own.                                                       *)
OneMasterKey ==
    \A p \in Instances :
        stage[p] \in {"up", "closing"} => master[p] = masterFile /\ usersKey = masterFile

(* "A racing double-POST cannot create the sentinel twice." *)
SetupOnce == phist.completed <= 1

(* A setup token that completed the setup is never accepted again, by any  *)
(* process, nor after a restart.                                           *)
SpentTokenRefused == ~phist.reused

(* A process that exits with 0 has answered every request it accepted. *)
CleanExitDrained == phist.exit.code = 0 => phist.exit.busy = {}

(* A process that was told to stop ends, whatever its requests do: the     *)
(* drain timeout sees to it.                                               *)
ShutdownEnds == \A p \in Instances : stage[p] = "closing" ~> stage[p] = "down"

(* The life of the processes, through races, crashes and restarts: one key *)
(* for all, one setup and no second use of its token, no answer cut short. *)
LifecycleSafe ==
    OneMasterKey /\ SetupOnce /\ SpentTokenRefused /\ CleanExitDrained
=============================================================================
