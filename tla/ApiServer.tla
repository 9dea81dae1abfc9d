------------------------------ MODULE ApiServer ------------------------------
(***************************************************************************)
(* The life of the two API servers, src/api.rs: the one on a Unix socket   *)
(* (cmd_run) and the one on TLS (cmd_ssl_run), the commands that start,    *)
(* stop and restart them, and `start`, `stop` and `restart` of all managed *)
(* services (src/main.rs), which run those commands one after the other.   *)
(*                                                                         *)
(* Unlike the daemon (module Daemon) no server takes a lock: a command     *)
(* finds a server by its pid file, and clients find it by its address, the *)
(* socket file or the UDP port.  A socket file outlives its server and is  *)
(* replaced by the next one; a port is free when its process is gone.      *)
(***************************************************************************)
EXTENDS Naturals, Sequences, FiniteSets

CONSTANTS
  Shells,     \* commands that may run at once
  Asked,      \* what may be asked of them: a sequence of a verb and a server
  MaxAsked,   \* bound on the commands
  MaxServers, \* bound on the processes that become a server
  MaxKilled,  \* bound on the servers killed outright
  MaxEdits    \* bound on the edits of the configuration

Kinds == {"unix", "ssl"}
Tasks == [verb : {"start", "stop"}, kind : Kinds]

ASSUME ServersAssumption ==
  /\ {MaxAsked, MaxServers, MaxKilled, MaxEdits} \subseteq Nat
  /\ Asked \subseteq Seq(Tasks) \ {<<>>}

Servers == 1 .. MaxServers \* numbered as they are spawned
NoServer == 0

VARIABLES
  setting,    \* api.enabled: "on", "off", or "broken" when the file does not load
  server,     \* each process: its kind, where it stands, whether SIGTERM came
  pidOf,      \* kind -> the process that the pid file names
  addressOf,  \* kind -> the process that has the address
  shell,      \* each command: what is left to do, where it stands, the pid it read
  asks, kills, edits,
  overlapped  \* history: a command acted on a server that was coming or going

serverVars == <<setting, server, pidOf, addressOf, shell, asks, kills, edits, overlapped>>

Unborn == [kind |-> "none", at |-> "unborn", told |-> FALSE]
AtRest == [todo |-> <<>>, at |-> "rest", pid |-> NoServer]

\* process_alive()
Lives(p) == p # NoServer /\ server[p].at \notin {"unborn", "gone"}

\* A server of the kind lives that no pid file names yet, or any more.
Coming == {"spawned", "clearing", "binding", "bound"}
IsUnsettled(k) ==
  \E p \in Servers : server[p].kind = k /\ server[p].at \in Coming \cup {"unbinding"}

ServerInit ==
  /\ setting = "on"
  /\ server = [p \in Servers |-> Unborn]
  /\ pidOf = [k \in Kinds |-> NoServer]
  /\ addressOf = [k \in Kinds |-> NoServer]
  /\ shell = [s \in Shells |-> AtRest]
  /\ asks = 0 /\ kills = 0 /\ edits = 0
  /\ overlapped = FALSE

----------------------------------------------------------------------------
(* cmd_run() and cmd_ssl_run() *)

KindOf(p) == server[p].kind
Stand(p, from, to) == server[p].at = from /\ server' = [server EXCEPT ![p].at = to]
ByShells == <<shell, asks, kills, edits, overlapped>>

\* api_enabled(): a file that does not load counts as off.
BeginsRun(p) ==
  /\ Stand(p, "spawned", IF setting # "on" THEN "gone"
                         ELSE IF KindOf(p) = "unix" THEN "clearing" ELSE "binding")
  /\ UNCHANGED <<setting, pidOf, addressOf, ByShells>>

\* A socket file that is left is removed, whoever made it.
ClearsSocket(p) ==
  /\ Stand(p, "clearing", "binding")
  /\ addressOf' = [addressOf EXCEPT !["unix"] = NoServer]
  /\ UNCHANGED <<setting, pidOf, ByShells>>

\* bind() fails on an address that is taken, and with it the process.
BindsAddress(p) ==
  LET free == addressOf[KindOf(p)] = NoServer
  IN  /\ Stand(p, "binding", IF free THEN "bound" ELSE "gone")
      /\ addressOf' = IF free THEN [addressOf EXCEPT ![KindOf(p)] = p] ELSE addressOf
      /\ UNCHANGED <<setting, pidOf, ByShells>>

NamesItself(p) ==
  /\ Stand(p, "bound", "serving")
  /\ pidOf' = [pidOf EXCEPT ![KindOf(p)] = p]
  /\ UNCHANGED <<setting, addressOf, ByShells>>

\* shutdown_signal(): TERMINATE, then config::load(), which only pauses when the
\* file does not load, then api_enabled(), which loads it again.
LooksUp(p) ==
  /\ KindOf(p) = "unix"
  /\ \/ server[p].told /\ Stand(p, "serving", "draining")
     \/ ~server[p].told /\ setting # "broken" /\ Stand(p, "serving", "judging")
  /\ UNCHANGED <<setting, pidOf, addressOf, ByShells>>

JudgesSetting(p) ==
  /\ Stand(p, "judging", IF setting = "on" THEN "serving" ELSE "draining")
  /\ UNCHANGED <<setting, pidOf, addressOf, ByShells>>

\* The loops of the TLS server take a file that does not load for a server that
\* is off.
LoopsEnd(p) ==
  /\ KindOf(p) = "ssl"
  /\ server[p].told \/ setting # "on"
  /\ Stand(p, "serving", "draining")
  /\ UNCHANGED <<setting, pidOf, addressOf, ByShells>>

\* The requests under way end, however long they take; a port is closed.
Drained(p) ==
  /\ Stand(p, "draining", "unnaming")
  /\ addressOf' = IF KindOf(p) = "ssl" THEN [addressOf EXCEPT !["ssl"] = NoServer] ELSE addressOf
  /\ UNCHANGED <<setting, pidOf, ByShells>>

\* The pid file is removed if it is its own ...
Unnames(p) ==
  /\ Stand(p, "unnaming", IF KindOf(p) = "unix" THEN "unbinding" ELSE "gone")
  /\ pidOf' = IF pidOf[KindOf(p)] = p THEN [pidOf EXCEPT ![KindOf(p)] = NoServer] ELSE pidOf
  /\ UNCHANGED <<setting, addressOf, ByShells>>

\* ... and the socket file, whoever's it is.
RemovesItsSocket(p) ==
  /\ Stand(p, "unbinding", "gone")
  /\ addressOf' = [addressOf EXCEPT !["unix"] = NoServer]
  /\ UNCHANGED <<setting, pidOf, ByShells>>

\* A kill leaves the files; a port is freed.
ServerKilled(p) ==
  /\ Lives(p) /\ kills < MaxKilled
  /\ kills' = kills + 1
  /\ server' = [server EXCEPT ![p].at = "gone"]
  /\ addressOf' = IF addressOf["ssl"] = p THEN [addressOf EXCEPT !["ssl"] = NoServer] ELSE addressOf
  /\ UNCHANGED <<setting, pidOf, shell, asks, edits, overlapped>>

ServerSteps(p) ==
  \/ BeginsRun(p) \/ ClearsSocket(p) \/ BindsAddress(p) \/ NamesItself(p)
  \/ LooksUp(p) \/ JudgesSetting(p) \/ LoopsEnd(p)
  \/ Drained(p) \/ Unnames(p) \/ RemovesItsSocket(p)
  \/ ServerKilled(p)

----------------------------------------------------------------------------
(* The commands *)

Task(s) == Head(shell[s].todo)
Of(s) == Task(s).kind
ShellAt(s, place) == shell[s].at = place
ShellGoes(s, place) == shell' = [shell EXCEPT ![s].at = place]

\* A command ends, well or not: the next one of the sequence begins.
TaskDone(s) ==
  shell' = [shell EXCEPT ![s] =
    IF Len(@.todo) = 1 THEN AtRest ELSE [todo |-> Tail(@.todo), at |-> "next", pid |-> NoServer]]

ByServers == <<setting, kills, edits>>

AsksFor(s, todo) ==
  /\ ShellAt(s, "rest") /\ asks < MaxAsked
  /\ asks' = asks + 1
  /\ shell' = [shell EXCEPT ![s] = [todo |-> todo, at |-> "next", pid |-> NoServer]]
  /\ UNCHANGED <<server, pidOf, addressOf, overlapped, ByServers>>

\* cmd_start(), cmd_ssl_start(): refused when off, done when the pid file names a
\* live process.
StartJudges(s) ==
  LET goes == setting = "on" /\ ~Lives(pidOf[Of(s)])
  IN  /\ ShellAt(s, "next") /\ Task(s).verb = "start"
      /\ IF goes THEN ShellGoes(s, IF Of(s) = "unix" THEN "rejudging" ELSE "spawning")
                 ELSE TaskDone(s)
      /\ overlapped' = (overlapped \/ (goes /\ IsUnsettled(Of(s))))
      /\ UNCHANGED <<server, pidOf, addressOf, asks, ByServers>>

\* remove_stale_runtime_files() reads the pid file again.
Rejudges(s) ==
  /\ ShellAt(s, "rejudging")
  /\ ShellGoes(s, IF pidOf["unix"] # NoServer /\ ~Lives(pidOf["unix"])
                  THEN "stalePid" ELSE "staleSocket")
  /\ UNCHANGED <<server, pidOf, addressOf, asks, overlapped, ByServers>>

\* A file is removed that names another server, which lives.
TakesFrom(s, p) == Lives(p) /\ p # shell[s].pid

RemovesPidFile(s) ==
  /\ shell[s].at \in {"stalePid", "removingPid"}
  /\ pidOf' = [pidOf EXCEPT ![Of(s)] = NoServer]
  /\ overlapped' = (overlapped \/ TakesFrom(s, pidOf[Of(s)]))
  /\ IF ShellAt(s, "stalePid") THEN ShellGoes(s, "staleSocket")
     ELSE IF Of(s) = "unix" THEN ShellGoes(s, "removingSocket")
     ELSE TaskDone(s)
  /\ UNCHANGED <<server, addressOf, asks, ByServers>>

RemovesSocketFile(s) ==
  /\ shell[s].at \in {"staleSocket", "removingSocket"}
  /\ addressOf' = [addressOf EXCEPT !["unix"] = NoServer]
  /\ overlapped' = (overlapped \/ TakesFrom(s, addressOf["unix"]))
  /\ IF ShellAt(s, "staleSocket") THEN ShellGoes(s, "spawning") ELSE TaskDone(s)
  /\ UNCHANGED <<server, pidOf, asks, ByServers>>

\* The command does not wait for the server to name itself.
SpawnsServer(s) ==
  /\ ShellAt(s, "spawning")
  /\ \E p \in Servers :
       /\ server[p] = Unborn /\ \A q \in 1 .. p - 1 : server[q] # Unborn
       /\ server' = [server EXCEPT ![p] = [kind |-> Of(s), at |-> "spawned", told |-> FALSE]]
  /\ overlapped' = (overlapped \/ IsUnsettled(Of(s)) \/ Lives(pidOf[Of(s)]))
  /\ TaskDone(s)
  /\ UNCHANGED <<pidOf, addressOf, asks, ByServers>>

\* cmd_stop(), cmd_ssl_stop()
StopJudges(s) ==
  LET pid == pidOf[Of(s)]
      to(place) == shell' = [shell EXCEPT ![s].at = place, ![s].pid = pid]
  IN  /\ ShellAt(s, "next") /\ Task(s).verb = "stop"
      /\ IF Lives(pid) THEN to("killing")
         ELSE IF pid # NoServer THEN to("removingPid")
         ELSE IF Of(s) = "unix" THEN to("removingSocket")
         ELSE TaskDone(s)
      /\ UNCHANGED <<server, pidOf, addressOf, asks, overlapped, ByServers>>

\* Mutant of Terminates: the files are removed without waiting for the server's end.
TerminatesAtOnce(s) ==
  /\ ShellAt(s, "killing")
  /\ IF Lives(shell[s].pid)
     THEN /\ server' = [server EXCEPT ![shell[s].pid].told = TRUE]
          /\ ShellGoes(s, "removingPid")
     ELSE TaskDone(s) /\ UNCHANGED server
  /\ UNCHANGED <<pidOf, addressOf, asks, overlapped, ByServers>>

\* kill(SIGTERM), an error when the process has just gone.
Terminates(s) ==
  /\ ShellAt(s, "killing")
  /\ IF Lives(shell[s].pid)
     THEN /\ server' = [server EXCEPT ![shell[s].pid].told = TRUE]
          /\ ShellGoes(s, "polling")
     ELSE TaskDone(s) /\ UNCHANGED server
  /\ UNCHANGED <<pidOf, addressOf, asks, overlapped, ByServers>>

\* The process is awaited for five seconds, which its requests may outlast.
SeesItGone(s) ==
  /\ ShellAt(s, "polling") /\ ~Lives(shell[s].pid)
  /\ ShellGoes(s, "removingPid")
  /\ UNCHANGED <<server, pidOf, addressOf, asks, overlapped, ByServers>>
StopsWaiting(s) ==
  /\ ShellAt(s, "polling") /\ Lives(shell[s].pid)
  /\ TaskDone(s)
  /\ UNCHANGED <<server, pidOf, addressOf, asks, overlapped, ByServers>>

ShellSteps(s) ==
  \/ \E todo \in Asked : AsksFor(s, todo)
  \/ StartJudges(s) \/ Rejudges(s) \/ RemovesPidFile(s) \/ RemovesSocketFile(s)
  \/ SpawnsServer(s)
  \/ StopJudges(s) \/ Terminates(s) \/ SeesItGone(s) \/ StopsWaiting(s)

EditsSetting(to) ==
  /\ edits < MaxEdits /\ setting # to
  /\ edits' = edits + 1 /\ setting' = to
  /\ UNCHANGED <<server, pidOf, addressOf, shell, asks, kills, overlapped>>

ServerNext ==
  \/ \E p \in Servers : ServerSteps(p)
  \/ \E s \in Shells : ShellSteps(s)
  \/ \E to \in {"on", "off", "broken"} : EditsSetting(to)

ServerSpec == ServerInit /\ [][ServerNext]_serverVars

----------------------------------------------------------------------------
(* Properties *)

ServerTypeOK ==
  /\ setting \in {"on", "off", "broken"}
  /\ server \in [Servers ->
       [kind : Kinds \cup {"none"}, told : BOOLEAN,
        at : Coming \cup {"unborn", "serving", "judging", "draining", "unnaming",
                          "unbinding", "gone"}]]
  /\ {pidOf, addressOf} \subseteq [Kinds -> Servers \cup {NoServer}]
  /\ \A s \in Shells : shell[s].pid \in Servers \cup {NoServer}

\* A server that serves is the one that its pid file names and its address leads to,
\* until it has drained, through killed servers, stops that gave up waiting, edits
\* of the configuration and commands at once; except after a start that met a server
\* still coming or just going, or a removal of files that a newer server had made
\* meanwhile (cmd_start, cmd_stop and cmd_run hold no lock).
ServersAreFound ==
  \A p \in Servers :
    ~overlapped /\ server[p].at \in {"serving", "judging", "draining"} =>
      pidOf[KindOf(p)] = p /\ addressOf[KindOf(p)] = p
=============================================================================
