---------------------------- MODULE LiteLLMProxy ----------------------------
(***************************************************************************)
(* The LiteLLM proxies of user-side (scripts/litellm-proxy.sh and          *)
(* maas_ensure_litellm of lib/maas.sh).  Commands in several terminals     *)
(* start, stop and use them; what they share is one generated              *)
(* configuration and one pid file per site, and the port, on which every   *)
(* site listens unless sites.json says otherwise.                          *)
(***************************************************************************)
EXTENDS Naturals, FiniteSets

CONSTANTS
    Terminals,
    Sites,
    Families,
    Port,      \* litellm_port of each site
    MaxProcs,  \* bound on the proxies ever started
    MaxCommands, \* bound on the commands ever typed
    MaxFaults, \* bound on crashes, interrupted scripts and reused pids
    None       \* no pid, no family, no site

Pids == 1 .. MaxProcs

ASSUME BoundAssumption == {MaxProcs, MaxCommands, MaxFaults} \subseteq Nat
ASSUME NoneAssumption == None \notin Pids \cup Families \cup Sites

VARIABLES
    config,   \* the family in .runtime/litellm.<site>.yaml
    pidFile,  \* .runtime/litellm.<site>.pid
    proxy,    \* the proxies started so far, by pid
    reused,   \* pids of dead proxies that the system gave to strangers
    term,     \* the command of each terminal and where it is
    typed,    \* commands typed
    faults,
    \* History.
    clean,    \* sites whose commands never overlapped nor were interrupted
    alone     \* terminals whose start has the port to itself, see ReadyIsOurs

vars == <<config, pidFile, proxy, reused, term, typed, faults, clean, alone>>

(***************************************************************************)
(* A proxy is loading until it has read its configuration and bound the    *)
(* port; on SIGTERM it finishes its requests before it frees the port.     *)
(***************************************************************************)
States == {"none", "loading", "listening", "dying", "dead"}
Unborn == [site |-> None, family |-> None, state |-> "none"]
Dead == [Unborn EXCEPT !.state = "dead"]

Steps == {"idle", "check", "config", "kill", "unlink", "free", "sleep", "spawn",
          "record", "poll", "ready"}
Commands == {"start", "stop", "write-config", "launch"}
Idle == [at |-> "idle", does |-> "start", site |-> None, family |-> None, pid |-> None]

Init ==
    /\ config = [s \in Sites |-> None]
    /\ pidFile = [s \in Sites |-> None]
    /\ proxy = [p \in Pids |-> Unborn]
    /\ reused = {}
    /\ term = [t \in Terminals |-> Idle]
    /\ typed = 0
    /\ faults = 0
    /\ clean = Sites
    /\ alone = {}

----------------------------------------------------------------------------
Live(p) == proxy[p].state \in {"loading", "listening", "dying"}
Holds(p) == proxy[p].state \in {"listening", "dying"}
OnPort(p, s) == proxy[p].site # None /\ Port[proxy[p].site] = Port[s]
Listening(s) == {p \in Pids : proxy[p].state = "listening" /\ OnPort(p, s)}

\* kill -0 with the content of the pid file.
Running(s) == pidFile[s] # None /\ (Live(pidFile[s]) \/ pidFile[s] \in reused)

\* SIGTERM.
Killed(p) ==
    CASE proxy[p].state = "loading" -> Dead
      [] proxy[p].state = "listening" -> [proxy[p] EXCEPT !.state = "dying"]
      [] OTHER -> proxy[p]

At(t, step) == term[t].at = step
Goto(t, step) == term' = [term EXCEPT ![t].at = step]
Leave(t) == term' = [term EXCEPT ![t] = Idle]

\* Terminals that are past writing the configuration of a start.
Starting(t) == term[t].does # "stop" /\ term[t].at \notin {"idle", "check", "config"}

Busy(s) == \E t \in Terminals : term[t].site = s

(***************************************************************************)
(* A command is typed: litellm-proxy.sh start, stop or write-config, or a  *)
(* launcher that makes sure that a proxy is there (maas_ensure_litellm).   *)
(***************************************************************************)
Command(t) ==
    /\ At(t, "idle")
    /\ typed < MaxCommands
    /\ typed' = typed + 1
    /\ \E s \in Sites, f \in Families, does \in Commands :
          /\ term' = [term EXCEPT ![t] =
                [at |-> CASE does \in {"start", "write-config"} -> "config"
                          [] does = "stop" -> "kill"
                          [] does = "launch" -> "check",
                 does |-> does, site |-> s,
                 family |-> IF does = "stop" THEN None ELSE f, pid |-> None]]
          /\ clean' = IF Busy(s) THEN clean \ {s} ELSE clean
    /\ UNCHANGED <<config, pidFile, proxy, reused, faults, alone>>

\* maas_ensure_litellm: any live pid in the file counts as the proxy.
Check(t) ==
    /\ At(t, "check")
    /\ Goto(t, IF Running(term[t].site) THEN "ready" ELSE "config")
    /\ UNCHANGED <<config, pidFile, proxy, reused, typed, faults, clean, alone>>

\* write_config; another start of the site may still need the old one.
WriteConfig(t) ==
    /\ At(t, "config")
    /\ config' = [config EXCEPT ![term[t].site] = term[t].family]
    /\ alone' = {u \in alone : term[u].site # term[t].site} \cup {t}
    /\ IF term[t].does = "write-config" THEN Leave(t) ELSE Goto(t, "kill")
    /\ UNCHANGED <<pidFile, proxy, reused, typed, faults, clean>>

\* Fault: stop removes the pid file of a process it did not kill.
KillForgets(t) ==
    /\ At(t, "kill")
    /\ Goto(t, "unlink")
    /\ UNCHANGED <<config, pidFile, proxy, reused, typed, faults, clean, alone>>

\* start and stop: kill what the pid file names, if it lives.
Kill(t) ==
    LET p == pidFile[term[t].site]
    IN  /\ At(t, "kill")
        /\ IF Running(term[t].site)
           THEN /\ proxy' = [proxy EXCEPT ![p] = Killed(p)]
                /\ reused' = reused \ {p}
                /\ Goto(t, "unlink")
           ELSE /\ IF term[t].does = "stop" THEN Leave(t) ELSE Goto(t, "free")
                /\ UNCHANGED <<proxy, reused>>
        /\ UNCHANGED <<config, pidFile, typed, faults, clean, alone>>

RemovePidFile(t) ==
    /\ At(t, "unlink")
    /\ pidFile' = [pidFile EXCEPT ![term[t].site] = None]
    /\ IF term[t].does = "stop" THEN Leave(t) ELSE Goto(t, "free")
    /\ UNCHANGED <<config, proxy, reused, typed, faults, clean, alone>>

OnPortOf(t) == {p \in Pids : Holds(p) /\ OnPort(p, term[t].site)}
Ending(t) == {p \in OnPortOf(t) : proxy[p].state = "dying"}

\* Fault: what listens on the port without a pid file is left alone.
KillListenersTrustsPidFile(t) ==
    /\ At(t, "free")
    /\ Goto(t, "sleep")
    /\ UNCHANGED <<config, pidFile, proxy, reused, typed, faults, clean, alone>>

\* With lsof: every listener on the port is told to end, whoever started it.
KillListeners(t) ==
    /\ At(t, "free")
    /\ proxy' = [p \in Pids |-> IF p \in Listening(term[t].site) THEN Killed(p) ELSE proxy[p]]
    /\ Goto(t, "sleep")
    /\ UNCHANGED <<config, pidFile, reused, typed, faults, clean, alone>>

\* sleep 1: they have ended by then, or they have not.
Slept(t) ==
    /\ At(t, "sleep")
    /\ alone' = IF Ending(t) = {} THEN alone ELSE alone \ {t}
    /\ Goto(t, "spawn")
    /\ UNCHANGED <<config, pidFile, proxy, reused, typed, faults, clean>>

\* Without lsof in the path of the terminal nothing is done about the port.
NoLsof(t) ==
    /\ At(t, "free")
    /\ alone' = IF OnPortOf(t) = {} THEN alone ELSE alone \ {t}
    /\ Goto(t, "spawn")
    /\ UNCHANGED <<config, pidFile, proxy, reused, typed, faults, clean>>

\* Fault: the process is not the last one put in the background.
SpawnLosesPid(t) ==
    /\ At(t, "spawn")
    /\ \E p \in Pids :
          /\ proxy[p].state = "none"
          /\ proxy' = [proxy EXCEPT ![p] =
                [site |-> term[t].site, family |-> None, state |-> "loading"]]
          /\ Goto(t, "record")
    /\ UNCHANGED <<config, pidFile, reused, typed, faults, clean, alone>>

\* nohup ... & : the process is there, its configuration not read yet.
Spawn(t) ==
    /\ At(t, "spawn")
    /\ \E p \in Pids :
          /\ proxy[p].state = "none"
          /\ \A q \in Pids : q < p => proxy[q].state # "none"
          /\ proxy' = [proxy EXCEPT ![p] =
                [site |-> term[t].site, family |-> None, state |-> "loading"]]
          /\ term' = [term EXCEPT ![t].pid = p, ![t].at = "record"]
    /\ UNCHANGED <<config, pidFile, reused, typed, faults, clean, alone>>

\* echo $! > pid file.
RecordPid(t) ==
    /\ At(t, "record")
    /\ pidFile' = [pidFile EXCEPT ![term[t].site] = term[t].pid]
    /\ Goto(t, "poll")
    /\ UNCHANGED <<config, proxy, reused, typed, faults, clean, alone>>

\* The health check is answered, by whoever has the port; one that is ending
\* may still answer, or not.
Healthy(t) ==
    /\ At(t, "poll")
    /\ OnPortOf(t) # {}
    /\ Goto(t, "ready")
    /\ UNCHANGED <<config, pidFile, proxy, reused, typed, faults, clean, alone>>

\* 30 polls without an answer: exit 1, and the process stays.
GivesUp(t) ==
    /\ At(t, "poll")
    /\ Listening(term[t].site) = {}
    /\ Leave(t)
    /\ UNCHANGED <<config, pidFile, proxy, reused, typed, faults, clean, alone>>

\* No plan for the family, or no API key: exit 1.
Refused(t) ==
    /\ At(t, "config") \/ At(t, "spawn")
    /\ Leave(t)
    /\ UNCHANGED <<config, pidFile, proxy, reused, typed, faults, clean, alone>>

\* The requests of the assessment or of the agent are over.
Done(t) ==
    /\ At(t, "ready")
    /\ Leave(t)
    /\ UNCHANGED <<config, pidFile, proxy, reused, typed, faults, clean, alone>>

\* A start or stop as written, or the part of a launcher before its agent.
Script(t) ==
    \/ Check(t) \/ WriteConfig(t) \/ Kill(t) \/ RemovePidFile(t)
    \/ KillListeners(t) \/ Slept(t) \/ NoLsof(t)
    \/ Spawn(t) \/ RecordPid(t) \/ Healthy(t) \/ GivesUp(t) \/ Refused(t)

----------------------------------------------------------------------------
\* The proxy process, external.  It reads its configuration once.
Load(p) ==
    /\ proxy[p].state = "loading"
    /\ proxy[p].family = None
    /\ config[proxy[p].site] # None
    /\ proxy' = [proxy EXCEPT ![p].family = config[proxy[p].site]]
    /\ UNCHANGED <<config, pidFile, reused, term, typed, faults, clean, alone>>

\* It binds the port, or ends because the port is taken.
Bind(p) ==
    /\ proxy[p].state = "loading"
    /\ proxy[p].family # None
    /\ IF \E q \in Pids : Holds(q) /\ OnPort(q, proxy[p].site)
       THEN /\ proxy' = [proxy EXCEPT ![p] = Dead]
            /\ UNCHANGED alone
       ELSE /\ proxy' = [proxy EXCEPT ![p].state = "listening"]
            /\ alone' = {t \in alone : Starting(t) /\ OnPort(p, term[t].site)
                                          => term[t].pid = p}
    /\ UNCHANGED <<config, pidFile, reused, term, typed, faults, clean>>

Ends(p) ==
    /\ proxy[p].state = "dying"
    /\ proxy' = [proxy EXCEPT ![p] = Dead]
    /\ UNCHANGED <<config, pidFile, reused, term, typed, faults, clean, alone>>

----------------------------------------------------------------------------
Fault == faults < MaxFaults /\ faults' = faults + 1

Crash(p) ==
    /\ Fault
    /\ Live(p)
    /\ proxy' = [proxy EXCEPT ![p] = Dead]
    /\ UNCHANGED <<config, pidFile, reused, term, typed, clean, alone>>

\* The script is interrupted between two of its commands.
Interrupt(t) ==
    /\ Fault
    /\ term[t].at \notin {"idle", "ready"}
    /\ Leave(t)
    /\ clean' = clean \ {term[t].site}
    /\ UNCHANGED <<config, pidFile, proxy, reused, typed, alone>>

\* A pid file survives its process, and the pid is given to another one.
PidReused(p) ==
    /\ Fault
    /\ proxy[p].state = "dead"
    /\ \E s \in Sites : pidFile[s] = p
    /\ p \notin reused
    /\ reused' = reused \cup {p}
    /\ UNCHANGED <<config, pidFile, proxy, term, typed, clean, alone>>

Next ==
    \/ \E t \in Terminals : Command(t) \/ Script(t) \/ Done(t) \/ Interrupt(t)
    \/ \E p \in Pids : Load(p) \/ Bind(p) \/ Ends(p) \/ Crash(p) \/ PidReused(p)

Spec == Init /\ [][Next]_vars

----------------------------------------------------------------------------
TypeOK ==
    /\ config \in [Sites -> Families \cup {None}]
    /\ pidFile \in [Sites -> Pids \cup {None}]
    /\ proxy \in [Pids -> [site : Sites \cup {None}, family : Families \cup {None},
                           state : States]]
    /\ reused \in SUBSET Pids
    /\ term \in [Terminals -> [at : Steps, does : Commands,
                               site : Sites \cup {None}, family : Families \cup {None},
                               pid : Pids \cup {None}]]
    /\ typed \in 0 .. MaxCommands
    /\ faults \in 0 .. MaxFaults
    /\ clean \in SUBSET Sites
    /\ alone \in SUBSET Terminals
    /\ \A p \in Pids : Holds(p) => proxy[p].family \in Families
    /\ \A t \in Terminals : At(t, "poll") => term[t].pid \in Pids

(***************************************************************************)
(* "LiteLLM ready" means the proxy that was asked for: whatever pid files  *)
(* and orphans were there before, what answers on the port after a start   *)
(* is the process it started, with the family it named (litellm-proxy.sh   *)
(* start).  The code gives this to a start                                 *)
(*  - whose configuration no other command rewrote,                        *)
(*  - whose port no other process took between the kill and the answer,    *)
(*  - that found lsof, or no need for it: without it a listener stays, and *)
(*    its answer is taken for that of the new process, and                 *)
(*  - whose listeners needed no longer to end than the second it sleeps:   *)
(*    one that does keeps the port from the new process.                   *)
(* These are the starts in alone.                                          *)
(***************************************************************************)
ReadyIsOurs ==
    \A t \in Terminals :
        At(t, "ready") /\ term[t].pid # None /\ t \in alone =>
            \A p \in OnPortOf(t) :
                /\ p = term[t].pid
                /\ proxy[p].family = term[t].family

(***************************************************************************)
(* No orphans: the live proxies of a site whose commands neither           *)
(* overlapped nor were interrupted are the one in the pid file, one that   *)
(* is ending, and one whose pid is about to be written, so that stop       *)
(* reaches it (the lines around PID_FILE).                                 *)
(***************************************************************************)
NoOrphans ==
    \A s \in clean : \A p \in Pids :
        proxy[p].site = s /\ proxy[p].state \in {"loading", "listening"} =>
            \/ pidFile[s] = p
            \/ \E t \in Terminals : At(t, "record") /\ term[t].pid = p
============================================================================
