------------------------- MODULE LiteLLMProxyProofs -------------------------
(***************************************************************************)
(* LiteLLMProxy proved for any terminals, sites, ports and families: what  *)
(* answers after a start is what was asked for, and no proxy is left       *)
(* without a pid file.                                                     *)
(***************************************************************************)
EXTENDS LiteLLMProxy, TLAPS

Up(p) == proxy[p].state \in {"loading", "listening"}

ProxiesOK == \A p \in Pids : Live(p) => proxy[p].site \in Sites

\* Where the command of a terminal is tells what it has been given, and
\* whether it has started a process.
Before == {"check", "config", "kill", "unlink", "free", "sleep", "spawn"}

TerminalOK(t) ==
    /\ At(t, "idle") => term[t] = Idle
    /\ ~At(t, "idle") => term[t].site \in Sites
    /\ ~At(t, "idle") /\ term[t].does # "stop" => term[t].family \in Families
    /\ term[t].does = "stop" => term[t].at \in {"kill", "unlink"}
    /\ term[t].at \in Before => term[t].pid = None
    /\ term[t].at \in {"record", "poll"} => term[t].pid \in Pids
    /\ term[t].pid # None => proxy[term[t].pid].state # "none"

TerminalsOK == \A t \in Terminals : TerminalOK(t)

(***************************************************************************)
(* A start that is past writing the configuration and has the port to      *)
(* itself: the configuration is still its own; while it sleeps nobody      *)
(* listens on the port, afterwards nobody holds it but its own process,    *)
(* and this has read that configuration if it has read any.                *)
(***************************************************************************)
Freed == {"spawn", "record", "poll", "ready"}

Undisturbed(t) ==
    /\ t \in alone
    /\ term[t].does # "stop"
    /\ term[t].at \in {"kill", "unlink", "free", "sleep"} \cup Freed
    /\ At(t, "ready") => term[t].pid # None

OwnPort(t) ==
    /\ At(t, "sleep") => Listening(term[t].site) = {}
    /\ term[t].at \in Freed => \A p \in OnPortOf(t) : p = term[t].pid

OwnProcess(t) ==
    term[t].pid # None /\ Live(term[t].pid) =>
        /\ proxy[term[t].pid].site = term[t].site
        /\ proxy[term[t].pid].family \in {None, term[t].family}

StartOK(t) ==
    Undisturbed(t) =>
        /\ config[term[t].site] = term[t].family
        /\ OwnPort(t)
        /\ OwnProcess(t)

StartsOK == \A t \in Terminals : StartOK(t)

(***************************************************************************)
(* A site whose commands never overlapped: between the kill and the pid    *)
(* file of the next process nothing is up but that process.                *)
(***************************************************************************)
Replacing(t, s) ==
    term[t].site = s /\ term[t].at \in {"unlink", "free", "sleep", "spawn", "record"}

Recording(t, s, p) == term[t].site = s /\ At(t, "record") /\ term[t].pid = p

Exclusive(s) ==
    \A t, u \in Terminals : term[t].site = s /\ term[u].site = s => t = u

Accounted(s) ==
    \A p \in Pids : proxy[p].site = s /\ Up(p) =>
        IF \E t \in Terminals : Replacing(t, s)
        THEN \E t \in Terminals : Recording(t, s, p)
        ELSE pidFile[s] = p

SitesOK == \A s \in clean : Exclusive(s) /\ Accounted(s)

Inv == TypeOK /\ ProxiesOK /\ TerminalsOK /\ StartsOK /\ SitesOK

----------------------------------------------------------------------------
Proxy == [site : Sites \cup {None}, family : Families \cup {None}, state : States]
CommandOf == [at : Steps, does : Commands, site : Sites \cup {None},
              family : Families \cup {None}, pid : Pids \cup {None}]

LEMMA PidsAreNumbers == \A p \in Pids : p \in Nat
  BY BoundAssumption DEF Pids

LEMMA Typing ==
    ASSUME TypeOK
    PROVE  /\ config \in [Sites -> Families \cup {None}]
           /\ pidFile \in [Sites -> Pids \cup {None}]
           /\ proxy \in [Pids -> Proxy]
           /\ reused \in SUBSET Pids
           /\ term \in [Terminals -> CommandOf]
           /\ typed \in 0 .. MaxCommands /\ faults \in 0 .. MaxFaults
           /\ clean \in SUBSET Sites
           /\ alone \in SUBSET Terminals
  BY DEF TypeOK, Proxy, CommandOf

LEMMA InitInv == Init => Inv
<1> SUFFICES ASSUME Init PROVE Inv
  OBVIOUS
<1>1. Idle \in CommandOf /\ Unborn \in Proxy
  BY DEF Idle, CommandOf, Unborn, Proxy, Steps, Commands, States
<1>2. \A p \in Pids : proxy[p] = Unborn /\ ~Live(p) /\ ~Up(p)
  BY DEF Init, Live, Up, Unborn
<1>3. \A t \in Terminals : term[t] = Idle
  BY DEF Init
<1>4. TypeOK
  <2>1. proxy \in [Pids -> Proxy] /\ term \in [Terminals -> CommandOf]
    BY <1>1 DEF Init
  <2>2. typed \in 0 .. MaxCommands /\ faults \in 0 .. MaxFaults
    BY BoundAssumption DEF Init
  <2>3. \A p \in Pids : ~Holds(p)
    BY <1>2 DEF Unborn, Holds
  <2>4. \A t \in Terminals : ~At(t, "poll")
    BY <1>3 DEF At, Idle
  <2> QED
    BY <2>1, <2>2, <2>3, <2>4 DEF Init, TypeOK, Proxy, CommandOf
<1>5. ProxiesOK
  BY <1>2 DEF ProxiesOK
<1>6. TerminalsOK
  BY <1>3 DEF TerminalsOK, TerminalOK, At, Idle, Before
<1>7. StartsOK
  BY DEF Init, StartsOK, StartOK, Undisturbed
<1>8. SitesOK
  <2>1. \A s \in Sites, t \in Terminals : term[t].site # s
    BY <1>3, NoneAssumption DEF Idle
  <2> QED
    BY <1>2, <2>1 DEF Init, SitesOK, Exclusive, Accounted
<1> QED
  BY <1>4, <1>5, <1>6, <1>7, <1>8 DEF Inv

----------------------------------------------------------------------------
LEMMA TypeStep ==
    ASSUME Inv, [Next]_vars
    PROVE  TypeOK' /\ ProxiesOK' /\ TerminalsOK'
<1> USE NoneAssumption DEF Inv, Holds
<1>1. ASSUME NEW t \in Terminals, Command(t)
      PROVE  TypeOK' /\ ProxiesOK' /\ TerminalsOK'
  <2>1. PICK s \in Sites, f \in Families, does \in Commands :
          /\ term' = [term EXCEPT ![t] =
                [at |-> CASE does \in {"start", "write-config"} -> "config"
                          [] does = "stop" -> "kill"
                          [] does = "launch" -> "check",
                 does |-> does, site |-> s,
                 family |-> IF does = "stop" THEN None ELSE f, pid |-> None]]
          /\ clean' = IF Busy(s) THEN clean \ {s} ELSE clean
    BY <1>1 DEF Command
  <2> QED
    BY <1>1, <2>1, BoundAssumption, Typing
    DEF Command, TypeOK, ProxiesOK, TerminalsOK, TerminalOK, Live, At, Commands, Steps, Before, Idle
<1>2. ASSUME NEW t \in Terminals, Check(t)
      PROVE  TypeOK' /\ ProxiesOK' /\ TerminalsOK'
  BY <1>2, BoundAssumption
  DEF Check, TypeOK, ProxiesOK, TerminalsOK, TerminalOK, Live, At, Commands, Steps, Before, Idle, Goto, Leave, Fault, Running, Killed, Dead, Unborn, States
<1>3. ASSUME NEW t \in Terminals, WriteConfig(t)
      PROVE  TypeOK' /\ ProxiesOK' /\ TerminalsOK'
  <2>1. /\ term[t].site \in Sites /\ term[t].family \in Families
        /\ term[t].at = "config" /\ term[t].does # "stop" /\ term[t].pid = None
    BY <1>3 DEF WriteConfig, TerminalsOK, TerminalOK, At, Before
  <2>2. proxy' = proxy /\ alone' \in SUBSET Terminals
    BY <1>3, Typing DEF WriteConfig
  <2>3. \/ term' = [term EXCEPT ![t] = Idle]
        \/ term' = [term EXCEPT ![t].at = "kill"]
    BY <1>3 DEF WriteConfig, Leave, Goto
  <2>4. TerminalsOK'
    BY <2>1, <2>2, <2>3, Typing DEF TerminalsOK, TerminalOK, At, Before, Idle, CommandOf, Commands, Steps
  <2>5. TypeOK'
    <3>1. term' \in [Terminals -> CommandOf] /\ config' \in [Sites -> Families \cup {None}]
      BY <1>3, <2>1, <2>3, Typing DEF WriteConfig, CommandOf, Idle, Steps, Commands
    <3>2. \A u \in Terminals : At(u, "poll")' => term'[u].pid \in Pids
      BY <2>4 DEF TerminalsOK, TerminalOK, At
    <3>3. \A p \in Pids : Holds(p)' => proxy'[p].family \in Families
      BY <2>2 DEF TypeOK
    <3> QED
      BY <1>3, <2>2, <3>1, <3>2, <3>3, Typing DEF WriteConfig, TypeOK, CommandOf, Proxy
  <2> QED
    BY <2>2, <2>4, <2>5 DEF ProxiesOK, Live
<1>4. ASSUME NEW t \in Terminals, Kill(t)
      PROVE  TypeOK' /\ ProxiesOK' /\ TerminalsOK'
  <2>1. term[t].site \in Sites /\ term[t].at = "kill" /\ term[t].pid = None
    BY <1>4 DEF Kill, TerminalsOK, TerminalOK, At, Before
  <2>2. CASE Running(term[t].site)
    <3> DEFINE q == pidFile[term[t].site]
    <3>1. /\ q \in Pids
          /\ proxy' = [proxy EXCEPT ![q] = Killed(q)]
          /\ reused' = reused \ {q}
          /\ term' = [term EXCEPT ![t].at = "unlink"]
      BY <1>4, <2>1, <2>2, Typing DEF Kill, Running, Goto
    <3>2. Killed(q) \in {Dead, proxy[q], [proxy[q] EXCEPT !.state = "dying"]}
          /\ (Killed(q).state = "none" => proxy[q].state = "none")
          /\ (Killed(q).state \in {"loading", "listening", "dying"} => Live(q))
          /\ (Killed(q) # Dead => Killed(q).site = proxy[q].site)
          /\ (Killed(q).state \in {"listening", "dying"} =>
                 proxy[q].state \in {"listening", "dying"} /\ Killed(q).family = proxy[q].family)
      BY <3>1, Typing DEF Killed, Dead, Unborn, Live, Proxy
    <3>3. Killed(q) \in Proxy
      BY <3>1, <3>2, Typing DEF Dead, Unborn, Proxy, States
    <3> HIDE DEF q
    <3>4. ProxiesOK'
      BY <3>1, <3>2, Typing DEF ProxiesOK, Live, Dead, Unborn, Proxy
    <3>5. TerminalsOK'
      BY <3>1, <3>2, <2>1, Typing DEF TerminalsOK, TerminalOK, At, Before, Idle, CommandOf, Commands, Steps, Proxy
    <3>6. TypeOK'
      BY <1>4, <2>1, <3>1, <3>2, <3>3 DEF Kill, TypeOK, At, Steps, Proxy
    <3> QED
      BY <3>4, <3>5, <3>6
  <2>3. CASE ~Running(term[t].site)
    <3>1. proxy' = proxy /\ reused' = reused
      BY <1>4, <2>3 DEF Kill
    <3>2. IF term[t].does = "stop" THEN term' = [term EXCEPT ![t] = Idle]
                                   ELSE term' = [term EXCEPT ![t].at = "free"]
      BY <1>4, <2>3 DEF Kill, Leave, Goto
    <3>3. TerminalsOK'
      BY <2>1, <3>1, <3>2, Typing DEF TerminalsOK, TerminalOK, At, Before, Idle, CommandOf, Commands, Steps
    <3>4. TypeOK'
      BY <1>4, <2>1, <3>1, <3>2 DEF Kill, TypeOK, At, Idle, Steps, Commands
    <3> QED
      BY <3>1, <3>3, <3>4 DEF ProxiesOK, Live
  <2> QED
    BY <2>2, <2>3
<1>5. ASSUME NEW t \in Terminals, RemovePidFile(t)
      PROVE  TypeOK' /\ ProxiesOK' /\ TerminalsOK'
  <2>1. term[t].site \in Sites /\ term[t].at = "unlink" /\ term[t].pid = None /\ proxy' = proxy
    BY <1>5 DEF RemovePidFile, TerminalsOK, TerminalOK, At, Before
  <2>2. IF term[t].does = "stop" THEN term' = [term EXCEPT ![t] = Idle]
                                 ELSE term' = [term EXCEPT ![t].at = "free"]
    BY <1>5 DEF RemovePidFile, Leave, Goto
  <2>3. TerminalsOK'
    BY <2>1, <2>2, Typing DEF TerminalsOK, TerminalOK, At, Before, Idle, CommandOf, Commands, Steps
  <2>4. TypeOK'
    BY <1>5, <2>1, <2>2 DEF RemovePidFile, TypeOK, At, Idle, Steps, Commands
  <2> QED
    BY <2>1, <2>3, <2>4 DEF ProxiesOK, Live
<1>6. ASSUME NEW t \in Terminals, KillListeners(t) \/ Slept(t) \/ NoLsof(t)
      PROVE  TypeOK' /\ ProxiesOK' /\ TerminalsOK'
  <2>1. \A p \in Pids : proxy'[p] = proxy[p] \/ (proxy[p].state = "listening" /\ proxy'[p] = Killed(p))
    BY <1>6 DEF KillListeners, Slept, NoLsof, Listening
  <2>2. \A p \in Pids :
            /\ proxy'[p] \in Proxy
            /\ proxy'[p].site = proxy[p].site /\ proxy'[p].family = proxy[p].family
            /\ Live(p)' => Live(p)
            /\ Holds(p)' => Holds(p)
            /\ proxy[p].state # "none" => proxy'[p].state # "none"
    <3> SUFFICES ASSUME NEW p \in Pids, proxy[p].state = "listening", proxy'[p] = Killed(p)
                 PROVE  /\ proxy'[p] \in Proxy
                        /\ proxy'[p].site = proxy[p].site /\ proxy'[p].family = proxy[p].family
                        /\ Live(p)' => Live(p)
                        /\ Holds(p)' => Holds(p)
                        /\ proxy[p].state # "none" => proxy'[p].state # "none"
      BY <2>1, Typing DEF Live
    <3>1. proxy'[p] = [proxy[p] EXCEPT !.state = "dying"] /\ proxy[p] \in Proxy
      BY Typing DEF Killed
    <3> QED
      BY <3>1 DEF Proxy, States, Live
  <2>3. proxy' \in [Pids -> Proxy]
    BY <1>6, <2>2, Typing DEF KillListeners, Slept, NoLsof
  <2>4. /\ term[t].at \in {"free", "sleep"}
        /\ \E step \in {"sleep", "spawn"} : term' = [term EXCEPT ![t].at = step]
        /\ UNCHANGED <<config, pidFile, reused, typed, faults, clean>> /\ alone' \in SUBSET Terminals
    BY <1>6, Typing DEF KillListeners, Slept, NoLsof, Goto, At
  <2>5. TypeOK'
    <3>1. term' \in [Terminals -> CommandOf]
      BY <2>4, Typing DEF CommandOf, Steps
    <3>2. \A u \in Terminals : At(u, "poll")' => term'[u].pid \in Pids
      BY <2>4, Typing DEF TypeOK, At, CommandOf
    <3>3. \A p \in Pids : Holds(p)' => proxy'[p].family \in Families
      BY <2>2 DEF TypeOK
    <3> QED
      BY <2>3, <2>4, <3>1, <3>2, <3>3, Typing DEF TypeOK, CommandOf, Proxy
  <2>6. ProxiesOK'
    BY <2>2 DEF ProxiesOK
  <2>7. TerminalsOK'
    BY <2>2, <2>4, Typing DEF TerminalsOK, TerminalOK, At, Before, Idle, CommandOf, Commands, Steps
  <2> QED
    BY <2>5, <2>6, <2>7
<1>7. ASSUME NEW t \in Terminals, Spawn(t)
      PROVE  TypeOK' /\ ProxiesOK' /\ TerminalsOK'
  <2>1. PICK p \in Pids :
          /\ proxy[p].state = "none"
          /\ proxy' = [proxy EXCEPT ![p] =
                [site |-> term[t].site, family |-> None, state |-> "loading"]]
          /\ term' = [term EXCEPT ![t].pid = p, ![t].at = "record"]
    BY <1>7 DEF Spawn
  <2>2. term[t].site \in Sites /\ term[t].at = "spawn" /\ term[t].does # "stop"
    BY <1>7 DEF Spawn, TerminalsOK, TerminalOK, At
  <2>3. TypeOK'
    BY <1>7, <2>1, <2>2 DEF Spawn, TypeOK, Live, At, Steps, States
  <2>4. ProxiesOK'
    BY <2>1, <2>2, Typing DEF ProxiesOK, Live, Proxy
  <2>5. TerminalsOK'
    BY <2>1, <2>2, Typing DEF TerminalsOK, TerminalOK, At, Before, Idle, CommandOf, Commands, Steps, Proxy
  <2> QED
    BY <2>3, <2>4, <2>5
<1>8. ASSUME NEW t \in Terminals, RecordPid(t)
      PROVE  TypeOK' /\ ProxiesOK' /\ TerminalsOK'
  <2>1. /\ term[t].site \in Sites /\ term[t].at = "record"
        /\ term[t].does # "stop" /\ term[t].pid \in Pids
    BY <1>8 DEF RecordPid, TerminalsOK, TerminalOK, At
  <2>2. TypeOK'
    BY <1>8, <2>1 DEF RecordPid, Goto, TypeOK, Live, At, Steps
  <2>3. ProxiesOK'
    BY <1>8 DEF RecordPid, ProxiesOK, Live
  <2>4. TerminalsOK'
    BY <1>8, <2>1, Typing
    DEF RecordPid, Goto, TerminalsOK, TerminalOK, At, Before, Idle, CommandOf, Commands, Steps
  <2> QED
    BY <2>2, <2>3, <2>4
<1>9. ASSUME NEW t \in Terminals, Healthy(t)
      PROVE  TypeOK' /\ ProxiesOK' /\ TerminalsOK'
  BY <1>9, BoundAssumption
  DEF Healthy, TypeOK, ProxiesOK, TerminalsOK, TerminalOK, Live, At, Commands, Steps, Before, Idle, Goto, Leave, Fault, Running, Killed, Dead, Unborn, States
<1>10. ASSUME NEW t \in Terminals, GivesUp(t)
      PROVE  TypeOK' /\ ProxiesOK' /\ TerminalsOK'
  BY <1>10, BoundAssumption
  DEF GivesUp, TypeOK, ProxiesOK, TerminalsOK, TerminalOK, Live, At, Commands, Steps, Before, Idle, Goto, Leave, Fault, Running, Killed, Dead, Unborn, States
<1>11. ASSUME NEW t \in Terminals, Refused(t)
      PROVE  TypeOK' /\ ProxiesOK' /\ TerminalsOK'
  BY <1>11, BoundAssumption
  DEF Refused, TypeOK, ProxiesOK, TerminalsOK, TerminalOK, Live, At, Commands, Steps, Before, Idle, Goto, Leave, Fault, Running, Killed, Dead, Unborn, States
<1>12. ASSUME NEW t \in Terminals, Done(t)
      PROVE  TypeOK' /\ ProxiesOK' /\ TerminalsOK'
  BY <1>12, BoundAssumption
  DEF Done, TypeOK, ProxiesOK, TerminalsOK, TerminalOK, Live, At, Commands, Steps, Before, Idle, Goto, Leave, Fault, Running, Killed, Dead, Unborn, States
<1>13. ASSUME NEW t \in Terminals, Interrupt(t)
      PROVE  TypeOK' /\ ProxiesOK' /\ TerminalsOK'
  BY <1>13, BoundAssumption
  DEF Interrupt, TypeOK, ProxiesOK, TerminalsOK, TerminalOK, Live, At, Commands, Steps, Before, Idle, Goto, Leave, Fault, Running, Killed, Dead, Unborn, States
<1>14. ASSUME NEW p \in Pids, Load(p)
      PROVE  TypeOK' /\ ProxiesOK' /\ TerminalsOK'
  BY <1>14, BoundAssumption
  DEF Load, TypeOK, ProxiesOK, TerminalsOK, TerminalOK, Live, At, Commands, Steps, Before, Idle, Fault, Dead, Unborn, States
<1>15. ASSUME NEW p \in Pids, Bind(p)
      PROVE  TypeOK' /\ ProxiesOK' /\ TerminalsOK'
  <2>1. /\ proxy[p] \in Proxy /\ proxy[p].state = "loading" /\ proxy[p].family \in Families
        /\ UNCHANGED <<config, pidFile, reused, term, typed, faults, clean>>
        /\ alone' \in SUBSET Terminals
        /\ \E q \in {Dead, [proxy[p] EXCEPT !.state = "listening"]} : proxy' = [proxy EXCEPT ![p] = q]
    BY <1>15, Typing DEF Bind, Proxy
  <2>2. PICK q \in {Dead, [proxy[p] EXCEPT !.state = "listening"]} : proxy' = [proxy EXCEPT ![p] = q]
    BY <2>1
  <2>3. /\ q \in Proxy /\ q.state \in {"dead", "listening"}
        /\ q.state = "listening" => q.site = proxy[p].site /\ q.family \in Families
    BY <2>1, <2>2 DEF Proxy, Dead, Unborn, States
  <2>4. proxy' \in [Pids -> Proxy] /\ \A r \in Pids : proxy'[r] = IF r = p THEN q ELSE proxy[r]
    BY <2>2, <2>3, Typing
  <2>5. \A r \in Pids : Holds(r)' => proxy'[r].family \in Families
    BY <2>3, <2>4 DEF TypeOK
  <2>6. TypeOK'
    BY <2>1, <2>4, <2>5 DEF TypeOK, Proxy, At
  <2>7. ProxiesOK'
    BY <2>1, <2>3, <2>4 DEF ProxiesOK, Live
  <2>8. TerminalsOK'
    BY <2>1, <2>3, <2>4, Typing DEF TerminalsOK, TerminalOK, At, CommandOf
  <2> QED
    BY <2>6, <2>7, <2>8
<1>16. ASSUME NEW p \in Pids, Ends(p)
      PROVE  TypeOK' /\ ProxiesOK' /\ TerminalsOK'
  BY <1>16, BoundAssumption
  DEF Ends, TypeOK, ProxiesOK, TerminalsOK, TerminalOK, Live, At, Commands, Steps, Before, Idle, Fault, Dead, Unborn, States
<1>17. ASSUME NEW p \in Pids, Crash(p)
      PROVE  TypeOK' /\ ProxiesOK' /\ TerminalsOK'
  BY <1>17, BoundAssumption
  DEF Crash, TypeOK, ProxiesOK, TerminalsOK, TerminalOK, Live, At, Commands, Steps, Before, Idle, Fault, Dead, Unborn, States
<1>18. ASSUME NEW p \in Pids, PidReused(p)
      PROVE  TypeOK' /\ ProxiesOK' /\ TerminalsOK'
  BY <1>18, BoundAssumption
  DEF PidReused, TypeOK, ProxiesOK, TerminalsOK, TerminalOK, Live, At, Commands, Steps, Before, Idle, Fault, Dead, Unborn, States
<1>19. CASE UNCHANGED vars
  BY <1>19 DEF vars, TypeOK, ProxiesOK, TerminalsOK, TerminalOK, Live, At, Commands, Steps, Before, Idle
<1> QED
  BY <1>1, <1>2, <1>3, <1>4, <1>5, <1>6, <1>7, <1>8, <1>9, <1>10, <1>11, <1>12, <1>13, <1>14, <1>15, <1>16, <1>17, <1>18, <1>19 DEF Next, Script

----------------------------------------------------------------------------
\* Most steps only end processes, or send them the signal to end.
Fades(p) ==
    \/ proxy'[p] = proxy[p]
    \/ ~Live(p)'
    \/ Holds(p) /\ proxy'[p] = [proxy[p] EXCEPT !.state = "dying"]

Fading == \A p \in Pids : Fades(p)

LEMMA FadingLemma ==
    ASSUME Inv, Fading, NEW p \in Pids
    PROVE  /\ Live(p)' => /\ Live(p)
                          /\ proxy'[p].site = proxy[p].site
                          /\ proxy'[p].family = proxy[p].family
           /\ Up(p)' => proxy'[p] = proxy[p]
           /\ Holds(p)' => Holds(p)
           /\ proxy'[p].state = "listening" => proxy'[p] = proxy[p]
<1>1. proxy[p] \in Proxy
  BY Typing DEF Inv
<1>2. Fades(p)
  BY DEF Fading
<1> QED
  BY <1>1, <1>2 DEF Fades, Live, Holds, Up, Proxy

\* Signals and the ends of processes.
Deadly(t) == Kill(t) \/ KillListeners(t)

LEMMA QuietFades ==
    ASSUME proxy' = proxy
    PROVE  Fading
  BY DEF Fading, Fades

LEMMA DeadlyFades ==
    ASSUME Inv, NEW t \in Terminals, Deadly(t)
    PROVE  Fading
<1>1. CASE KillListeners(t)
  <2>1. \A p \in Pids : proxy'[p] = proxy[p] \/ (proxy[p].state = "listening" /\ proxy'[p] = Killed(p))
    BY <1>1 DEF KillListeners, Listening
  <2>2. \A p \in Pids : proxy[p].state = "listening" =>
            Holds(p) /\ Killed(p) = [proxy[p] EXCEPT !.state = "dying"]
    BY DEF Killed, Holds
  <2> QED
    BY <2>1, <2>2 DEF Fading, Fades
<1>2. CASE Kill(t) /\ Running(term[t].site)
  <2> DEFINE q == pidFile[term[t].site]
  <2>1. term[t].site \in Sites
    BY <1>2 DEF Inv, TerminalsOK, TerminalOK, Kill, At
  <2>2. q \in Pids /\ proxy' = [proxy EXCEPT ![q] = Killed(q)]
    BY <1>2, <2>1, Typing DEF Kill, Running, Inv
  <2> HIDE DEF q
  <2>3. \A p \in Pids : proxy'[p] = IF p = q THEN Killed(q) ELSE proxy[p]
    BY <2>2, Typing DEF Inv
  <2>4. Killed(q) \in {Dead, proxy[q]} \/ (Holds(q) /\ Killed(q) = [proxy[q] EXCEPT !.state = "dying"])
    BY DEF Killed, Holds
  <2> QED
    BY <2>3, <2>4 DEF Fading, Fades, Live, Dead, Unborn
<1>3. CASE Kill(t) /\ ~Running(term[t].site)
  BY <1>3, QuietFades DEF Kill
<1> QED
  BY <1>1, <1>2, <1>3 DEF Deadly

LEMMA ProcessFades ==
    ASSUME Inv, NEW p \in Pids, Ends(p) \/ Crash(p) \/ PidReused(p)
    PROVE  Fading
<1>1. proxy' = [proxy EXCEPT ![p] = Dead] \/ proxy' = proxy
  BY DEF Ends, Crash, PidReused
<1>2. \A q \in Pids : proxy'[q] \in {Dead, proxy[q]}
  BY <1>1, Typing DEF Inv
<1> QED
  BY <1>2 DEF Fading, Fades, Live, Dead, Unborn

----------------------------------------------------------------------------
(***************************************************************************)
(* A start keeps what it has while processes fade and neither its command  *)
(* nor its configuration changes; and it has its port when it has freed    *)
(* it.                                                                     *)
(***************************************************************************)
LEMMA StartKept ==
    ASSUME Inv, Fading, TypeOK', NEW t \in Terminals,
           Undisturbed(t)' =>
              /\ Undisturbed(t)
              /\ config'[term[t].site] = config[term[t].site]
              /\ term'[t].site = term[t].site
              /\ term'[t].family = term[t].family
              /\ term'[t].pid = term[t].pid
              /\ \/ term'[t].at \in Freed => term[t].at \in Freed
                 \/ OnPortOf(t)' = {}
              /\ \/ term'[t].at = "sleep" => term[t].at = "sleep"
                 \/ Listening(term[t].site)' = {}
    PROVE  StartOK(t)'
<1> SUFFICES ASSUME Undisturbed(t)'
             PROVE  config'[term'[t].site] = term'[t].family /\ OwnPort(t)' /\ OwnProcess(t)'
  BY DEF StartOK
<1>1. /\ config[term[t].site] = term[t].family
      /\ OwnPort(t)
      /\ OwnProcess(t)
  BY DEF Inv, StartsOK, StartOK
<1>2. OwnPort(t)'
  <2>1. \A p \in Pids : OnPort(p, term[t].site)' /\ Live(p)' => OnPort(p, term[t].site)
    BY FadingLemma DEF OnPort
  <2>2. ASSUME term'[t].at \in Freed, NEW p \in OnPortOf(t)'
        PROVE  p = term'[t].pid
    <3>1. p \in Pids /\ Holds(p)' /\ Live(p)' /\ OnPort(p, term[t].site)'
      BY <2>2 DEF OnPortOf, Holds, Live
    <3>2. p \in OnPortOf(t)
      BY <2>1, <3>1, FadingLemma DEF OnPortOf
    <3> QED
      BY <1>1, <2>2, <3>2 DEF OwnPort
  <2>3. ASSUME At(t, "sleep")' PROVE Listening(term[t].site)' = {}
    <3>1. CASE term[t].at = "sleep"
      <4>1. Listening(term[t].site) = {}
        BY <1>1, <3>1 DEF OwnPort, At
      <4>2. ASSUME NEW p \in Pids, proxy'[p].state = "listening", OnPort(p, term[t].site)'
            PROVE  p \in Listening(term[t].site)
        BY <2>1, <4>2, FadingLemma DEF Listening, Live
      <4> QED
        BY <4>1, <4>2 DEF Listening
    <3>2. CASE term[t].at # "sleep"
      BY <2>3, <3>2 DEF At
    <3> QED
      BY <3>1, <3>2
  <2> QED
    BY <2>2, <2>3 DEF OwnPort, Listening
<1>3. OwnProcess(t)'
  <2>1. term[t].pid # None => term[t].pid \in Pids
    BY Typing DEF Inv, CommandOf
  <2> QED
    BY <1>1, <2>1, FadingLemma DEF OwnProcess
<1> QED
  BY <1>1, <1>2, <1>3

\* The commands that change neither a configuration nor the port.
LEMMA StartStepOfCommand ==
    ASSUME Inv, [Next]_vars, NEW t \in Terminals,
           \/ Command(t) \/ Check(t) \/ Kill(t) \/ RemovePidFile(t) \/ RecordPid(t)
           \/ Healthy(t) \/ GivesUp(t) \/ Refused(t) \/ Done(t) \/ Interrupt(t)
    PROVE  StartsOK'
<1>1. Fading
  BY QuietFades, DeadlyFades
  DEF Deadly, Command, Check, RemovePidFile, RecordPid, Healthy, GivesUp, Refused, Done, Interrupt
<1>2. config' = config /\ alone' = alone
  BY DEF Command, Check, Kill, RemovePidFile, RecordPid, Healthy, GivesUp, Refused, Done, Interrupt
<1>3. \A u \in Terminals : u # t => term'[u] = term[u]
  BY Typing
  DEF Inv, Command, Check, Kill, RemovePidFile, RecordPid, Healthy, GivesUp, Refused, Done,
      Interrupt, Goto, Leave
<1>4. Undisturbed(t)' =>
          /\ Undisturbed(t)
          /\ term'[t].site = term[t].site
          /\ term'[t].family = term[t].family
          /\ term'[t].pid = term[t].pid
          /\ term'[t].at \in Freed => term[t].at \in Freed
          /\ term'[t].at # "sleep"
  <2>1. CASE Command(t)
    <3>1. PICK s \in Sites, f \in Families, does \in Commands :
             term' = [term EXCEPT ![t] =
                [at |-> CASE does \in {"start", "write-config"} -> "config"
                          [] does = "stop" -> "kill"
                          [] does = "launch" -> "check",
                 does |-> does, site |-> s,
                 family |-> IF does = "stop" THEN None ELSE f, pid |-> None]]
      BY <2>1 DEF Command
    <3>2. term'[t].at \in {"check", "config"} \/ term'[t].does = "stop"
      BY <3>1, Typing DEF Inv, Commands
    <3> QED
      BY <3>2 DEF Undisturbed, Freed
  <2>2. CASE term' = [term EXCEPT ![t] = Idle]
    <3>1. term'[t] = Idle
      BY <2>2, Typing DEF Inv
    <3> QED
      BY <3>1 DEF Undisturbed, Idle, Freed
  <2>3. CASE Check(t)
    <3>1. term[t].pid = None /\ term[t].at = "check"
      BY <2>3 DEF Inv, TerminalsOK, TerminalOK, Before, Check, At
    <3>2. term'[t].pid = None /\ term'[t].at \in {"ready", "config"}
      BY <2>3, <3>1, Typing DEF Inv, CommandOf, Check, Goto
    <3> QED
      BY <3>2 DEF Undisturbed, At, Freed
  <2>4. CASE \/ term[t].at = "kill" /\ term' = [term EXCEPT ![t].at = "unlink"]
             \/ term[t].at \in {"kill", "unlink"} /\ term' = [term EXCEPT ![t].at = "free"]
             \/ term[t].at = "record" /\ term' = [term EXCEPT ![t].at = "poll"]
             \/ term[t].at = "poll" /\ term' = [term EXCEPT ![t].at = "ready"]
    BY <1>2, <2>4, Typing DEF Inv, CommandOf, Undisturbed, At, Freed
  <2> QED
    BY <2>1, <2>2, <2>3, <2>4
    DEF Kill, RemovePidFile, RecordPid, Healthy, GivesUp, Refused, Done, Interrupt, Goto, Leave, At
<1> SUFFICES ASSUME NEW u \in Terminals PROVE StartOK(u)'
  BY DEF StartsOK
<1>5. CASE u = t
  BY <1>1, <1>2, <1>4, <1>5, TypeStep, StartKept
<1>6. CASE u # t
  <2>1. Undisturbed(u)' => Undisturbed(u)
    BY <1>2, <1>3, <1>6 DEF Undisturbed, At
  <2> QED
    BY <1>1, <1>2, <1>3, <1>6, <2>1, TypeStep, StartKept
<1> QED
  BY <1>5, <1>6

\* What listened on the port is ending.
LEMMA StartStepOfKillListeners ==
    ASSUME Inv, [Next]_vars, NEW t \in Terminals, KillListeners(t)
    PROVE  StartsOK'
<1>1. Fading
  BY DeadlyFades DEF Deadly
<1>2. /\ term[t].at = "free" /\ term' = [term EXCEPT ![t].at = "sleep"]
      /\ config' = config /\ alone' = alone
  BY DEF KillListeners, At, Goto
<1>3. Listening(term[t].site)' = {}
  <2> SUFFICES ASSUME NEW p \in Pids, proxy'[p].state = "listening",
                      OnPort(p, term[t].site)'
               PROVE  FALSE
    BY DEF Listening
  <2>1. proxy'[p] = proxy[p]
    BY <1>1, FadingLemma
  <2>2. term'[t].site = term[t].site
    BY <1>2, Typing DEF Inv, CommandOf
  <2>3. p \in Listening(term[t].site)
    BY <2>1, <2>2 DEF OnPort, Listening
  <2>4. proxy'[p] = Killed(p) /\ proxy[p] \in Proxy /\ proxy[p].state = "listening"
    BY <2>1, <2>3, Typing DEF Inv, KillListeners
  <2>5. proxy'[p] = [proxy[p] EXCEPT !.state = "dying"]
    BY <2>4 DEF Killed
  <2> QED
    BY <2>4, <2>5 DEF Proxy
<1> SUFFICES ASSUME NEW u \in Terminals PROVE StartOK(u)'
  BY DEF StartsOK
<1>4. term'[u] = IF u = t THEN [term[t] EXCEPT !.at = "sleep"] ELSE term[u]
  BY <1>2, Typing DEF Inv
<1>5. Undisturbed(u)' =>
          /\ Undisturbed(u)
          /\ term'[u].site = term[u].site
          /\ term'[u].family = term[u].family
          /\ term'[u].pid = term[u].pid
          /\ u # t => term'[u].at = term[u].at
          /\ u = t => term'[u].at = "sleep"
  BY <1>2, <1>4, Typing DEF Inv, CommandOf, Undisturbed, At
<1>6. term'[u].at \in Freed => term[u].at \in Freed
  BY <1>4, Typing DEF Inv, CommandOf, Freed
<1> QED
  BY <1>1, <1>2, <1>3, <1>5, <1>6, TypeStep, StartKept

\* A start that goes on to spawn has the port to itself or is no longer alone.
LEMMA StartStepToSpawn ==
    ASSUME Inv, [Next]_vars, NEW t \in Terminals, Slept(t) \/ NoLsof(t)
    PROVE  StartsOK'
<1>1. Fading
  BY QuietFades DEF Slept, NoLsof
<1>2. /\ term[t].at \in {"free", "sleep"} /\ term' = [term EXCEPT ![t].at = "spawn"]
      /\ config' = config /\ alone' \in {alone, alone \ {t}} /\ proxy' = proxy
  BY DEF Slept, NoLsof, At, Goto
<1> SUFFICES ASSUME NEW u \in Terminals PROVE StartOK(u)'
  BY DEF StartsOK
<1>3. term'[u] = IF u = t THEN [term[t] EXCEPT !.at = "spawn"] ELSE term[u]
  BY <1>2, Typing DEF Inv
<1>4. Undisturbed(u)' =>
          /\ Undisturbed(u)
          /\ term'[u].site = term[u].site
          /\ term'[u].family = term[u].family
          /\ term'[u].pid = term[u].pid
          /\ u # t => term'[u].at = term[u].at
          /\ term'[u].at = "sleep" => term[u].at = "sleep"
  BY <1>2, <1>3, Typing DEF Inv, CommandOf, Undisturbed, At
<1>5. ASSUME u = t, Undisturbed(u)' PROVE OnPortOf(u)' = {}
  <2>1. Undisturbed(t) /\ t \in alone'
    BY <1>4, <1>5 DEF Undisturbed
  <2>2. OnPortOf(t) = {}
    <3>1. CASE Slept(t)
      <4>1. Ending(t) = {} /\ At(t, "sleep")
        BY <2>1, <3>1 DEF Slept
      <4>2. Listening(term[t].site) = {}
        BY <2>1, <4>1 DEF Inv, StartsOK, StartOK, OwnPort
      <4> QED
        BY <4>1, <4>2 DEF Ending, OnPortOf, Listening, Holds
    <3>2. CASE NoLsof(t)
      BY <2>1, <3>2 DEF NoLsof
    <3> QED
      BY <3>1, <3>2
  <2> QED
    BY <1>2, <1>4, <1>5, <2>2 DEF OnPortOf, Holds, OnPort
<1> QED
  BY <1>1, <1>2, <1>4, <1>5, TypeStep, StartKept

\* Whoever else has started the site has been interfered with.
LEMMA StartStepOfWriteConfig ==
    ASSUME Inv, [Next]_vars, NEW t \in Terminals, WriteConfig(t)
    PROVE  StartsOK'
<1>1. Fading
  BY QuietFades DEF WriteConfig
<1>2. /\ term[t].site \in Sites /\ term[t].at = "config" /\ term[t].pid = None
      /\ config' = [config EXCEPT ![term[t].site] = term[t].family]
      /\ alone' = {u \in alone : term[u].site # term[t].site} \cup {t}
      /\ term' = [term EXCEPT ![t] = Idle] \/ term' = [term EXCEPT ![t].at = "kill"]
  BY DEF WriteConfig, At, Goto, Leave, Inv, TerminalsOK, TerminalOK, Before
<1> SUFFICES ASSUME NEW u \in Terminals, Undisturbed(u)' PROVE StartOK(u)'
  BY DEF StartsOK, StartOK
<1>3. CASE u = t
  <2>1. term'[t].at = "kill" /\ term'[t].pid = None
        /\ term'[t].site = term[t].site /\ term'[t].family = term[t].family
    BY <1>2, <1>3, Typing DEF Inv, CommandOf, Undisturbed, Idle, Freed
  <2>2. config'[term[t].site] = term[t].family
    BY <1>2, Typing DEF Inv
  <2> QED
    BY <1>3, <2>1, <2>2 DEF StartOK, OwnPort, OwnProcess, Freed, At
<1>4. CASE u # t
  <2>1. u \in alone /\ term[u].site # term[t].site /\ term'[u] = term[u]
    BY <1>2, <1>4, Typing DEF Inv, Undisturbed
  <2>2. Undisturbed(u)
    BY <2>1 DEF Undisturbed, At
  <2>3. term[u].site \in Sites
    BY <2>2 DEF Inv, TerminalsOK, TerminalOK, Undisturbed, At, Freed
  <2>4. config'[term[u].site] = config[term[u].site]
    BY <1>2, <2>1, <2>3, Typing DEF Inv
  <2> QED
    BY <1>1, <2>1, <2>2, <2>4, TypeStep, StartKept
<1> QED
  BY <1>3, <1>4

\* The process is new, and does not listen yet.
LEMMA StartStepOfSpawn ==
    ASSUME Inv, [Next]_vars, NEW t \in Terminals, Spawn(t)
    PROVE  StartsOK'
<1>1. PICK p \in Pids :
          /\ proxy[p].state = "none"
          /\ proxy' = [proxy EXCEPT ![p] =
                [site |-> term[t].site, family |-> None, state |-> "loading"]]
          /\ term' = [term EXCEPT ![t].pid = p, ![t].at = "record"]
  BY DEF Spawn
<1>2. config' = config /\ alone' = alone /\ term[t].at = "spawn" /\ term[t].pid = None
  BY DEF Spawn, At, Inv, TerminalsOK, TerminalOK, Before
<1>3. \A q \in Pids : proxy'[q] = IF q = p
          THEN [site |-> term[t].site, family |-> None, state |-> "loading"] ELSE proxy[q]
  BY <1>1, Typing DEF Inv
<1>4. \A q \in Pids : Holds(q)' => q # p /\ proxy'[q] = proxy[q]
  BY <1>3 DEF Holds
<1> SUFFICES ASSUME NEW u \in Terminals, Undisturbed(u)' PROVE StartOK(u)'
  BY DEF StartsOK, StartOK
<1>5. term'[u] = IF u = t THEN [term[t] EXCEPT !.pid = p, !.at = "record"] ELSE term[u]
  BY <1>1, Typing DEF Inv
<1>6. /\ term'[u].site = term[u].site /\ term'[u].family = term[u].family
      /\ term'[u].does = term[u].does
      /\ u # t => term'[u] = term[u]
      /\ u = t => term'[u].pid = p
  BY <1>5, Typing DEF Inv, CommandOf
<1>7. Undisturbed(u) /\ (term'[u].at \in Freed => term[u].at \in Freed)
  BY <1>2, <1>6 DEF Undisturbed, At, Freed
<1>8. config[term[u].site] = term[u].family /\ OwnPort(u) /\ OwnProcess(u)
  BY <1>7 DEF Inv, StartsOK, StartOK
<1>9. OwnPort(u)'
  <2>1. \A q \in Pids : Holds(q)' /\ OnPort(q, term[u].site)' =>
            q # p /\ proxy'[q] = proxy[q] /\ Holds(q) /\ OnPort(q, term[u].site)
    BY <1>4, <1>6 DEF Holds, OnPort
  <2>2. ASSUME term'[u].at \in Freed, NEW q \in OnPortOf(u)'
        PROVE  q = term'[u].pid
    <3>1. q \in OnPortOf(u)
      BY <2>1, <2>2 DEF OnPortOf
    <3>2. q = term[u].pid
      BY <1>7, <1>8, <2>2, <3>1 DEF OwnPort
    <3>3. u # t
      BY <1>2, <3>1, <3>2, NoneAssumption DEF OnPortOf
    <3> QED
      BY <1>6, <3>2, <3>3
  <2>3. ASSUME At(u, "sleep")' PROVE Listening(term[u].site)' = {}
    <3>1. At(u, "sleep")
      BY <1>5, <2>3, Typing DEF Inv, CommandOf, At
    <3>2. ASSUME NEW q \in Pids, proxy'[q].state = "listening", OnPort(q, term[u].site)'
          PROVE  q \in Listening(term[u].site)
      BY <2>1, <3>2 DEF Listening, Holds
    <3> QED
      BY <1>8, <3>1, <3>2 DEF OwnPort, Listening
  <2> QED
    BY <2>2, <2>3 DEF OwnPort
<1>10. OwnProcess(u)'
  <2>1. CASE u = t
    BY <1>3, <1>6, <2>1 DEF OwnProcess
  <2>2. CASE u # t
    <3>1. term[u].pid # None => term[u].pid \in Pids /\ term[u].pid # p
      BY <1>1, Typing DEF Inv, CommandOf, TerminalsOK, TerminalOK
    <3> QED
      BY <1>3, <1>6, <1>8, <2>2, <3>1 DEF OwnProcess, Live
  <2> QED
    BY <2>1, <2>2
<1> QED
  BY <1>2, <1>6, <1>8, <1>9, <1>10 DEF StartOK

\* What a start's own process reads is what the start wrote.
LEMMA StartStepOfLoad ==
    ASSUME Inv, [Next]_vars, NEW p \in Pids, Load(p)
    PROVE  StartsOK'
<1>1. /\ proxy[p].state = "loading" /\ term' = term /\ config' = config /\ alone' = alone
      /\ proxy' = [proxy EXCEPT ![p].family = config[proxy[p].site]]
  BY DEF Load
<1>2. \A q \in Pids : proxy'[q] =
          IF q = p THEN [proxy[p] EXCEPT !.family = config[proxy[p].site]] ELSE proxy[q]
  BY <1>1, Typing DEF Inv
<1>3. \A q \in Pids : /\ proxy'[q].state = proxy[q].state
                      /\ proxy'[q].site = proxy[q].site
                      /\ q # p => proxy'[q].family = proxy[q].family
  BY <1>2, Typing DEF Inv, Proxy
<1>4. proxy'[p].family = config[proxy[p].site]
  BY <1>2, Typing DEF Inv, Proxy
<1> SUFFICES ASSUME NEW u \in Terminals, Undisturbed(u)' PROVE StartOK(u)'
  BY DEF StartsOK, StartOK
<1>5. config[term[u].site] = term[u].family /\ OwnPort(u) /\ OwnProcess(u)
  BY <1>1 DEF Inv, StartsOK, StartOK, Undisturbed, At
<1>6. OwnPort(u)'
  BY <1>1, <1>3, <1>5 DEF OwnPort, Listening, OnPortOf, Holds, OnPort, At
<1>7. OwnProcess(u)'
  <2> SUFFICES ASSUME term[u].pid # None, Live(term[u].pid)'
               PROVE  /\ proxy'[term[u].pid].site = term[u].site
                      /\ proxy'[term[u].pid].family \in {None, term[u].family}
    BY <1>1 DEF OwnProcess
  <2>1. term[u].pid \in Pids
    BY Typing DEF Inv, CommandOf
  <2>2. /\ proxy[term[u].pid].site = term[u].site
        /\ proxy[term[u].pid].family \in {None, term[u].family}
    BY <1>1, <1>3, <1>5, <2>1 DEF OwnProcess, Live
  <2> QED
    BY <1>3, <1>4, <1>5, <2>1, <2>2
<1> QED
  BY <1>1, <1>5, <1>6, <1>7 DEF StartOK

\* Whoever else waits for the port has been interfered with.
LEMMA StartStepOfBind ==
    ASSUME Inv, [Next]_vars, NEW p \in Pids, Bind(p)
    PROVE  StartsOK'
<1>1. term' = term /\ config' = config /\ proxy[p].state = "loading"
  BY DEF Bind
<1>2. CASE \E q \in Pids : Holds(q) /\ OnPort(q, proxy[p].site)
  <2>1. proxy' = [proxy EXCEPT ![p] = Dead] /\ alone' = alone
    BY <1>2 DEF Bind
  <2>2. \A q \in Pids : proxy'[q] \in {Dead, proxy[q]}
    BY <2>1, Typing DEF Inv
  <2>3. Fading
    BY <2>2 DEF Fading, Fades, Live, Dead, Unborn
  <2>4. \A u \in Terminals : Undisturbed(u)' <=> Undisturbed(u)
    BY <1>1, <2>1 DEF Undisturbed, At
  <2>5. ASSUME NEW u \in Terminals PROVE StartOK(u)'
    BY <1>1, <2>3, <2>4, TypeStep, StartKept
  <2> QED
    BY <2>5 DEF StartsOK
<1>3. CASE ~\E q \in Pids : Holds(q) /\ OnPort(q, proxy[p].site)
  <2>1. /\ proxy' = [proxy EXCEPT ![p].state = "listening"]
        /\ alone' = {u \in alone : Starting(u) /\ OnPort(p, term[u].site)
                                      => term[u].pid = p}
    BY <1>3 DEF Bind
  <2>2. \A q \in Pids : /\ proxy'[q].site = proxy[q].site
                        /\ proxy'[q].family = proxy[q].family
                        /\ q # p => proxy'[q].state = proxy[q].state
    BY <2>1, Typing DEF Inv, Proxy
  <2> SUFFICES ASSUME NEW u \in Terminals, Undisturbed(u)' PROVE StartOK(u)'
    BY DEF StartsOK, StartOK
  <2>3. Undisturbed(u) /\ u \in alone'
    BY <1>1, <2>1 DEF Undisturbed, At
  <2>4. config[term[u].site] = term[u].family /\ OwnPort(u) /\ OwnProcess(u)
    BY <2>3 DEF Inv, StartsOK, StartOK
  <2>5. OnPort(p, term[u].site) => term[u].pid = p
    BY <2>1, <2>3 DEF Undisturbed, Starting, Freed
  <2>6. OwnPort(u)'
    <3>1. \A q \in Pids : OnPort(q, term[u].site)' <=> OnPort(q, term[u].site)
      BY <1>1, <2>2 DEF OnPort
    <3>2. At(u, "sleep") => ~OnPort(p, term[u].site)
      BY <2>5, NoneAssumption DEF Inv, TerminalsOK, TerminalOK, Before, At
    <3>3. \A q \in Pids : q # p => (Holds(q)' <=> Holds(q))
      BY <2>2 DEF Holds
    <3>4. term[u].at \in Freed => \A q \in OnPortOf(u)' : q = term[u].pid
      BY <1>1, <2>4, <2>5, <3>1, <3>3 DEF OwnPort, OnPortOf
    <3>5. At(u, "sleep") => Listening(term[u].site)' = {}
      BY <1>1, <2>2, <2>4, <3>1, <3>2 DEF OwnPort, Listening
    <3> QED
      BY <1>1, <3>4, <3>5 DEF OwnPort, At
  <2>7. OwnProcess(u)'
    <3>1. term[u].pid # None => term[u].pid \in Pids
      BY Typing DEF Inv, CommandOf
    <3> QED
      BY <1>1, <2>2, <2>4, <3>1 DEF OwnProcess, Live
  <2> QED
    BY <1>1, <2>4, <2>6, <2>7 DEF StartOK
<1> QED
  BY <1>2, <1>3

LEMMA StartStep ==
    ASSUME Inv, [Next]_vars
    PROVE  StartsOK'
<1>1. ASSUME Fading, term' = term, config' = config, alone' = alone
      PROVE  StartsOK'
  <2>1. \A u \in Terminals : Undisturbed(u)' <=> Undisturbed(u)
    BY <1>1 DEF Undisturbed, At
  <2>2. ASSUME NEW u \in Terminals PROVE StartOK(u)'
    BY <1>1, <2>1, TypeStep, StartKept
  <2> QED
    BY <2>2 DEF StartsOK
<1>2. ASSUME NEW p \in Pids, Ends(p) \/ Crash(p) \/ PidReused(p)
      PROVE  StartsOK'
  BY <1>1, <1>2, ProcessFades DEF Ends, Crash, PidReused
<1>3. CASE UNCHANGED vars
  BY <1>1, <1>3, QuietFades DEF vars
<1> QED
  BY <1>2, <1>3, StartStepOfCommand, StartStepOfKillListeners, StartStepToSpawn, StartStepOfWriteConfig,
     StartStepOfSpawn, StartStepOfLoad, StartStepOfBind
  DEF Next, Script

----------------------------------------------------------------------------
Bare(s) == \A p \in Pids : ~(proxy[p].site = s /\ Up(p))

\* Nothing is started, and nothing is recorded or removed at the site.
Still(s) ==
    /\ pidFile'[s] = pidFile[s]
    /\ \A u \in Terminals : Replacing(u, s)' <=> Replacing(u, s)
    /\ \A u \in Terminals, p \in Pids : Recording(u, s, p)' <=> Recording(u, s, p)

Dwindles(s) ==
    \A p \in Pids : proxy'[p].site = s /\ Up(p)' => proxy[p].site = s /\ Up(p)

LEMMA FadingDwindles ==
    ASSUME Inv, Fading, NEW s
    PROVE  Dwindles(s)
  BY FadingLemma DEF Dwindles, Up

LEMMA SiteKept ==
    ASSUME NEW s \in clean, Inv, Dwindles(s), Still(s)
    PROVE  Accounted(s)'
<1> SUFFICES ASSUME NEW p \in Pids, proxy'[p].site = s, Up(p)'
             PROVE  IF \E t \in Terminals : Replacing(t, s)'
                    THEN \E t \in Terminals : Recording(t, s, p)'
                    ELSE pidFile'[s] = p
  BY DEF Accounted
<1>1. IF \E t \in Terminals : Replacing(t, s)
      THEN \E t \in Terminals : Recording(t, s, p)
      ELSE pidFile[s] = p
  BY DEF Inv, SitesOK, Accounted, Dwindles
<1> QED
  BY <1>1 DEF Still

LEMMA BareKept ==
    ASSUME NEW s, Bare(s), Dwindles(s)
    PROVE  Accounted(s)'
  BY DEF Bare, Dwindles, Accounted

\* A command that has begun to replace the proxy finds nothing up until it
\* has spawned.
LEMMA BareWhileReplacing ==
    ASSUME Inv, NEW t \in Terminals, term[t].site \in clean,
           term[t].at \in {"unlink", "free", "sleep", "spawn"}
    PROVE  Bare(term[t].site)
<1> DEFINE s == term[t].site
<1>1. Exclusive(s) /\ Accounted(s)
  BY DEF Inv, SitesOK
<1>2. Replacing(t, s)
  BY DEF Replacing
<1>3. \A u \in Terminals, p \in Pids : ~Recording(u, s, p)
  BY <1>1 DEF Exclusive, Recording, At
<1> QED
  BY <1>1, <1>2, <1>3 DEF Bare, Accounted

\* A command leaves the other sites alone.
LEMMA OtherSitesStill ==
    ASSUME Inv, NEW t \in Terminals, NEW s, term[t].site # s, term'[t].site # s,
           \A u \in Terminals : u # t => term'[u] = term[u],
           pidFile'[s] = pidFile[s]
    PROVE  Still(s)
  BY DEF Still, Replacing, Recording, At

\* The actions of a script: what they do to the terminal.
LEMMA ScriptMoves ==
    ASSUME Inv, NEW t \in Terminals, Script(t) \/ Done(t) \/ Interrupt(t)
    PROVE  /\ term[t].site \in Sites
           /\ \A u \in Terminals : u # t => term'[u] = term[u]
           /\ term'[t].site \in {term[t].site, None}
<1>1. term[t].site \in Sites
  BY DEF Script, Check, WriteConfig, Kill, RemovePidFile, KillListeners, Slept, NoLsof, Spawn, RecordPid, Healthy,
         GivesUp, Refused, Done, Interrupt, Inv, TerminalsOK, TerminalOK, At
<1>2. \/ term' = [term EXCEPT ![t] = Idle]
      \/ \E step \in Steps : term' = [term EXCEPT ![t].at = step]
      \/ \E p \in Pids : term' = [term EXCEPT ![t].pid = p, ![t].at = "record"]
  BY DEF Script, Check, WriteConfig, Kill, RemovePidFile, KillListeners, Slept, NoLsof, Spawn, RecordPid, Healthy,
         GivesUp, Refused, Done, Interrupt, Goto, Leave, Steps
<1>3. term'[t].site \in {term[t].site, None}
  <2>1. CASE term' = [term EXCEPT ![t] = Idle]
    BY <2>1, Typing DEF Inv, Idle
  <2>2. ASSUME NEW step \in Steps, term' = [term EXCEPT ![t].at = step]
        PROVE  term'[t].site = term[t].site
    BY <2>2, Typing DEF Inv, CommandOf
  <2>3. ASSUME NEW p \in Pids, term' = [term EXCEPT ![t].pid = p, ![t].at = "record"]
        PROVE  term'[t].site = term[t].site
    BY <2>3, Typing DEF Inv, CommandOf
  <2> QED
    BY <1>2, <2>1, <2>2, <2>3
<1>4. \A u \in Terminals : u # t => term'[u] = term[u]
  BY <1>2, Typing DEF Inv
<1> QED
  BY <1>1, <1>3, <1>4

LEMMA ExclusiveKept ==
    ASSUME Inv, NEW t \in Terminals, Script(t) \/ Done(t) \/ Interrupt(t),
           NEW s \in clean
    PROVE  Exclusive(s)'
<1>1. s \in Sites /\ s # None
  BY Typing, NoneAssumption DEF Inv
<1>2. \A u \in Terminals : term'[u].site = s => term[u].site = s
  BY <1>1, ScriptMoves
<1> QED
  BY <1>2 DEF Inv, SitesOK, Exclusive

LEMMA SiteStepOfScript ==
    ASSUME Inv, [Next]_vars, NEW t \in Terminals, Script(t) \/ Done(t)
    PROVE  SitesOK'
<1> SUFFICES ASSUME NEW s \in clean' PROVE Accounted(s)'
  <2>1. clean' = clean
    BY DEF Script, Check, WriteConfig, Kill, RemovePidFile, KillListeners, Slept, NoLsof, Spawn, RecordPid, Healthy,
           GivesUp, Refused, Done
  <2> QED
    BY <2>1, ExclusiveKept DEF SitesOK
<1>1. clean' = clean
  BY DEF Script, Check, WriteConfig, Kill, RemovePidFile, KillListeners, Slept, NoLsof, Spawn, RecordPid, Healthy,
         GivesUp, Refused, Done
<1>2. s \in clean /\ s \in Sites /\ s # None
  BY <1>1, Typing, NoneAssumption DEF Inv
<1>3. /\ term[t].site \in Sites
      /\ \A u \in Terminals : u # t => term'[u] = term[u]
      /\ term'[t].site \in {term[t].site, None}
  BY ScriptMoves
<1>4. Exclusive(s) /\ Accounted(s)
  BY <1>2 DEF Inv, SitesOK
<1>5. CASE term[t].site # s
  <2>1. pidFile'[s] = pidFile[s]
    BY <1>2, <1>5, <1>3, Typing
    DEF Inv, Script, Check, WriteConfig, Kill, RemovePidFile, KillListeners, Slept, NoLsof, Spawn, RecordPid, Healthy,
        GivesUp, Refused, Done
  <2>2. Still(s)
    BY <1>2, <1>3, <1>5, <2>1, OtherSitesStill
  <2>3. Dwindles(s)
    <3>1. CASE Spawn(t)
      <4>1. PICK p \in Pids : proxy' = [proxy EXCEPT ![p] =
                [site |-> term[t].site, family |-> None, state |-> "loading"]]
        BY <3>1 DEF Spawn
      <4>2. \A q \in Pids : proxy'[q] = IF q = p
                THEN [site |-> term[t].site, family |-> None, state |-> "loading"] ELSE proxy[q]
        BY <4>1, Typing DEF Inv
      <4> QED
        BY <4>2, <1>5 DEF Dwindles, Up
    <3>2. CASE ~Spawn(t)
      <4>1. Fading
        BY <3>2, QuietFades, DeadlyFades
        DEF Deadly, Script, Check, WriteConfig, RemovePidFile, Slept, NoLsof, RecordPid,
            Healthy, GivesUp, Refused, Done
      <4> QED
        BY <4>1, FadingDwindles
    <3> QED
      BY <3>1, <3>2
  <2> QED
    BY <1>2, <2>2, <2>3, SiteKept
<1>6. CASE term[t].site = s
  <2>1. \A u \in Terminals : u # t => term[u].site # s /\ term'[u].site # s
    BY <1>3, <1>4, <1>6 DEF Exclusive
  \* The steps before and after the replacement.
  <2>2. CASE \/ Check(t) \/ WriteConfig(t) \/ Healthy(t) \/ GivesUp(t) \/ Done(t)
             \/ Refused(t) /\ At(t, "config")
    <3>1. proxy' = proxy /\ pidFile' = pidFile
      BY <2>2 DEF Check, WriteConfig, Healthy, GivesUp, Done, Refused
    <3>2. term[t].at \in {"check", "config", "poll", "ready"}
      BY <2>2 DEF Check, WriteConfig, Healthy, GivesUp, Done, Refused, At
    <3>3. term'[t].at \in {"idle", "ready", "config", "kill"}
      BY <2>2, Typing
      DEF Inv, CommandOf, Check, WriteConfig, Healthy, GivesUp, Done, Refused, Goto, Leave, Idle
    <3>4. Still(s)
      BY <2>1, <3>1, <3>2, <3>3 DEF Still, Replacing, Recording, At
    <3> QED
      BY <1>2, <3>1, <3>4, QuietFades, FadingDwindles, SiteKept
  <2>3. CASE \/ RemovePidFile(t) \/ KillListeners(t) \/ Slept(t) \/ NoLsof(t)
             \/ Refused(t) /\ At(t, "spawn")
    <3>1. Bare(s)
      BY <1>2, <1>6, <2>3, BareWhileReplacing DEF RemovePidFile, KillListeners, Slept, NoLsof, At
    <3>2. Fading
      BY <2>3, QuietFades, DeadlyFades DEF Deadly, RemovePidFile, Slept, NoLsof, Refused
    <3> QED
      BY <3>1, <3>2, FadingDwindles, BareKept
  <2>4. CASE Kill(t)
    <3>1. term[t].at = "kill"
      BY <2>4 DEF Kill, At
    <3>2. \A p \in Pids : proxy[p].site = s /\ Up(p) => pidFile[s] = p
      BY <1>4, <1>6, <2>1, <3>1 DEF Accounted, Replacing
    <3>3. Fading
      BY <2>4, DeadlyFades DEF Deadly
    <3>4. CASE Running(s)
      <4>1. PICK q \in Pids : q = pidFile[s] /\ proxy' = [proxy EXCEPT ![q] = Killed(q)]
        BY <1>2, <1>6, <2>4, <3>4, Typing DEF Kill, Running, Inv
      <4>2. proxy'[q] = Killed(q)
        BY <4>1, Typing DEF Inv
      <4>3. Killed(q).state \notin {"loading", "listening"}
        BY <4>1, Typing DEF Inv, Killed, Dead, Unborn, Proxy
      <4>4. ~Up(q)'
        BY <4>2, <4>3 DEF Up
      <4>5. Bare(s)'
        BY <3>2, <3>3, <4>1, <4>4, FadingDwindles DEF Bare, Dwindles
      <4> QED
        BY <4>5 DEF Bare, Accounted
    <3>5. CASE ~Running(s)
      <4>1. Bare(s)
        BY <3>2, <3>5, NoneAssumption DEF Bare, Running, Live, Up
      <4> QED
        BY <3>3, <4>1, FadingDwindles, BareKept
    <3> QED
      BY <3>4, <3>5
  <2>5. CASE Spawn(t)
    <3>1. PICK p \in Pids :
            /\ proxy' = [proxy EXCEPT ![p] =
                  [site |-> term[t].site, family |-> None, state |-> "loading"]]
            /\ term' = [term EXCEPT ![t].pid = p, ![t].at = "record"]
      BY <2>5 DEF Spawn
    <3>2. Bare(s)
      BY <1>2, <1>6, <2>5, BareWhileReplacing DEF Spawn, At
    <3>3. \A q \in Pids : q # p => proxy'[q] = proxy[q]
      BY <3>1, Typing DEF Inv
    <3>4. \A q \in Pids : proxy'[q].site = s /\ Up(q)' => q = p
      BY <3>2, <3>3 DEF Bare, Up
    <3>5. term'[t].site = s /\ term'[t].pid = p /\ term'[t].at = "record"
      BY <1>6, <3>1, Typing DEF Inv, CommandOf
    <3>6. Recording(t, s, p)' /\ Replacing(t, s)'
      BY <3>5 DEF Recording, Replacing, At
    <3> QED
      BY <3>4, <3>6 DEF Accounted
  <2>6. CASE RecordPid(t)
    <3>1. /\ term[t].at = "record" /\ proxy' = proxy
          /\ pidFile' = [pidFile EXCEPT ![s] = term[t].pid]
          /\ term' = [term EXCEPT ![t].at = "poll"]
      BY <1>6, <2>6 DEF RecordPid, At, Goto
    <3>2. pidFile'[s] = term[t].pid /\ term'[t].at = "poll"
      BY <1>2, <3>1, Typing DEF Inv, CommandOf
    <3>3. Replacing(t, s)
      BY <1>6, <3>1 DEF Replacing
    <3>4. \A p \in Pids : proxy[p].site = s /\ Up(p) => p = term[t].pid
      BY <1>4, <2>1, <3>3 DEF Accounted, Recording
    <3>5. \A u \in Terminals : ~Replacing(u, s)'
      BY <2>1, <3>2 DEF Replacing
    <3>6. \A p \in Pids : proxy'[p].site = s /\ Up(p)' => pidFile'[s] = p
      BY <3>1, <3>2, <3>4 DEF Up
    <3> QED
      BY <3>5, <3>6 DEF Accounted
  <2>7. Refused(t) => At(t, "config") \/ At(t, "spawn")
    BY DEF Refused
  <2> QED
    BY <2>2, <2>3, <2>4, <2>5, <2>6, <2>7 DEF Script
<1> QED
  BY <1>5, <1>6

LEMMA SiteStepOfCommand ==
    ASSUME Inv, [Next]_vars, NEW t \in Terminals, Command(t)
    PROVE  SitesOK'
<1> SUFFICES ASSUME NEW s \in clean' PROVE Exclusive(s)' /\ Accounted(s)'
  BY DEF SitesOK
<1>1. PICK r \in Sites, f \in Families, does \in Commands :
        /\ term' = [term EXCEPT ![t] =
              [at |-> CASE does \in {"start", "write-config"} -> "config"
                        [] does = "stop" -> "kill"
                        [] does = "launch" -> "check",
               does |-> does, site |-> r,
               family |-> IF does = "stop" THEN None ELSE f, pid |-> None]]
        /\ clean' = IF Busy(r) THEN clean \ {r} ELSE clean
  BY DEF Command
<1>2. /\ term'[t].site = r /\ term'[t].at \in {"config", "kill", "check"}
      /\ \A u \in Terminals : u # t => term'[u] = term[u]
  BY <1>1, Typing DEF Inv, Commands
<1>3. s \in clean /\ s \in Sites /\ s # None /\ (s = r => ~Busy(s))
  BY <1>1, Typing, NoneAssumption DEF Inv
<1>4. proxy' = proxy /\ pidFile' = pidFile /\ term[t].at = "idle"
  BY DEF Command, At
<1>5. Exclusive(s) /\ Accounted(s)
  BY <1>3 DEF Inv, SitesOK
<1>6. term[t].site # s
  BY <1>3, <1>4 DEF Inv, TerminalsOK, TerminalOK, At, Idle
<1>7. Exclusive(s)'
  <2>1. CASE s = r
    BY <1>2, <1>3, <2>1 DEF Exclusive, Busy
  <2>2. CASE s # r
    BY <1>2, <1>5, <2>2 DEF Exclusive
  <2> QED
    BY <2>1, <2>2
<1>8. Still(s)
  BY <1>2, <1>4, <1>6 DEF Still, Replacing, Recording, At
<1>9. Accounted(s)'
  BY <1>3, <1>4, <1>8, QuietFades, FadingDwindles, SiteKept
<1> QED
  BY <1>7, <1>9

LEMMA SiteStep ==
    ASSUME Inv, [Next]_vars
    PROVE  SitesOK'
<1>1. ASSUME term' = term, pidFile' = pidFile, clean' = clean,
             \A s \in clean : Dwindles(s)
      PROVE  SitesOK'
  <2> SUFFICES ASSUME NEW s \in clean PROVE Exclusive(s)' /\ Accounted(s)'
    BY <1>1 DEF SitesOK
  <2>1. Exclusive(s)'
    BY <1>1 DEF Inv, SitesOK, Exclusive
  <2>2. Still(s)
    BY <1>1 DEF Still, Replacing, Recording, At
  <2> QED
    BY <1>1, <2>1, <2>2, SiteKept
<1>2. ASSUME NEW p \in Pids, Load(p) \/ Bind(p) PROVE SitesOK'
  <2>1. proxy[p].state = "loading" /\ term' = term /\ pidFile' = pidFile /\ clean' = clean
    BY <1>2 DEF Load, Bind
  <2>2. \A q \in Pids : q # p => proxy'[q] = proxy[q]
    BY <1>2, Typing DEF Inv, Load, Bind
  <2>3. proxy'[p] = Dead \/ proxy'[p].site = proxy[p].site
    BY <1>2, Typing DEF Inv, Proxy, Load, Bind
  <2>4. \A s \in clean : Dwindles(s)
    BY <2>1, <2>2, <2>3 DEF Dwindles, Up, Dead, Unborn
  <2> QED
    BY <1>1, <2>1, <2>4
<1>3. ASSUME NEW p \in Pids, Ends(p) \/ Crash(p) \/ PidReused(p) PROVE SitesOK'
  BY <1>1, <1>3, ProcessFades, FadingDwindles DEF Ends, Crash, PidReused
<1>4. ASSUME NEW t \in Terminals, Interrupt(t) PROVE SitesOK'
  <2> SUFFICES ASSUME NEW s \in clean' PROVE Exclusive(s)' /\ Accounted(s)'
    BY DEF SitesOK
  <2>1. s \in clean /\ s # term[t].site /\ s # None /\ proxy' = proxy /\ pidFile' = pidFile
    BY <1>4, Typing, NoneAssumption DEF Inv, Interrupt
  <2>2. Still(s)
    BY <1>4, <2>1, ScriptMoves, OtherSitesStill
  <2> QED
    BY <1>4, <2>1, <2>2, ExclusiveKept, QuietFades, FadingDwindles, SiteKept
<1>5. CASE UNCHANGED vars
  BY <1>1, <1>5, QuietFades, FadingDwindles DEF vars
<1> QED
  BY <1>2, <1>3, <1>4, <1>5, SiteStepOfScript, SiteStepOfCommand DEF Next

----------------------------------------------------------------------------
LEMMA NextInv == Inv /\ [Next]_vars => Inv'
  BY TypeStep, StartStep, SiteStep DEF Inv

(***************************************************************************)
(* What a command has been given, what a start that has the port to itself *)
(* holds, and what a site whose commands never overlap keeps account of:   *)
(* the invariant from which the other theorems follow.                     *)
(***************************************************************************)
THEOREM Invariance == Spec => []Inv
  BY InitInv, NextInv, PTL DEF Spec

(***************************************************************************)
(* The configurations, pid files, processes and commands have the values   *)
(* that the code gives them, whatever the number of terminals and sites.   *)
(***************************************************************************)
THEOREM TypeCorrect == Spec => []TypeOK
<1>1. Inv => TypeOK
  BY DEF Inv
<1> QED
  BY <1>1, Invariance, PTL

(***************************************************************************)
(* "LiteLLM ready" means the proxy that was asked for (litellm-proxy.sh    *)
(* start): a start that has the port to itself, in the sense of            *)
(* ReadyIsOurs, is answered by the process it spawned, with the family it  *)
(* wrote, whatever pid files and orphans it found.                         *)
(***************************************************************************)
THEOREM ReadyProxyIsOurs == Spec => []ReadyIsOurs
<1>1. Inv => ReadyIsOurs
  <2> SUFFICES ASSUME Inv, NEW t \in Terminals, At(t, "ready"), term[t].pid # None, t \in alone,
                      NEW p \in OnPortOf(t)
               PROVE  p = term[t].pid /\ proxy[p].family = term[t].family
    BY DEF ReadyIsOurs
  <2>1. p \in Pids /\ Holds(p)
    BY DEF OnPortOf
  <2>2. term[t].does # "stop"
    BY DEF Inv, TerminalsOK, TerminalOK, At
  <2>3. Undisturbed(t)
    BY <2>2 DEF Undisturbed, At, Freed
  <2>4. OwnPort(t) /\ OwnProcess(t)
    BY <2>3 DEF Inv, StartsOK, StartOK
  <2>5. p = term[t].pid
    BY <2>4 DEF OwnPort, Freed, At
  <2>6. proxy[p].family \in {None, term[t].family} /\ proxy[p].family \in Families
    BY <2>1, <2>4, <2>5 DEF OwnProcess, Holds, Live, Inv, TypeOK
  <2> QED
    BY <2>5, <2>6, NoneAssumption
<1> QED
  BY <1>1, Invariance, PTL

(***************************************************************************)
(* No orphans (litellm-proxy.sh, the lines around PID_FILE): what is up at *)
(* a site whose commands never overlapped is in its pid file, or about to  *)
(* be, so that stop reaches it.                                            *)
(***************************************************************************)
THEOREM NoProxyIsOrphaned == Spec => []NoOrphans
<1>1. Inv => NoOrphans
  BY DEF Inv, SitesOK, Accounted, Recording, Up, NoOrphans
<1> QED
  BY <1>1, Invariance, PTL
(***************************************************************************)
(* stop leaves nothing running: at a site whose commands never overlapped, *)
(* once no command is under way and there is no pid file, every process    *)
(* that was started there has ended or is about to (litellm-proxy.sh stop).*)
(***************************************************************************)
THEOREM NoPidFileMeansDown ==
    Spec => [](\A s \in clean : ~Busy(s) /\ pidFile[s] = None =>
                  \A p \in Pids : proxy[p].site = s => ~Up(p))
<1> DEFINE Down == \A s \in clean : ~Busy(s) /\ pidFile[s] = None =>
                      \A p \in Pids : proxy[p].site = s => ~Up(p)
<1>1. Inv => Down
  BY NoneAssumption DEF Inv, SitesOK, Accounted, Replacing, Busy
<1> HIDE DEF Down
<1>2. Spec => []Down
  BY <1>1, Invariance, PTL
<1> QED BY <1>2 DEF Down
=============================================================================
