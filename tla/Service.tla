------------------------------- MODULE Service -------------------------------
(***************************************************************************)
(* `mygrok service install` and `uninstall` (cmd/mygrok/service.go): the   *)
(* files they write, and the commands they run of systemd on Linux and of  *)
(* launchd on macOS. One command runs at a time; every program it starts   *)
(* may fail, and it may be interrupted between any two. The machine may    *)
(* start again and a service may crash at any time.                        *)
(*                                                                         *)
(* systemd and launchd are external and do here what their manuals say. An *)
(* install whose arguments are refused changes nothing and is left out,    *)
(* and so are list, status and logs, which only look.                      *)
(***************************************************************************)
CONSTANTS
  Name,     \* services
  Setting,  \* what an install is about: port, subdomain, server, token, ...
  None

\* launchdLabelPrefixes: agents of old installs have the legacy prefix.
Prefix == {"current", "legacy"}

Operation == {"install", "uninstall"}
Step ==
  {"unit", "env", "reload", "enable", "disable", "remove", "write", "swept"} \cup Prefix

ASSUME ServiceAssumption == None \notin Setting \cup Operation \cup Step

VARIABLES
  os,       \* "linux" or "darwin"
  unit,     \* Name -> the setting in the unit file, None without the file
  env,      \* Name -> the setting in the file with the token
  known,    \* Name -> the unit as systemd has it since its last reload
  enabled,  \* units that are started with the machine
  running,  \* Name -> the settings of unit and token file a process runs with
  plist,    \* Prefix \X Name -> the setting in the agent's file
  agent,    \* Prefix \X Name -> the setting a loaded agent runs with
  cmd,      \* the command under way
  cut,      \* history: names whose "rm" removed the unit and not the token file
  clinging, \* history: agents that launchctl or os.Remove failed on
  told      \* history: Name -> what the last command on it that exited 0 did

linux == <<unit, env, known, enabled, running, cut>>
darwin == <<plist, agent, clinging>>
vars == <<os, linux, darwin, cmd, told>>

Label == Prefix \X Name
Idle == [op |-> None, name |-> None, set |-> None, step |-> None, found |-> FALSE]
NotRunning == <<None, None>>
Unsure == [op |-> None, set |-> None]

Init ==
  /\ os \in {"linux", "darwin"}
  /\ unit = [n \in Name |-> None] /\ env = unit /\ known = unit
  /\ enabled = {} /\ running = [n \in Name |-> NotRunning]
  \* What a release before 1.0 has installed.
  /\ \E old \in [Name -> Setting \cup {None}] :
       /\ plist = [l \in Label |-> IF l[1] = "legacy" /\ os = "darwin" THEN old[l[2]] ELSE None]
       /\ agent = plist
  /\ cmd = Idle /\ cut = {} /\ clinging = {} /\ told = [n \in Name |-> Unsure]

-----------------------------------------------------------------------------
At(op, step) == cmd.op = op /\ cmd.step = step
Then(step) == cmd' = [cmd EXCEPT !.step = step] /\ UNCHANGED told
ExitZero ==
  /\ cmd' = Idle
  /\ told' = [told EXCEPT ![cmd.name] = [op |-> cmd.op, set |-> cmd.set]]

Start(op, n, x) ==
  /\ cmd = Idle
  /\ cmd' = [op |-> op, name |-> n, set |-> x, found |-> FALSE,
             step |-> IF os = "darwin" THEN IF op = "install" THEN "write" ELSE "current"
                      ELSE IF op = "install" THEN "unit" ELSE "disable"]
  /\ told' = [told EXCEPT ![n] = Unsure]
  /\ UNCHANGED <<os, linux, darwin>>

\* `must` ends the command when a program it runs fails, and so does Ctrl-C.
GiveUp ==
  /\ cmd # Idle
  /\ cmd' = Idle
  /\ UNCHANGED <<os, linux, darwin, told>>

-----------------------------------------------------------------------------
(* Linux: installSystemd and uninstallSystemd                              *)

\* A slip: the token file first.
InstallEnvFirst ==
  /\ At("install", "unit")
  /\ env' = [env EXCEPT ![cmd.name] = cmd.set]
  /\ Then("env")
  /\ UNCHANGED <<os, unit, known, enabled, running, cut, darwin>>

InstallUnit ==
  /\ At("install", "unit")
  /\ unit' = [unit EXCEPT ![cmd.name] = cmd.set]
  /\ cut' = cut \ {cmd.name}
  /\ Then("env")
  /\ UNCHANGED <<os, env, known, enabled, running, darwin>>

InstallEnv ==
  /\ At("install", "env")
  /\ env' = [env EXCEPT ![cmd.name] = cmd.set]
  /\ Then("reload")
  /\ UNCHANGED <<os, unit, known, enabled, running, cut, darwin>>

\* daemon-reload, before "enable" and at the end of an uninstall. A unit that
\* still runs stays known until it stops.
Reload ==
  /\ cmd.step = "reload"
  /\ known' = unit
  /\ IF cmd.op = "install" THEN Then("enable") ELSE ExitZero
  /\ UNCHANGED <<os, unit, env, enabled, running, cut, darwin>>

\* A slip: a unit without its EnvironmentFile line.
LaunchedTokenless(n) == IF known[n] # None THEN <<known[n], None>> ELSE NotRunning

\* A process starts with the unit as systemd knows it and the token file of the
\* moment, without which it does not.
Launched(n) ==
  IF known[n] # None /\ env[n] # None THEN <<known[n], env[n]>> ELSE NotRunning

\* "enable --now" starts what does not run, and leaves what does alone.
EnableNow ==
  LET n == cmd.name IN
  /\ At("install", "enable")
  /\ enabled' = enabled \cup {n}
  /\ running' = [running EXCEPT ![n] = IF @ = NotRunning THEN Launched(n) ELSE @]
  /\ ExitZero
  /\ UNCHANGED <<os, unit, env, known, cut, darwin>>

\* "disable --now" fails without a unit.
DisableNow ==
  LET n == cmd.name IN
  /\ At("uninstall", "disable")
  /\ unit[n] # None
  /\ enabled' = enabled \ {n}
  /\ running' = [running EXCEPT ![n] = NotRunning]
  /\ Then("remove")
  /\ UNCHANGED <<os, unit, env, known, cut, darwin>>

\* "rm -f" takes the unit, then the token file. When it ends in between, so does
\* the command.
RemoveFiles ==
  LET n == cmd.name IN
  /\ At("uninstall", "remove")
  /\ unit' = [unit EXCEPT ![n] = None]
  /\ \/ env' = [env EXCEPT ![n] = None] /\ Then("reload") /\ UNCHANGED cut
     \/ cmd' = Idle /\ cut' = cut \cup {n} /\ UNCHANGED <<env, told>>
  /\ UNCHANGED <<os, known, enabled, running, darwin>>

\* Restart=always
Crash(n) ==
  /\ running[n] # NotRunning
  /\ running' = [running EXCEPT ![n] = Launched(n)]
  /\ UNCHANGED <<os, unit, env, known, enabled, cut, darwin, cmd, told>>

-----------------------------------------------------------------------------
(* macOS: installLaunchd, uninstallLaunchd, unloadAllLaunchd               *)

WritePlist ==
  /\ At("install", "write")
  /\ plist' = [plist EXCEPT ![<<"current", cmd.name>>] = cmd.set]
  /\ Then("current")
  /\ UNCHANGED <<os, linux, agent, clinging>>

\* A slip: a plist is removed without unloading its agent.
SweepWithoutUnload(prefix) ==
  LET l == <<prefix, cmd.name>> IN
  /\ cmd.step = prefix
  /\ plist' = [plist EXCEPT ![l] = None]
  /\ cmd' = [cmd EXCEPT !.step = IF prefix = "current" THEN "legacy" ELSE "swept",
                        !.found = @ \/ plist[l] # None]
  /\ UNCHANGED <<os, linux, agent, clinging, told>>

\* One turn of the loop: unload and remove what there is with this prefix. That
\* either fails goes unnoticed.
Sweep(prefix) ==
  LET l == <<prefix, cmd.name>>
      next == IF prefix = "current" THEN "legacy" ELSE "swept"
  IN /\ cmd.step = prefix
     /\ \/ plist[l] = None /\ Then(next) /\ UNCHANGED <<plist, agent, clinging>>
        \/ /\ plist[l] # None
           /\ \E unloads, removes \in BOOLEAN :
                /\ unloads \/ agent[l] # None
                /\ agent' = [agent EXCEPT ![l] = IF unloads THEN None ELSE @]
                /\ plist' = [plist EXCEPT ![l] = IF removes THEN None ELSE @]
                /\ clinging' = IF unloads /\ removes THEN clinging \ {l} ELSE clinging \cup {l}
                /\ cmd' = [cmd EXCEPT !.step = next, !.found = @ \/ removes]
           /\ UNCHANGED told
     /\ UNCHANGED <<os, linux>>

\* "launchctl load" of a file that is not there loads nothing; some releases of
\* it exit 0 all the same.
LoadAgent ==
  LET l == <<"current", cmd.name>> IN
  /\ At("install", "swept")
  /\ agent' = [agent EXCEPT ![l] = IF plist[l] = None THEN @ ELSE plist[l]]
  /\ ExitZero
  /\ UNCHANGED <<os, linux, plist, clinging>>

\* Nothing removed is "no such service".
Uninstalled ==
  /\ At("uninstall", "swept")
  /\ cmd.found
  /\ ExitZero
  /\ UNCHANGED <<os, linux, darwin>>

-----------------------------------------------------------------------------
\* The machine starts again, or on macOS the user logs in.
Boot ==
  /\ cmd' = Idle
  /\ known' = unit
  /\ running' = [n \in Name |->
       IF n \in enabled /\ unit[n] # None /\ env[n] # None THEN <<unit[n], env[n]>>
       ELSE NotRunning]
  /\ agent' = plist /\ clinging' = {l \in clinging : plist[l] # None}
  /\ UNCHANGED <<os, unit, env, enabled, cut, plist, told>>

Next ==
  \/ \E n \in Name, x \in Setting : Start("install", n, x)
  \/ \E n \in Name : Start("uninstall", n, None) \/ Crash(n)
  \/ InstallUnit \/ InstallEnv \/ Reload \/ EnableNow \/ DisableNow \/ RemoveFiles
  \/ WritePlist \/ (\E prefix \in Prefix : Sweep(prefix)) \/ LoadAgent \/ Uninstalled
  \/ GiveUp \/ Boot

Spec == Init /\ [][Next]_vars

-----------------------------------------------------------------------------
(* Properties                                                              *)

ServiceTypeOK ==
  /\ os \in {"linux", "darwin"}
  /\ {unit, env, known} \subseteq [Name -> Setting \cup {None}]
  /\ enabled \subseteq Name
  /\ running \in [Name -> (Setting \X Setting) \cup {NotRunning}]
  /\ {plist, agent} \subseteq [Label -> Setting \cup {None}]
  /\ cut \subseteq Name /\ clinging \subseteq Label
  /\ cmd \in [op : Operation \cup {None}, name : Name \cup {None},
              set : Setting \cup {None}, step : Step \cup {None}, found : BOOLEAN]
  /\ told \in [Name -> [op : Operation \cup {None}, set : Setting \cup {None}]]

\* Whatever command failed or was interrupted, uninstall still reaches what is
\* left: a token file and a process have their unit, without which "disable" refuses
\* and the command goes no further, unless an rm ended between the two files; an
\* agent has its plist, unless launchctl would not unload it.
NothingOutOfReach ==
  /\ \A n \in Name : env[n] # None => unit[n] # None \/ n \in cut
  /\ \A n \in Name : running[n] # NotRunning => unit[n] # None
  /\ \A l \in Label : agent[l] # None => plist[l] # None \/ l \in clinging

\* What the last command on n promised when it exited 0.
Upheld(n) ==
  /\ told[n].op = "uninstall" =>
       /\ unit[n] = None /\ env[n] = None /\ n \notin enabled /\ running[n] = NotRunning
       /\ \A p \in Prefix :
            <<p, n>> \notin clinging => plist[<<p, n>>] = None /\ agent[<<p, n>>] = None
  /\ told[n].op = "install" /\ os = "linux" =>
       /\ unit[n] = told[n].set /\ env[n] = told[n].set /\ known[n] = told[n].set
       /\ n \in enabled

\* An uninstall that exits 0 leaves neither file nor process, now or after a
\* boot, except what launchctl or os.Remove failed on; an install on Linux leaves
\* unit and token of the same settings for the next start, also over what failed
\* commands had left.
ExitZeroHolds == \A n \in Name : Upheld(n)

\* docs/cli.md: install writes the agent's file and loads it.
InstalledIsLoaded ==
  \A n \in Name :
    told[n].op = "install" /\ os = "darwin" => agent[<<"current", n>>] = told[n].set
=============================================================================
