---------------------------- MODULE ServiceProofs ----------------------------
(***************************************************************************)
(* Proofs about Service, for any numbers of services and settings.         *)
(***************************************************************************)
EXTENDS Service, TLAPS

USE ServiceAssumption DEF Operation, Step, Prefix

\* The conjuncts of ServiceTypeOK, by whom they concern.
LinuxTyped ==
  /\ unit \in [Name -> Setting \cup {None}] /\ env \in [Name -> Setting \cup {None}]
  /\ known \in [Name -> Setting \cup {None}]
  /\ enabled \subseteq Name /\ cut \subseteq Name
  /\ running \in [Name -> (Setting \X Setting) \cup {NotRunning}]
DarwinTyped ==
  /\ plist \in [Label -> Setting \cup {None}] /\ agent \in [Label -> Setting \cup {None}]
  /\ clinging \subseteq Label
Commands ==
  [op : Operation \cup {None}, name : Name \cup {None},
   set : Setting \cup {None}, step : Step \cup {None}, found : BOOLEAN]
CmdTyped == os \in {"linux", "darwin"} /\ cmd \in Commands
ToldTyped ==
  told \in [Name -> [op : Operation \cup {None}, set : Setting \cup {None}]]

LEMMA TypeParts == ServiceTypeOK <=> LinuxTyped /\ DarwinTyped /\ CmdTyped /\ ToldTyped
BY DEF ServiceTypeOK, LinuxTyped, DarwinTyped, CmdTyped, ToldTyped, Commands

-----------------------------------------------------------------------------
(* The invariant                                                           *)

\* Each system's state is untouched on the other.
OneSystem ==
  /\ os = "darwin" => \A n \in Name : /\ unit[n] = None /\ env[n] = None
                                      /\ n \notin enabled /\ running[n] = NotRunning
  /\ os = "linux" => \A l \in Label : plist[l] = None /\ agent[l] = None

\* Every program a command runs is for a service, of the system it runs on, and
\* the last word on that service is still to come.
Underway ==
  cmd.op # None =>
    /\ cmd.name \in Name /\ told[cmd.name].op = None
    /\ cmd.op = "install" => cmd.set \in Setting
    /\ os = "darwin" => cmd.step \in {"write", "swept"} \cup Prefix
    /\ os = "darwin" /\ cmd.op = "uninstall" => cmd.step # "write"
    /\ os = "linux" /\ cmd.op = "install" => cmd.step \in {"unit", "env", "reload", "enable"}
    /\ os = "linux" /\ cmd.op = "uninstall" => cmd.step \in {"disable", "remove", "reload"}

\* What a command has done so far, nobody else undoes.
InstalledSoFar ==
  LET n == cmd.name IN
  cmd.op = "install" =>
    /\ cmd.step \in {"env", "reload", "enable"} => unit[n] = cmd.set
    /\ cmd.step \in {"reload", "enable"} => env[n] = cmd.set
    /\ cmd.step = "enable" => known[n] = cmd.set

Clean(l) == l \notin clinging => plist[l] = None /\ agent[l] = None
RemovedSoFar ==
  LET n == cmd.name IN
  cmd.op = "uninstall" =>
    /\ cmd.step \in {"remove", "reload"} => n \notin enabled /\ running[n] = NotRunning
    /\ cmd.step = "reload" => unit[n] = None /\ env[n] = None
    /\ cmd.step \in {"legacy", "swept"} => Clean(<<"current", n>>)
    /\ cmd.step = "swept" => Clean(<<"legacy", n>>)

ServiceInv ==
  /\ LinuxTyped /\ DarwinTyped /\ CmdTyped /\ ToldTyped
  /\ cmd.op = None => cmd = Idle
  /\ OneSystem /\ Underway /\ InstalledSoFar /\ RemovedSoFar
  /\ NothingOutOfReach /\ ExitZeroHolds

LEMMA InitInv == Init => ServiceInv
<1> SUFFICES ASSUME Init PROVE ServiceInv
  OBVIOUS
<1>1. LinuxTyped /\ DarwinTyped
  <2>1. LinuxTyped
    BY DEF Init, LinuxTyped
  <2>2. PICK old \in [Name -> Setting \cup {None}] :
          plist = [l \in Label |->
                     IF l[1] = "legacy" /\ os = "darwin" THEN old[l[2]] ELSE None]
    BY DEF Init
  <2>3. \A l \in Label : l[2] \in Name
    BY DEF Label
  <2>4. plist \in [Label -> Setting \cup {None}]
    BY <2>2, <2>3
  <2> QED
    BY <2>1, <2>4 DEF Init, DarwinTyped
<1>2. CmdTyped /\ ToldTyped
  BY DEF Init, CmdTyped, Commands, ToldTyped, Idle, Unsure
<1>3. OneSystem
  BY DEF Init, OneSystem
<1>4. cmd = Idle /\ cmd.op = None /\ \A n \in Name : told[n].op = None
  BY DEF Init, Idle, Unsure
<1>5. NothingOutOfReach
  BY DEF Init, NothingOutOfReach
<1> QED
  BY <1>1, <1>2, <1>3, <1>4, <1>5
     DEF ServiceInv, Underway, InstalledSoFar, RemovedSoFar, ExitZeroHolds, Upheld

-----------------------------------------------------------------------------
(* Steps                                                                   *)

LEMMA ThenFacts ==
  ASSUME CmdTyped, NEW step \in Step, Then(step)
  PROVE  /\ cmd' \in Commands /\ told' = told
         /\ cmd'.op = cmd.op /\ cmd'.name = cmd.name /\ cmd'.set = cmd.set
         /\ cmd'.step = step
BY DEF CmdTyped, Commands, Then

LEMMA IdleFacts ==
  /\ Idle \in Commands /\ Idle.op = None
BY DEF Idle, Commands

LEMMA ExitFacts ==
  ASSUME CmdTyped, ToldTyped, cmd.name \in Name, ExitZero
  PROVE  /\ cmd' = Idle /\ ToldTyped'
         /\ told'[cmd.name].op = cmd.op /\ told'[cmd.name].set = cmd.set
         /\ \A n \in Name : n # cmd.name => told'[n] = told[n]
BY DEF CmdTyped, Commands, ExitZero, ToldTyped

LEMMA Busy ==
  ASSUME ServiceInv, cmd.step # None
  PROVE  /\ cmd.op \in Operation /\ cmd.name \in Name /\ told[cmd.name].op = None
         /\ cmd.op = "install" => cmd.set \in Setting
         /\ cmd.step \in {"unit", "env", "reload", "enable", "disable", "remove"} => os = "linux"
         /\ cmd.step \in {"write", "swept"} \cup Prefix => os = "darwin"
BY DEF ServiceInv, CmdTyped, Commands, Underway, Idle

LEMMA InstallUnitInv == ServiceInv /\ InstallUnit => ServiceInv'
<1> SUFFICES ASSUME ServiceInv, InstallUnit PROVE ServiceInv'
  OBVIOUS
<1> DEFINE n == cmd.name
<1>1. /\ cmd.op = "install" /\ n \in Name /\ cmd.set \in Setting
      /\ cmd.step # None /\ os = "linux" /\ told[n].op = None
  BY Busy DEF InstallUnit, At
<1>2. /\ cmd' \in Commands /\ told' = told
      /\ cmd'.op = "install" /\ cmd'.name = n /\ cmd'.set = cmd.set
      /\ cmd'.step = "env"
  BY <1>1, ThenFacts DEF ServiceInv, InstallUnit
<1>3. LinuxTyped' /\ DarwinTyped' /\ CmdTyped' /\ ToldTyped'
  BY <1>1, <1>2 DEF ServiceInv, LinuxTyped, DarwinTyped, CmdTyped, ToldTyped, InstallUnit, darwin
<1>4. OneSystem' /\ Underway' /\ RemovedSoFar'
  BY <1>1, <1>2 DEF ServiceInv, OneSystem, Underway, RemovedSoFar, InstallUnit, darwin
<1>5. InstalledSoFar'
  BY <1>1, <1>2 DEF ServiceInv, LinuxTyped, InstalledSoFar, InstallUnit, At
<1>6. NothingOutOfReach'
  BY <1>1 DEF ServiceInv, LinuxTyped, InstalledSoFar, NothingOutOfReach, InstallUnit, At, darwin
<1>7. ExitZeroHolds'
  BY <1>1, <1>2 DEF ServiceInv, LinuxTyped, ExitZeroHolds, Upheld, InstallUnit, darwin
<1> QED
  BY <1>1, <1>2, <1>3, <1>4, <1>5, <1>6, <1>7 DEF ServiceInv

LEMMA InstallEnvInv == ServiceInv /\ InstallEnv => ServiceInv'
<1> SUFFICES ASSUME ServiceInv, InstallEnv PROVE ServiceInv'
  OBVIOUS
<1> DEFINE n == cmd.name
<1>1. /\ cmd.op = "install" /\ n \in Name /\ cmd.set \in Setting
      /\ cmd.step # None /\ os = "linux" /\ told[n].op = None
  BY Busy DEF InstallEnv, At
<1>2. /\ cmd' \in Commands /\ told' = told
      /\ cmd'.op = "install" /\ cmd'.name = n /\ cmd'.set = cmd.set
      /\ cmd'.step = "reload"
  BY <1>1, ThenFacts DEF ServiceInv, InstallEnv
<1>3. LinuxTyped' /\ DarwinTyped' /\ CmdTyped' /\ ToldTyped'
  BY <1>1, <1>2 DEF ServiceInv, LinuxTyped, DarwinTyped, CmdTyped, ToldTyped, InstallEnv, darwin
<1>4. OneSystem' /\ Underway' /\ RemovedSoFar'
  BY <1>1, <1>2 DEF ServiceInv, OneSystem, Underway, RemovedSoFar, InstallEnv, darwin
<1>5. InstalledSoFar'
  BY <1>1, <1>2 DEF ServiceInv, LinuxTyped, InstalledSoFar, InstallEnv, At
<1>6. NothingOutOfReach'
  BY <1>1 DEF ServiceInv, LinuxTyped, InstalledSoFar, NothingOutOfReach, InstallEnv, At, darwin
<1>7. ExitZeroHolds'
  BY <1>1, <1>2 DEF ServiceInv, LinuxTyped, ExitZeroHolds, Upheld, InstallEnv, darwin
<1> QED
  BY <1>1, <1>2, <1>3, <1>4, <1>5, <1>6, <1>7 DEF ServiceInv

LEMMA ReloadInv == ServiceInv /\ Reload => ServiceInv'
<1> SUFFICES ASSUME ServiceInv, Reload PROVE ServiceInv'
  OBVIOUS
<1> DEFINE n == cmd.name
<1>1. /\ cmd.op \in Operation /\ n \in Name /\ os = "linux" /\ told[n].op = None
      /\ cmd.op = "install" => cmd.set \in Setting
      /\ cmd.step = "reload"
  BY Busy DEF Reload
<1>2. LinuxTyped' /\ DarwinTyped' /\ OneSystem' /\ NothingOutOfReach'
  BY <1>1 DEF ServiceInv, LinuxTyped, DarwinTyped, OneSystem, NothingOutOfReach, Reload, darwin
<1>3. CASE cmd.op = "install"
  <2>1. /\ cmd' \in Commands /\ told' = told
        /\ cmd'.op = "install" /\ cmd'.name = n /\ cmd'.set = cmd.set
        /\ cmd'.step = "enable"
    BY <1>1, <1>3, ThenFacts DEF ServiceInv, Reload
  <2>2. CmdTyped' /\ ToldTyped'
    BY <2>1 DEF ServiceInv, CmdTyped, ToldTyped, Reload
  <2>5. RemovedSoFar'
    BY <2>1 DEF RemovedSoFar
  <2>6. Underway'
    BY <1>1, <1>3, <2>1 DEF Underway, Reload
  <2>3. InstalledSoFar'
    BY <1>1, <1>3, <2>1 DEF ServiceInv, InstalledSoFar, Reload
  <2>4. ExitZeroHolds'
    BY <1>1, <2>1 DEF ServiceInv, ExitZeroHolds, Upheld, Reload, darwin
  <2> QED
    BY <1>2, <2>1, <2>2, <2>3, <2>4, <2>5, <2>6 DEF ServiceInv
<1>4. CASE cmd.op = "uninstall"
  <2>1. /\ cmd' = Idle /\ cmd'.op = None /\ cmd' \in Commands /\ ToldTyped'
        /\ told'[n].op = "uninstall" /\ \A m \in Name : m # n => told'[m] = told[m]
    BY <1>1, <1>4, ExitFacts, IdleFacts DEF ServiceInv, Reload
  <2>2. CmdTyped' /\ Underway' /\ InstalledSoFar' /\ RemovedSoFar'
    BY <1>1, <2>1 DEF ServiceInv, CmdTyped, Underway, InstalledSoFar, RemovedSoFar, Reload
  <2>3. /\ unit[n] = None /\ env[n] = None /\ n \notin enabled /\ running[n] = NotRunning
        /\ \A p \in Prefix : plist[<<p, n>>] = None /\ agent[<<p, n>>] = None
    BY <1>1, <1>4 DEF ServiceInv, RemovedSoFar, OneSystem, Label
  <2>4. ExitZeroHolds'
    <3> SUFFICES ASSUME NEW m \in Name PROVE Upheld(m)'
      BY DEF ExitZeroHolds
    <3>1. CASE m = n
      BY <1>1, <2>1, <2>3, <3>1 DEF Upheld, Reload, darwin
    <3>2. CASE m # n
      BY <2>1, <3>2 DEF ServiceInv, ExitZeroHolds, Upheld, Reload, darwin
    <3> QED
      BY <3>1, <3>2
  <2> QED
    BY <1>2, <2>1, <2>2, <2>4 DEF ServiceInv
<1> QED
  BY <1>1, <1>3, <1>4

LEMMA EnableNowInv == ServiceInv /\ EnableNow => ServiceInv'
<1> SUFFICES ASSUME ServiceInv, EnableNow PROVE ServiceInv'
  OBVIOUS
<1> DEFINE n == cmd.name
<1>1. /\ cmd.op = "install" /\ n \in Name /\ cmd.set \in Setting
      /\ cmd.step = "enable" /\ os = "linux" /\ told[n].op = None
  BY Busy DEF EnableNow, At
<1>2. unit[n] = cmd.set /\ env[n] = cmd.set /\ known[n] = cmd.set
  BY <1>1 DEF ServiceInv, InstalledSoFar
<1>3. /\ cmd' = Idle /\ cmd'.op = None /\ cmd' \in Commands /\ ToldTyped'
      /\ told'[n].op = "install" /\ told'[n].set = cmd.set
      /\ \A m \in Name : m # n => told'[m] = told[m]
  BY <1>1, ExitFacts, IdleFacts DEF ServiceInv, EnableNow
<1>4. LinuxTyped' /\ DarwinTyped' /\ OneSystem'
  BY <1>1, <1>2 DEF ServiceInv, LinuxTyped, DarwinTyped, OneSystem, EnableNow, Launched, darwin
<1>5. CmdTyped' /\ Underway' /\ InstalledSoFar' /\ RemovedSoFar'
  BY <1>1, <1>3 DEF ServiceInv, CmdTyped, Underway, InstalledSoFar, RemovedSoFar, EnableNow
<1>6. NothingOutOfReach'
  BY <1>1, <1>2 DEF ServiceInv, LinuxTyped, NothingOutOfReach, EnableNow, darwin
<1>7. ExitZeroHolds'
  <2> SUFFICES ASSUME NEW m \in Name PROVE Upheld(m)'
    BY DEF ExitZeroHolds
  <2>1. CASE m = n
    BY <1>1, <1>2, <1>3, <2>1 DEF ServiceInv, LinuxTyped, Upheld, EnableNow
  <2>2. CASE m # n
    BY <1>3, <2>2 DEF ServiceInv, LinuxTyped, ExitZeroHolds, Upheld, EnableNow, darwin
  <2> QED
    BY <2>1, <2>2
<1> QED
  BY <1>3, <1>4, <1>5, <1>6, <1>7 DEF ServiceInv

LEMMA DisableNowInv == ServiceInv /\ DisableNow => ServiceInv'
<1> SUFFICES ASSUME ServiceInv, DisableNow PROVE ServiceInv'
  OBVIOUS
<1> DEFINE n == cmd.name
<1>1. /\ cmd.op = "uninstall" /\ n \in Name
      /\ cmd.step # None /\ os = "linux" /\ told[n].op = None
  BY Busy DEF DisableNow, At
<1>2. /\ cmd' \in Commands /\ told' = told
      /\ cmd'.op = "uninstall" /\ cmd'.name = n /\ cmd'.step = "remove"
  BY <1>1, ThenFacts DEF ServiceInv, DisableNow
<1>3. LinuxTyped' /\ DarwinTyped' /\ CmdTyped' /\ ToldTyped'
  BY <1>1, <1>2 DEF ServiceInv, LinuxTyped, DarwinTyped, CmdTyped, ToldTyped, DisableNow, darwin
<1>4. OneSystem' /\ Underway' /\ InstalledSoFar' /\ NothingOutOfReach'
  BY <1>1, <1>2 DEF ServiceInv, LinuxTyped, OneSystem, Underway, InstalledSoFar,
                    NothingOutOfReach, DisableNow, darwin
<1>5. RemovedSoFar'
  BY <1>1, <1>2 DEF ServiceInv, LinuxTyped, RemovedSoFar, DisableNow
<1>6. ExitZeroHolds'
  BY <1>1, <1>2 DEF ServiceInv, LinuxTyped, ExitZeroHolds, Upheld, DisableNow, darwin
<1> QED
  BY <1>1, <1>2, <1>3, <1>4, <1>5, <1>6 DEF ServiceInv

LEMMA RemoveFilesInv == ServiceInv /\ RemoveFiles => ServiceInv'
<1> SUFFICES ASSUME ServiceInv, RemoveFiles PROVE ServiceInv'
  OBVIOUS
<1> DEFINE n == cmd.name
<1>1. /\ cmd.op = "uninstall" /\ n \in Name
      /\ cmd.step = "remove" /\ os = "linux" /\ told[n].op = None
      /\ n \notin enabled /\ running[n] = NotRunning
  BY Busy DEF RemoveFiles, At, ServiceInv, RemovedSoFar
<1>2. told' = told
  BY DEF RemoveFiles, Then
<1>3. LinuxTyped' /\ DarwinTyped' /\ ToldTyped' /\ OneSystem'
  BY <1>1, <1>2 DEF ServiceInv, LinuxTyped, DarwinTyped, ToldTyped, OneSystem, RemoveFiles, darwin
<1>4. NothingOutOfReach'
  BY <1>1 DEF ServiceInv, LinuxTyped, NothingOutOfReach, RemoveFiles, darwin
<1>5. ExitZeroHolds'
  <2> SUFFICES ASSUME NEW m \in Name PROVE Upheld(m)'
    BY DEF ExitZeroHolds
  <2>1. CASE m = n
    BY <1>1, <1>2, <2>1 DEF Upheld
  <2>2. CASE m # n
    BY <1>2, <2>2 DEF ServiceInv, LinuxTyped, ExitZeroHolds, Upheld, RemoveFiles, darwin
  <2> QED
    BY <2>1, <2>2
<1>6. CASE env' = [env EXCEPT ![n] = None] /\ Then("reload")
  <2>1. /\ cmd' \in Commands
        /\ cmd'.op = "uninstall" /\ cmd'.name = n /\ cmd'.step = "reload"
    BY <1>1, <1>6, ThenFacts DEF ServiceInv
  <2>2. CmdTyped' /\ Underway' /\ InstalledSoFar'
    BY <1>1, <1>2, <2>1 DEF ServiceInv, CmdTyped, Underway, InstalledSoFar, RemoveFiles
  <2>3. RemovedSoFar'
    BY <1>1, <1>6, <2>1 DEF ServiceInv, LinuxTyped, RemovedSoFar, RemoveFiles
  <2> QED
    BY <1>3, <1>4, <1>5, <2>1, <2>2, <2>3 DEF ServiceInv
<1>7. CASE cmd' = Idle
  <2>1. CmdTyped' /\ Underway' /\ InstalledSoFar' /\ RemovedSoFar'
    BY <1>7, IdleFacts DEF ServiceInv, CmdTyped, Underway, InstalledSoFar, RemovedSoFar,
                           RemoveFiles
  <2> QED
    BY <1>3, <1>4, <1>5, <1>7, <2>1 DEF ServiceInv
<1> QED
  BY <1>6, <1>7 DEF RemoveFiles

LEMMA StartInv ==
  ASSUME ServiceInv, NEW op \in Operation, NEW n \in Name, NEW x \in Setting \cup {None},
         op = "install" => x \in Setting, Start(op, n, x)
  PROVE  ServiceInv'
<1>1. /\ cmd' \in Commands /\ cmd'.op = op /\ cmd'.name = n /\ cmd'.set = x
      /\ cmd'.step = IF os = "darwin" THEN IF op = "install" THEN "write" ELSE "current"
                     ELSE IF op = "install" THEN "unit" ELSE "disable"
  BY DEF Start, Commands
<1>2. /\ ToldTyped' /\ told'[n].op = None
      /\ \A m \in Name : m # n => told'[m] = told[m]
  BY DEF ServiceInv, ToldTyped, Start, Unsure
<1>3. LinuxTyped' /\ DarwinTyped' /\ OneSystem' /\ NothingOutOfReach'
  BY DEF ServiceInv, LinuxTyped, DarwinTyped, OneSystem, NothingOutOfReach, Start, linux, darwin
<1>4. CmdTyped' /\ Underway'
  BY <1>1, <1>2 DEF ServiceInv, CmdTyped, Underway, Start
<1>5. InstalledSoFar' /\ RemovedSoFar'
  BY <1>1 DEF ServiceInv, CmdTyped, InstalledSoFar, RemovedSoFar
<1>6. ExitZeroHolds'
  <2> SUFFICES ASSUME NEW m \in Name PROVE Upheld(m)'
    BY DEF ExitZeroHolds
  <2>1. CASE m = n
    BY <1>2, <2>1 DEF Upheld
  <2>2. CASE m # n
    BY <1>2, <2>2 DEF ServiceInv, ExitZeroHolds, Upheld, Start, linux, darwin
  <2> QED
    BY <2>1, <2>2
<1> QED
  BY <1>1, <1>2, <1>3, <1>4, <1>5, <1>6 DEF ServiceInv

LEMMA GiveUpInv == ServiceInv /\ GiveUp => ServiceInv'
<1> SUFFICES ASSUME ServiceInv, GiveUp PROVE ServiceInv'
  OBVIOUS
<1>1. LinuxTyped' /\ DarwinTyped' /\ OneSystem' /\ ToldTyped' /\ NothingOutOfReach'
  BY DEF ServiceInv, LinuxTyped, DarwinTyped, OneSystem, ToldTyped, NothingOutOfReach,
         GiveUp, linux, darwin
<1>2. CmdTyped' /\ Underway' /\ InstalledSoFar' /\ RemovedSoFar' /\ cmd' = Idle
  BY IdleFacts DEF ServiceInv, CmdTyped, Underway, InstalledSoFar, RemovedSoFar, GiveUp
<1>3. ExitZeroHolds'
  BY DEF ServiceInv, ExitZeroHolds, Upheld, GiveUp, linux, darwin
<1> QED
  BY <1>1, <1>2, <1>3 DEF ServiceInv

LEMMA CrashInv ==
  ASSUME ServiceInv, NEW n \in Name, Crash(n)
  PROVE  ServiceInv'
<1>1. /\ running[n] # NotRunning /\ unit[n] # None /\ os = "linux"
      /\ n # cmd.name \/ cmd.op # "uninstall" \/ cmd.step \notin {"remove", "reload"}
  BY DEF ServiceInv, CmdTyped, OneSystem, RemovedSoFar, NothingOutOfReach, Crash
<1>2. /\ running' = [running EXCEPT ![n] = Launched(n)]
      /\ os' = os /\ unit' = unit /\ env' = env /\ known' = known /\ enabled' = enabled
      /\ cut' = cut /\ plist' = plist /\ agent' = agent /\ clinging' = clinging
      /\ cmd' = cmd /\ told' = told
  BY DEF Crash, darwin
<1>3. LinuxTyped' /\ DarwinTyped' /\ CmdTyped' /\ ToldTyped' /\ OneSystem'
  BY <1>1, <1>2 DEF ServiceInv, LinuxTyped, DarwinTyped, CmdTyped, ToldTyped, OneSystem, Launched
<1>4. Underway' /\ InstalledSoFar' /\ (cmd.op = None => cmd = Idle)'
  BY <1>2 DEF ServiceInv, Underway, InstalledSoFar
<1>5. RemovedSoFar'
  BY <1>1, <1>2 DEF ServiceInv, LinuxTyped, RemovedSoFar, Clean
<1>6. NothingOutOfReach'
  BY <1>1, <1>2 DEF ServiceInv, LinuxTyped, NothingOutOfReach
<1>7. ExitZeroHolds'
  BY <1>1, <1>2 DEF ServiceInv, LinuxTyped, ExitZeroHolds, Upheld
<1> QED
  BY <1>3, <1>4, <1>5, <1>6, <1>7 DEF ServiceInv

-----------------------------------------------------------------------------
\* On macOS nothing of Linux's is there, and only labels with the command's name
\* change.
LEMMA NoLinux ==
  ASSUME ServiceInv, os = "darwin", UNCHANGED <<os, linux>>
  PROVE  /\ LinuxTyped' /\ os' = "darwin"
         /\ \A n \in Name : /\ unit'[n] = None /\ env'[n] = None
                             /\ n \notin enabled' /\ running'[n] = NotRunning
BY DEF ServiceInv, LinuxTyped, OneSystem, linux, NotRunning

LEMMA LabelFacts ==
  /\ \A p \in Prefix, n \in Name : <<p, n>> \in Label
  /\ \A l \in Label : \E p \in Prefix, n \in Name : l = <<p, n>>
  /\ \A p, q, n, m : <<p, n>> = <<q, m>> => p = q /\ n = m
BY DEF Label

LEMMA WritePlistInv == ServiceInv /\ WritePlist => ServiceInv'
<1> SUFFICES ASSUME ServiceInv, WritePlist PROVE ServiceInv'
  OBVIOUS
<1> DEFINE n == cmd.name
           l == <<"current", n>>
<1>1. /\ cmd.op = "install" /\ n \in Name /\ cmd.set \in Setting
      /\ cmd.step # None /\ os = "darwin" /\ told[n].op = None
  BY Busy DEF WritePlist, At
<1>2. /\ cmd' \in Commands /\ told' = told
      /\ cmd'.op = "install" /\ cmd'.name = n /\ cmd'.set = cmd.set
      /\ cmd'.step = "current"
  BY <1>1, ThenFacts DEF ServiceInv, WritePlist
<1>3. /\ plist' = [plist EXCEPT ![l] = cmd.set] /\ agent' = agent /\ clinging' = clinging
      /\ l \in Label
  BY <1>1, LabelFacts DEF WritePlist
<1>4. /\ LinuxTyped' /\ os' = "darwin"
      /\ \A m \in Name : /\ unit'[m] = None /\ env'[m] = None
                          /\ m \notin enabled' /\ running'[m] = NotRunning
  BY <1>1, NoLinux DEF WritePlist
<1>5. DarwinTyped' /\ CmdTyped' /\ ToldTyped'
  BY <1>1, <1>2, <1>3, <1>4 DEF ServiceInv, DarwinTyped, CmdTyped, ToldTyped
<1>6. OneSystem' /\ Underway' /\ InstalledSoFar' /\ RemovedSoFar'
  BY <1>1, <1>2, <1>4 DEF OneSystem, Underway, InstalledSoFar, RemovedSoFar
<1>7. NothingOutOfReach'
  BY <1>1, <1>3, <1>4 DEF ServiceInv, DarwinTyped, NothingOutOfReach
<1>8. ExitZeroHolds'
  <2> SUFFICES ASSUME NEW m \in Name PROVE Upheld(m)'
    BY DEF ExitZeroHolds
  <2>1. CASE m = n
    BY <1>1, <1>2, <2>1 DEF Upheld
  <2>2. CASE m # n
    <3>1. \A p \in Prefix : plist'[<<p, m>>] = plist[<<p, m>>]
      BY <1>3, <2>2, LabelFacts DEF ServiceInv, DarwinTyped
    <3> QED
      BY <1>2, <1>3, <1>4, <3>1 DEF ServiceInv, ExitZeroHolds, Upheld
  <2> QED
    BY <2>1, <2>2
<1> QED
  BY <1>1, <1>2, <1>4, <1>5, <1>6, <1>7, <1>8 DEF ServiceInv

LEMMA SweepInv ==
  ASSUME ServiceInv, NEW prefix \in Prefix, Sweep(prefix)
  PROVE  ServiceInv'
<1> DEFINE n == cmd.name
           l == <<prefix, n>>
           next == IF prefix = "current" THEN "legacy" ELSE "swept"
<1>1. /\ cmd.step = prefix /\ cmd.op \in Operation /\ n \in Name /\ os = "darwin"
      /\ told[n].op = None /\ l \in Label
      /\ cmd.op = "install" => cmd.set \in Setting
  BY Busy, LabelFacts DEF Sweep
<1>2. /\ told' = told /\ cmd' \in Commands /\ cmd'.op = cmd.op /\ cmd'.name = n
      /\ cmd'.set = cmd.set /\ cmd'.step = next
  <2>1. CASE Then(next)
    <3>1. next \in Step
      OBVIOUS
    <3> QED
      BY <2>1, <3>1, ThenFacts DEF ServiceInv
  <2>2. CASE /\ told' = told
             /\ \E b \in BOOLEAN : cmd' = [cmd EXCEPT !.step = next, !.found = @ \/ b]
    BY <2>2 DEF ServiceInv, CmdTyped, Commands
  <2> QED
    BY <2>1, <2>2 DEF Sweep
<1>3. /\ plist' \in [Label -> Setting \cup {None}] /\ agent' \in [Label -> Setting \cup {None}]
      /\ clinging' \subseteq Label
      /\ \A k \in Label : k # l => /\ plist'[k] = plist[k] /\ agent'[k] = agent[k]
                                   /\ k \in clinging' <=> k \in clinging
  <2>1. CASE UNCHANGED <<plist, agent, clinging>>
    BY <2>1 DEF ServiceInv, DarwinTyped
  <2>2. CASE \E unloads, removes \in BOOLEAN :
               /\ agent' = [agent EXCEPT ![l] = IF unloads THEN None ELSE @]
               /\ plist' = [plist EXCEPT ![l] = IF removes THEN None ELSE @]
               /\ clinging' = IF unloads /\ removes THEN clinging \ {l}
                              ELSE clinging \cup {l}
    BY <1>1, <2>2 DEF ServiceInv, DarwinTyped
  <2> QED
    BY <2>1, <2>2 DEF Sweep
<1>4. /\ l \notin clinging' => plist'[l] = None /\ agent'[l] = None
      /\ agent'[l] # None => plist'[l] # None \/ l \in clinging'
  <2>1. CASE plist[l] = None /\ UNCHANGED <<plist, agent, clinging>>
    BY <1>1, <2>1 DEF ServiceInv, NothingOutOfReach
  <2>2. CASE \E unloads, removes \in BOOLEAN :
               /\ agent' = [agent EXCEPT ![l] = IF unloads THEN None ELSE @]
               /\ plist' = [plist EXCEPT ![l] = IF removes THEN None ELSE @]
               /\ clinging' = IF unloads /\ removes THEN clinging \ {l}
                              ELSE clinging \cup {l}
    BY <1>1, <2>2 DEF ServiceInv, DarwinTyped
  <2> QED
    BY <2>1, <2>2 DEF Sweep
<1>5. /\ LinuxTyped' /\ os' = "darwin"
      /\ \A m \in Name : /\ unit'[m] = None /\ env'[m] = None
                          /\ m \notin enabled' /\ running'[m] = NotRunning
  BY <1>1, NoLinux DEF Sweep
<1>6. DarwinTyped' /\ CmdTyped' /\ ToldTyped'
  BY <1>2, <1>3, <1>5 DEF ServiceInv, DarwinTyped, CmdTyped, ToldTyped
<1>7. OneSystem' /\ Underway' /\ InstalledSoFar'
  BY <1>1, <1>2, <1>5 DEF OneSystem, Underway, InstalledSoFar
<1>8. RemovedSoFar'
  <2>1. CASE prefix = "current"
    BY <1>1, <1>2, <1>4, <1>5, <2>1 DEF RemovedSoFar, Clean
  <2>2. CASE prefix = "legacy"
    <3>1. cmd.op = "uninstall" => Clean(<<"current", n>>)
      BY <1>1, <2>2 DEF ServiceInv, RemovedSoFar
    <3>2. cmd.op = "uninstall" => Clean(<<"current", n>>)'
      BY <1>1, <1>2, <1>3, <2>2, <3>1, LabelFacts DEF Clean
    <3> QED
      BY <1>1, <1>2, <1>4, <1>5, <2>2, <3>2 DEF RemovedSoFar, Clean
  <2> QED
    BY <2>1, <2>2
<1>9. NothingOutOfReach'
  <2>1. ASSUME NEW k \in Label, agent'[k] # None PROVE plist'[k] # None \/ k \in clinging'
    BY <1>3, <1>4, <2>1 DEF ServiceInv, NothingOutOfReach
  <2> QED
    BY <1>5, <2>1 DEF NothingOutOfReach
<1>10. ExitZeroHolds'
  <2> SUFFICES ASSUME NEW m \in Name PROVE Upheld(m)'
    BY DEF ExitZeroHolds
  <2>1. CASE m = n
    BY <1>1, <1>2, <2>1 DEF Upheld
  <2>2. CASE m # n
    <3>1. \A p \in Prefix : <<p, m>> \in Label /\ <<p, m>> # l
      BY <2>2, LabelFacts
    <3> QED
      BY <1>2, <1>3, <1>5, <3>1 DEF ServiceInv, ExitZeroHolds, Upheld
  <2> QED
    BY <2>1, <2>2
<1> QED
  BY <1>1, <1>2, <1>5, <1>6, <1>7, <1>8, <1>9, <1>10 DEF ServiceInv

LEMMA LoadAgentInv == ServiceInv /\ LoadAgent => ServiceInv'
<1> SUFFICES ASSUME ServiceInv, LoadAgent PROVE ServiceInv'
  OBVIOUS
<1> DEFINE n == cmd.name
           l == <<"current", n>>
<1>1. /\ cmd.op = "install" /\ n \in Name /\ os = "darwin" /\ l \in Label
  BY Busy, LabelFacts DEF LoadAgent, At
<1>2. /\ cmd' = Idle /\ cmd'.op = None /\ cmd' \in Commands /\ ToldTyped'
      /\ told'[n].op = "install" /\ \A m \in Name : m # n => told'[m] = told[m]
  BY <1>1, ExitFacts, IdleFacts DEF ServiceInv, LoadAgent
<1>3. /\ agent' = [agent EXCEPT ![l] = IF plist[l] = None THEN @ ELSE plist[l]]
      /\ plist' = plist /\ clinging' = clinging
  BY DEF LoadAgent
<1>4. /\ LinuxTyped' /\ os' = "darwin"
      /\ \A m \in Name : /\ unit'[m] = None /\ env'[m] = None
                          /\ m \notin enabled' /\ running'[m] = NotRunning
  BY <1>1, NoLinux DEF LoadAgent
<1>5. DarwinTyped' /\ CmdTyped' /\ OneSystem' /\ Underway' /\ InstalledSoFar' /\ RemovedSoFar'
  BY <1>1, <1>2, <1>3, <1>4
     DEF ServiceInv, DarwinTyped, CmdTyped, OneSystem, Underway, InstalledSoFar, RemovedSoFar
<1>6. NothingOutOfReach'
  BY <1>1, <1>3, <1>4 DEF ServiceInv, DarwinTyped, NothingOutOfReach
<1>7. ExitZeroHolds'
  <2> SUFFICES ASSUME NEW m \in Name PROVE Upheld(m)'
    BY DEF ExitZeroHolds
  <2>1. CASE m = n
    BY <1>2, <1>4, <2>1 DEF Upheld
  <2>2. CASE m # n
    <3>1. \A p \in Prefix : agent'[<<p, m>>] = agent[<<p, m>>]
      BY <1>3, <2>2, LabelFacts DEF ServiceInv, DarwinTyped
    <3> QED
      BY <1>2, <1>3, <1>4, <2>2, <3>1 DEF ServiceInv, ExitZeroHolds, Upheld
  <2> QED
    BY <2>1, <2>2
<1> QED
  BY <1>2, <1>4, <1>5, <1>6, <1>7 DEF ServiceInv

LEMMA UninstalledInv == ServiceInv /\ Uninstalled => ServiceInv'
<1> SUFFICES ASSUME ServiceInv, Uninstalled PROVE ServiceInv'
  OBVIOUS
<1> DEFINE n == cmd.name
<1>1. cmd.op = "uninstall" /\ cmd.step = "swept" /\ n \in Name /\ os = "darwin"
  BY Busy DEF Uninstalled, At
<1>2. /\ cmd' = Idle /\ cmd'.op = None /\ cmd' \in Commands /\ ToldTyped'
      /\ told'[n].op = "uninstall" /\ \A m \in Name : m # n => told'[m] = told[m]
  BY <1>1, ExitFacts, IdleFacts DEF ServiceInv, Uninstalled
<1>3. \A p \in Prefix : Clean(<<p, n>>)
  BY <1>1 DEF ServiceInv, RemovedSoFar
<1>4. /\ LinuxTyped' /\ os' = "darwin" /\ UNCHANGED <<plist, agent, clinging>>
      /\ \A m \in Name : /\ unit'[m] = None /\ env'[m] = None
                          /\ m \notin enabled' /\ running'[m] = NotRunning
  BY <1>1, NoLinux DEF Uninstalled, darwin
<1>5. DarwinTyped' /\ CmdTyped' /\ OneSystem' /\ Underway' /\ InstalledSoFar' /\ RemovedSoFar'
  BY <1>1, <1>2, <1>4
     DEF ServiceInv, DarwinTyped, CmdTyped, OneSystem, Underway, InstalledSoFar, RemovedSoFar
<1>6. NothingOutOfReach'
  BY <1>4 DEF ServiceInv, NothingOutOfReach
<1>7. ExitZeroHolds'
  <2> SUFFICES ASSUME NEW m \in Name PROVE Upheld(m)'
    BY DEF ExitZeroHolds
  <2>1. CASE m = n
    BY <1>2, <1>3, <1>4, <2>1 DEF Upheld, Clean
  <2>2. CASE m # n
    BY <1>2, <1>4, <2>2 DEF ServiceInv, ExitZeroHolds, Upheld
  <2> QED
    BY <2>1, <2>2
<1> QED
  BY <1>2, <1>4, <1>5, <1>6, <1>7 DEF ServiceInv

-----------------------------------------------------------------------------
LEMMA BootInv == ServiceInv /\ Boot => ServiceInv'
<1> SUFFICES ASSUME ServiceInv, Boot PROVE ServiceInv'
  OBVIOUS
<1>1. LinuxTyped' /\ DarwinTyped' /\ ToldTyped'
  BY DEF ServiceInv, LinuxTyped, DarwinTyped, ToldTyped, Boot
<1>2. CmdTyped' /\ Underway' /\ InstalledSoFar' /\ RemovedSoFar' /\ cmd' = Idle
  BY IdleFacts DEF ServiceInv, CmdTyped, Underway, InstalledSoFar, RemovedSoFar, Boot
<1>3. OneSystem'
  BY DEF ServiceInv, OneSystem, Boot
<1>4. NothingOutOfReach'
  BY DEF ServiceInv, DarwinTyped, NothingOutOfReach, Boot
<1>5. ExitZeroHolds'
  <2> SUFFICES ASSUME NEW n \in Name PROVE Upheld(n)'
    BY DEF ExitZeroHolds
  <2>1. \A p \in Prefix : <<p, n>> \in Label
    BY LabelFacts
  <2> QED
    BY <2>1 DEF ServiceInv, LinuxTyped, DarwinTyped, ExitZeroHolds, Upheld, Boot
<1> QED
  BY <1>1, <1>2, <1>3, <1>4, <1>5 DEF ServiceInv

\* ServiceInv holds at every step of every program, command and machine.
THEOREM ServiceInvariance == Spec => []ServiceInv
<1>1. ServiceInv /\ [Next]_vars => ServiceInv'
  <2> SUFFICES ASSUME ServiceInv, [Next]_vars PROVE ServiceInv'
    OBVIOUS
  <2>1. CASE \E n \in Name, x \in Setting : Start("install", n, x)
    BY <2>1, StartInv
  <2>2. CASE \E n \in Name : Start("uninstall", n, None)
    BY <2>2, StartInv
  <2>3. CASE \E n \in Name : Crash(n)
    BY <2>3, CrashInv
  <2>4. CASE InstallUnit \/ InstallEnv \/ Reload \/ EnableNow \/ DisableNow \/ RemoveFiles
    BY <2>4, InstallUnitInv, InstallEnvInv, ReloadInv, EnableNowInv, DisableNowInv,
       RemoveFilesInv
  <2>5. CASE \E prefix \in Prefix : Sweep(prefix)
    BY <2>5, SweepInv
  <2>6. CASE WritePlist \/ LoadAgent \/ Uninstalled \/ GiveUp \/ Boot
    BY <2>6, WritePlistInv, LoadAgentInv, UninstalledInv, GiveUpInv, BootInv
  <2>7. CASE UNCHANGED vars
    BY <2>7 DEF vars, linux, darwin, ServiceInv, LinuxTyped, DarwinTyped, CmdTyped, ToldTyped,
                OneSystem, Underway, InstalledSoFar, RemovedSoFar, Clean, NothingOutOfReach,
                ExitZeroHolds, Upheld
  <2> QED
    BY <2>1, <2>2, <2>3, <2>4, <2>5, <2>6, <2>7 DEF Next
<1> QED
  BY <1>1, InitInv, PTL DEF Spec

\* Files, processes and commands are of their types throughout.
THEOREM ServiceTypes == Spec => []ServiceTypeOK
<1>1. ServiceInv => ServiceTypeOK
  BY TypeParts DEF ServiceInv
<1> QED
  BY <1>1, ServiceInvariance, PTL

\* Whatever was interrupted or failed, an uninstall can still get at what is
\* left of a service (NothingOutOfReach).
THEOREM NothingEverOutOfReach == Spec => []NothingOutOfReach
<1>1. ServiceInv => NothingOutOfReach
  BY DEF ServiceInv
<1> QED
  BY <1>1, ServiceInvariance, PTL

\* What a command that exited 0 was asked for is so until the next command on
\* that service (ExitZeroHolds).
THEOREM ExitZeroAlwaysHolds == Spec => []ExitZeroHolds
<1>1. ServiceInv => ExitZeroHolds
  BY DEF ServiceInv
<1> QED
  BY <1>1, ServiceInvariance, PTL
=============================================================================
