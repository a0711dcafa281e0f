# mygrok in TLA+

mygrok gives a local HTTP server a public name. `mygrokd` (`cmd/mygrokd`) runs on
a public host; `mygrok` (`cmd/mygrok`) dials it, sends a JSON line (`Hello`) and
keeps a yamux session open. A visitor's request to `<sub>.<public-host>`, or to a
custom hostname, becomes a stream of that session, which the client takes apart
into requests to the local server.

This directory models that system in TLA+, checks the models with TLC and proves
theorems about each modelled component with TLAPS. Line numbers below are those of the
commit in `src/`; `main.go` is the server's unless it says "client".

## 1. Inventory

| Component | Source | State | Operations | What makes it correct |
|---|---|---|---|---|
| Tunnel registry | `mygrokd/main.go` 87-221 | `tunnels`, `customHosts` under `registry.mu` | `claim`, `release`, `get`, `lookup`, `hostKnown` | the maps agree; a name is lost lawfully; nobody is stranded |
| Control-connection handler | `main.go` 483-735 | its locals, the yamux session | hello, claim, answer, wait, deferred calls | every claim is released, a reconnect takes its own name over |
| Public request handler | `main.go` 771-1070 | its locals `t`, `sub`, possibly stale | route, redirect, ACL, gate, open, evict, copy | nobody gets in unchecked; who may get in does in the end; acts only on what it resolved; releases everything |
| LAN-direct | `mygrokd/lan.go`, `main.go` 531-617 | `lanManager.active`, the DNS zone | `UpsertA`, `DeleteA`, `WildcardCertPEM` | the A record points at a live client or is gone |
| Client loop | `mygrok/main.go` 321-463 | attempt counter, `bufio.Reader`, session | dial, read answer, switch to yamux, back off | yamux sees exactly the server's frames; gets through in the end |
| Forwarding | `mygrok/main.go` 465-626 | one goroutine per stream, two after an upgrade | read request, dial, answer, upgrade | answers match requests; nothing leaks |
| Passkey store | `passkeys.go` | users, credentials, ceremonies, sessions; a file | see `Access` | no credential without user |
| Tunnel locks | `tunnellocks.go` | lists of users per tunnel; a file | `Grant`, `Revoke`, `Unlock`, ... | a list never names a forgotten user |
| Invites | `invites.go` | invites and who used them; a file | `Issue`, `Lookup`, `MarkConsumed`, `Delete` | one redeemer per invite |
| Access handlers | `auth.go` | cookies | invite, login, account, admin pages | several store calls, nothing held in between |
| IP access control | `ipacl.go` | global and per-tunnel lists; a file | `Add`, `Remove`, `Check`, `load` | answers to the admin hold across restarts |
| Admin page | `admin.go` | admin sessions | forms on all of the above | what it answers is so |
| `mygrok admin` | `mygrok/admin.go` | a command's progress | look a name up, post a form, turn the answer into an exit code | an exit code says what became of the server |
| `mygrok service` | `mygrok/service.go` | unit and token files, plists; what systemd or launchd runs | `install`, `uninstall`, a program after the other | nothing is left that uninstall cannot reach; "done" is so |
| TLS | `main.go` 317-463, `dnsprovider.go` | certmagic's cache | decision function | certificates only for claimed hostnames |
| Client configuration, LAN listener, static server, update | `mygrok/{config,lan,serve,update}.go` | files | sequential | |

Interaction: the handlers of all connections are goroutines of one process and
share the registry, the LAN manager and the stores, each of which has a mutex of
its own; no two mutexes are ever held together. The client and the server share
one TCP connection, which changes from JSON lines to yamux in the middle. A
pre-empted handler learns of it only because a detached goroutine closes its
session.

What is hard here, and to test: a handler's deferred calls run long after its name
has been given to somebody else; a visitor acts on a tunnel it resolved several
checks ago; DNS calls take seconds and hold nothing; the answer to the hello shares
the wire with frames of a session that started before it; every access handler is
a sequence of atomic store calls with others in between; memory and file differ
after a failed save; a public request is decided by reads of five stores, each of
which may have changed when the next is read; an administrator's command may have
been carried out although its answer was lost; an install ends between any two of
the programs it runs. `PROJECT.json` lists these under "hazards", each at its line,
with the properties that would notice, or a note on why none does.

## 2. Modules

| Module | Models | State and actions |
|---|---|---|
| `NameDirectory` | nothing in the code: the promise | names bound to connections, atomically |
| `TunnelServer` | registry, control handlers, visitors' use of them | one `pc` per connection (`claim`, `reply`, `serving`, `unwind`, `release`), one `vpc` per visitor (`routed`, `evict`) |
| `LanDirect` | `EXTENDS TunnelServer` with `lanManager` and the zone | every handler step conjoined with what it does about the record; DNS calls as steps of their own in `lpc`; `Restart` |
| `Handshake` | client loop against the server's half of one connection | `cpc`, `spc`, the `wire`, the client's `bufio.Reader`, the attempt counter and the delay before the next dial |
| `StreamProxy` | one visitor's connection end to end | four pipes, the server's two goroutines, the client's loop and its two pumps |
| `Access` | three stores and the handlers of `auth.go` | a `req` per browser and per admin request: where its handler stands between two store calls |
| `IpAcl` | `ipACL` and its file | lists in memory and on disk; `Add`, `Remove`, `Reload`; `Check` of a visitor's address, which `net.ParseIP` may be unable to read |
| `Gate` | `EXTENDS NameDirectory` with the whole of `handlePublicConn` up to the stream | per visitor: where its request stands (`gpc`), the handler's locals, its cookie's session; the stores' methods as the rest of the world |
| `AdminCli` | `mygrok admin`, the handlers it talks to, their stores and files | per terminal: the command, the client's end (`pc`) and the handler's (`job`); objects in memory and on disk |
| `Service` | `mygrok service install` and `uninstall` with what systemd and launchd keep | unit, token file, plist; what is enabled, loaded, running; the step the command has reached |
| `TunnelServerProofs` | proofs | about `TunnelServer`, that it implements `NameDirectory`, and about `LanDirect` |
| `HandshakeProofs`, `StreamProxyProofs`, `AccessProofs`, `IpAclProofs`, `GateProofs`, `AdminCliProofs`, `ServiceProofs` | proofs | about the module each is named after |
| `MC*` | constants and symmetry for TLC | |

A `*tunnel`, its yamux session and its handler are made for one connection, so in
`TunnelServer` the connection stands for all three; a value of `Conn` is used again
only when nothing in the code could still hold the old one (`Accept`).
What happens under one lock is one action, together with the local work up to the
next call. Deferred calls are actions in their order: LAN teardown, `sess.Close`,
`release`.

`Gate` is built on the directory and not on `TunnelServer`, which is proved to
implement it: a gate sees of the registry only who holds a name, who is alive and
what was claimed. So tunnels come, go and change hands in `Gate` in every way the
directory allows, and in no way it does not. The rules change one store call at a
time, as `IpAcl` and `Access` say they do. `AdminCli` has the stores more
coarsely than these two, as sets of objects, and in exchange has what lies on
either side: a client that gives up, an answer that is lost, a file that is not
written.

The definitions named after slips (`releaseAnySession`,
`CopyDownKeepsConn`, ...) are no part of a specification: each stands before the
definition it would replace and says what bug a property is there to notice.

## 3. Runs

| Run | Module | Shows |
|---|---|---|
| `TunnelServer` | `MCTunnelServer` | `TypeOK`, `HostsAgree`, `NoCorpse`, `NoOrphan`, `OnlyLawfulLoss`, and that it implements `NameDirectory` |
| `LanDirect` | `MCLanDirect` | `RecordOfLoneTunnel`: the record is right while handlers of a subdomain follow one another, and one such handler mends what was wrong |
| `LanDirectLive` | `MCLanDirect` | `DeadNameFreed`, `PreemptedEnds`, `TeardownEnds` under fairness |
| `Handshake` | `MCHandshake` | `YamuxStartsClean`, `BothSidesSwitched`, `ConnectsWhenQuiet` |
| `StreamProxy` | `MCStreamProxy` | `OwnAnswers`, `AnswerBegins`, `Released` |
| `Access` | `MCAccess` | `CredentialsOwned`, `DeletedIsForgotten`, `OneRedeemer` |
| `IpAcl` | `MCIpAcl` | `AnswersHold`, `RestartKeepsVerdicts`; `BlockedStayOut`: a visitor with a readable address that the admin was told is blocked is refused |
| `Gate` | `MCGate` | `NobodyUnchecked`: whoever reaches a tunnel had its address permitted and the lock open to it at some moment of that request; `GetsIn`: whoever is welcome and keeps asking gets in, again and again |
| `AdminCli` | `MCAdminCli` | `ToldHolds`: what exit code 0 said holds, in memory and file, until the next command on it; `RefusalIsHarmless`: what exit code 3 leaves behind |
| `Service` | `MCService` | `NothingOutOfReach`, `ExitZeroHolds`: after any failed, interrupted or repeated commands, crashes and boots |

Two runs look for, and find, a behaviour that a document of the repository rules
out:

- `LanRecord`: after a takeover the DNS calls of the old handler and of the new one
  race, and the record is left wrong with no failed call. `docs/architecture.md:269`
  says the server deletes the record on disconnect, takeover included.
- `ServiceInstall`: `installLaunchd` writes the agent's plist and then unloads and
  removes every plist of that name, the new one included, before it loads it
  (`service.go:396-409`). `docs/cli.md:183` says that the agent is written and loaded.

Disagreements that no run shows, because a line or a comparison is all there is to
them, or because the models agree with the code and the document does not:

- Redirect. It looks at what `claim` stored in the tunnel (`main.go:833`), so a tunnel
  that came up without LAN-direct has its same-NAT visitors redirected, although the
  comment above says such tunnels are skipped. It names no port, while the client
  listens on `--lan-port`, 8443 unless told otherwise, which `proto.go:34` announces.
  It precedes the address lists: a blocked visitor is redirected, not refused.
- Invites. Two browsers with one invite make two accounts, of which one is recorded;
  `docs/access-control.md:209` says redeeming is atomic and `invites.go:5` one-shot.
- Passkeys. Two overlapping deletions leave none; `docs/access-control.md:225` says the
  last one is not deleted.
- Locks. An admin's "lock" with no users registered makes no entry (`auth.go:485-498`).
  A locked tunnel can be entered by its subdomain over TLS only: the cookie is
  `Secure` and of the zone, and `safeReturnURL` leads back to https URLs of the zone,
  so visitors of a custom hostname, or by http, go round in circles. `GetsIn` is
  therefore about subdomains over TLS.
- Unreadable addresses. `Check` permits an address that `net.ParseIP` could not read
  before it looks at any list (`ipacl.go:229-231`); a link-local IPv6 peer's is such a
  one, for `remoteIPFrom` keeps its zone (`main.go:980-986`). `docs/access-control.md:96`
  says that who is on the global blocklist is banned everywhere. `Unread` stands for
  these addresses, and `BlockedStayOut` is about the others.
- Lists. The rules of a tunnel called `global` go to the global lists
  (`ipacl.go:365`), while `docs/access-control.md:148` says that a per-tunnel allowlist
  locks down that tunnel only. An `Add` whose save failed is refused as "already in"
  the list when it is retried, and lost with the next restart.
- Every request. The help of `mygrok admin` (`mygrok/admin.go:1064`) speaks of a check
  on each public request; a connection is checked for its first request only
  (`main.go:850`).
- Exit codes. `lock`, `unlock`, `passkeys delete` and `users delete` are answered the
  same whatever the stores said, so their exit code 0 promises nothing
  (`mygrok/admin.go:1138` calls it success); a name that could not be looked up is sent
  as it is, and `users delete alice` then exits 0 with nobody deleted. A wrong token is
  exit code 1 from commands that post a form, not 3.
- Forwarding. An answer that ends with its connection need not end for the visitor, and
  a 100 or 103 is taken for the answer, although `docs/architecture.md:43` says there is
  no HTTP parsing past the Host line: with `interim` among `Answers`, `OwnAnswers` of
  `StreamProxy` is violated.
- Labels. A client may claim the subdomain `tunnel`, whose name is the management host's.
- Services. On Linux `enable --now` leaves a running process with the settings it has;
  only its next start has the new ones. A reinstall that is cut short can leave a unit
  and a token file of two installs.

### Bounds, and why they are enough

- `TunnelServer`: three connections, one visitor, two subdomains, one hostname, an
  anonymous client and one with an id. Three connections are a tunnel, its
  replacement and a rival or a third generation; two subdomains fight for the
  hostname. Several visitors only evict in turns: all they write is under `release`.
- `LanDirect`: two connections and two addresses, one subdomain: the old handler and
  the new one, with the same address or another. The liveness run has no symmetry
  and no hostnames.
- `Handshake`: `MaxEarly` frames before the client runs yamux, `MaxTrouble` refused
  claims and broken connections, `WireCap` items under way. The first two also state
  what `ConnectsWhenQuiet` assumes: disturbances end. The attempt counter is capped
  at 15, where the delay has reached its ceiling of 30 seconds.
- `StreamProxy`: three requests, so that one is answered, one under way and one
  behind it.
- `Access`: two browsers, one admin request, two users, two passkeys, one invite,
  one tunnel: two redemptions, a deletion and a grant at the same time, and a passkey
  that is offered twice.
- `IpAcl`: an entry for an address and one for a network around it; three visitors, at
  the address, elsewhere in the network, and in it under an address that cannot be
  read; a tunnel with a name of its own and one called `global`, an old file or a new
  one.
- `Gate`: one visitor, for visitors share nothing but the stores, and whatever another
  one or its administrator could do to them the world does; two connections, so that a
  name changes hands under a request; one subdomain and one hostname; two users, so that
  a list may hold somebody else; one address, which is also where the second client is,
  so that there is a redirect; a wildcard certificate.
- `AdminCli`: two terminals, two users of one name, one of them with a passkey, a rule,
  an invite and a tunnel. `MaxFaults` is how many writes fail and how often the server
  restarts, `MaxCommands` how many commands are given: a command, one that overlaps or
  repeats it, and one after both.
- `Service`: two services, two settings, Linux and macOS, with whatever a release before
  1.0 had installed. Nothing is bounded.

Deadlock is checked everywhere but in `StreamProxy`, where everything may end, and in
`AdminCli`, where commands run out.

### Fairness

A goroutine that can run is scheduled: weak fairness of each handler's, visitor's
and copying goroutine's steps. DNS calls run under deadlines of 5 and 10 seconds
(`main.go` 563-614), so they end. In `StreamProxy` the visitor reads what it is sent
and the local server answers in the end and closes a connection its peer has closed:
the client waits for it without a deadline (client `main.go:574`), so nothing weaker
would do. In `Gate` a handler that can go on does, a certificate that may be ordered
arrives, a person sent to the login page signs in, and one who has been let in leaves
in the end; that a visitor comes back for the same tunnel is no fairness but a
premise of `GetsIn`, and so is that rules and tunnel stay as they are from some moment
on. Nothing obliges a client to connect, a session to die, a visitor to come
or a fault to happen. In `Handshake` the two programs run and the rest may stop.

## 4. Proofs

TLAPS proves these for all values of the constants, from the assumptions named
beside them, which TLC evaluates in the runs. They say that `None` is not one of the
values it stands beside, that kinds of values are distinct (`NamesAssumption`,
`LanAssumption`, `AccessAssumption`, `AclAssumption`, `NoBucketAssumption`,
`GateAssumption`, `ServiceAssumption`; `AdminCliAssumption` also that a user has a name
and a passkey an owner), and that bounds are numbers (`BoundsAssumption`,
`AnswersAssumption`). One theorem has a hypothesis of its own, `AnswersAreOwn`.

Every invariant and every action property that a passing run checks is a theorem, and
so is the refinement. None of them is inductive alone; what each needs besides:

- `TunnelServerProofs`, the server: `TypeCorrect`, `RegistryAgrees`, `NoCorpseEver`,
  `NoOrphanEver`, `LawfulLossOnly`, all from the invariant of `Invariance`. That the
  fence of `release` protects a new owner needs that a registered connection's handler
  has claimed and not yet released, that its hello is for the subdomain it is
  registered under, that a visitor's `t` has a handler or had one and that its `vsub`
  is that tunnel's, and that a session waiting to be closed is no longer registered.
  `Refinement` is the step simulation: each action of `TunnelServer` is a `Connect`,
  `Die`, `Bind`, `TakeOver` or `Drop` of `NameDirectory`, or changes nothing it can see.
- `TunnelServerProofs`, LAN-direct: `LanIsTheServer`, each step is one of the server's,
  a restart, or none, so that `LanKeepsRegistry` has the server's properties with DNS
  calls in between; `LanTypes`; and `LoneRecordIsRight`, from `LanSure`. `LanPhases`
  says which DNS work goes with which part of the handler; `LoneHandler`, that a
  subdomain in `alone` has one handler at most; `Tracked`, what zone and `active` hold
  while that handler is at each of its steps: its own address, in both, from the moment
  the record is noted until the undo or the teardown starts; the address being deleted,
  in the zone alone, during the call; nothing before and after. The teardown's look at
  the registry cannot skip the record of such a handler, for whoever the registry
  names under the subdomain is a handler of it, hence the same.
- `HandshakeProofs`: `HandshakeTypes`, `YamuxIsHandedAll`, `BothSwitch`. `OneLine`:
  the JSON line is on the wire or in the client's reader, once, and not before the
  handler has decided; `Switched`: once the client runs yamux the server does or is
  gone, and no line is to come.
- `StreamProxyProofs`: `StreamTypes`, and `AnswersAreOwn` for local servers that send no
  100 or 103 (with them it is false, section 3). `InOrder` counts: `Taken`, the
  requests the client has taken from the stream, is the answers the visitor has and
  those on their way to it, and one more while it is being forwarded; what is behind it
  in each of the four pipes is numbered on from there. It speaks only of pipes from
  which nothing has been lost: once a copy has ended or a half-read answer remains,
  nothing counts as an answer any more.
- `AccessProofs`: `AccessTypes`, `PasskeysHaveUsers`, `OneRedeemerOnly`, for which the
  type invariant is the strengthening: which user and which object a request carries in
  each of its phases; and `DeletionsAreComplete`, from `Forgetting`. Its parts: who is
  named anywhere has been made (`Known`), an invited user is one request's alone
  (`Invited`), a passkey that was verified is its user's or gone (`StillOwned`), and
  `Clear`: from the revocation on no request adds anything to an undisturbed user, and
  from the end of the kick the user has no session.
- `IpAclProofs`: `AclTypes`, `AnswersAlwaysHold`, `BlockedAlwaysOut` (at addresses
  that can be read: `Unread` is any set of addresses), `RestartsKeepVerdicts`, from `AclInv`, which adds that no bucket is ever kept for a
  tunnel called `global`. `HoldsSaved` is the heart of it: what a start reads back
  from `saveLocked`'s file has the same rules as memory had.
- `GateProofs`: `GateTypes` and `NobodyEverUnchecked`, from `GateInv`. What a handler
  read is stale by the time it acts, so the property speaks of a history, `due`: what
  the rules have said to the request since it was routed. `GateInv` ties each label to
  it: while a request is decided the history is about the subdomain in `vsub`, which
  for a custom hostname is the lease's; the cookie still is the user the history
  watches, or stands for nobody; past the lists the address has been permitted, and
  before the stream is opened the lock has been off or open to that user. Of the
  registry it needs `NamesHeld`: a holder has a lease on the name.
- `AdminCliProofs`: `AdminTypes`, from `Base` (what a command is about, by its verb),
  and `SuccessIsReal` and `RefusalsAreHarmless`, from `Sure`. While nobody else touches
  what a command is about (`Apart`, `Untouched`), what its handler has left there does
  not change (`Truthful`, `StillSo`), whatever is written meanwhile and however it ends:
  a write changes what its own command is about, and puts on disk of the rest of its
  file what memory holds, which is what was there (`Fresh`, `Chosen`). The proof is
  for any number of faults and commands, and found what the run with `MaxFaults = 1`
  could not: a user whose deletion was not saved is back after a restart, and if the
  name has another bearer, a command by that name whose lookup is under way goes to the
  one who is back. Such a restart now counts, in `clean`, as a disturbance of that command.
- `ServiceProofs`: `ServiceTypes`, `NothingEverOutOfReach` and `ExitZeroAlwaysHolds`,
  from `ServiceInv`. It says that the other system's state is untouched, which steps
  each command may stand at, what a command that stands there has done so far
  (`InstalledSoFar`, `RemovedSoFar`) and that nobody has undone it: neither a crash,
  which is of a running process only, nor a boot, which ends the command.

Only model-checked: liveness (`DeadNameFreed`, `PreemptedEnds`, `TeardownEnds`,
`ConnectsWhenQuiet`, `AnswerBegins`, `Released`, `GetsIn`), which rests on fairness and
`ENABLED`, out of the prover's reach; and the two violations, which are single
behaviours. That `Gate` may stand on the directory is argued, not proved: `Refinement`
is about `TunnelServer`, and `Gate` adds to the directory without restricting it.

## 5. What is not modelled, and what is abstracted

- yamux, TLS, WebAuthn, certmagic and the DNS providers are external: a session is
  open or closed and may close at any time; `Open` may fail on an open session too;
  a verified ceremony is a step that may also not happen. What yamux writes before
  the client reads is in `Handshake`, flow control is nowhere.
- The checks on a hello that only refuse are the precondition of `Accept`.
  `normalizeHostnames`, `subdomainOf` and the rewriting of headers are pure and left
  for a module of their own.
- The ACL and the passkey gate are one nondeterministic refusal in `TunnelServer`
  (`TurnedAway`): what they decide is state the registry has nothing to do with, and
  `Gate` has it.
- `Gate`: whom `IpAcl`'s `Check` permits, an address it cannot read included, is here a
  set of pairs of tunnel and address;
  a certificate authority's failures, the second listener's absence, the `X-Forwarded`
  headers and the stripping of cookies are left out. `due` is a history variable. The
  property asks for a moment at which the rules welcomed the visitor, not for one moment
  at which all of them did, for the code reads them one after the other.
- `Access`: browsers run one ceremony at a time, and its pending entry is part of
  the request; of the saves only `AddCredential`'s may fail, whose error the code acts
  on (the others fail in `AdminCli`): `unsaved` has the passkeys that are in memory
  only. The admin's own passkeys and `UpdateCredential`'s counter are left out, its save
  is not. A redemption whose passkey is refused, as known already or of no user, or not
  saved, is rolled back by a call of its own, which takes user and passkey away and
  leaves lists and sessions alone. `from` and `raced` are history variables. A deletion
  that a grant, a login or a redemption of the same user overlaps can leave the id in a
  list or a session, and so can a roll-back, which is why `DeletedIsForgotten` excludes
  both; the id is never drawn again. The `Panic` of `finishRegistration` on a deleted
  user is an action.
- `Handshake`: the delay is in whole seconds, without its jitter: twice the attempt up
  to the ceiling, or one second after the answer "subdomain in use".
- `LanDirect`: `alone` and `calm` are history variables. A failed DNS call may have
  been applied.
- `StreamProxy`: a message is one item; what follows an upgrade is not modelled, only
  how it ends. `closeWrite(stream)` may or may not do something, since the stream's
  type may lack `CloseWrite`. The run's answers have an end or end with the
  connection; interim answers are in no run.
- `IpAcl`: the order of lists and the notes are left out; a file that cannot be
  parsed stops the start.
- `AdminCli`: the HTTP client's timeout is a client that gives up at any time. `told`
  and `clean` are history variables; a command that somebody else's overlaps is promised
  nothing, and neither is one by a name whose bearer a restart brings back, because the
  deletion had not been saved. Commands that only read, and a wrong token, change nothing.
- `Service`: systemd and launchd are external and do what their manuals say; a unit is
  known from the last reload, a process takes its settings when it starts. `rm -f` of two
  files may end between them. `cut`, `clinging` and `told` are history variables, the
  first two for what no later command can know: a token file whose unit is gone, an agent
  that `launchctl` would not unload.
- Not modelled: TLS set-up and the client's LAN listener (a TLS listener and a copy loop),
  configuration files and flags, the static server (`net/http`'s), the update, the
  admin page's token sessions, its own passkeys and its HTML, scripts. They are
  sequential, or I/O of other programs.

## 6. Plan

Done in this order: the registry and its directory, LAN-direct on top of it, the
handshake, the access stores, forwarding, the IP list, the visitor's gate, the
administrator's commands, the services; then the proofs, of each component's
invariants in turn. Next:

1. Hostnames: `normalizeHostnames`, `validateCustomHost` and `subdomainOf` as
   operators on sequences of labels, against what routing needs of them.
2. A takeover in `LanDirect`: what can be said of the record when handlers overlap,
   short of `RecordAfterTakeover`, which is false.
3. `Gate` on top of `TunnelServer` itself: that what it adds commutes with the mapping.
4. A crash between the store calls of `Access`, with files; the admin's token sessions
   and own passkeys.
5. The client's LAN listener and its configuration file, as far as they have states
   worth checking.
