---------------------------- MODULE TunnelServer ----------------------------
(***************************************************************************)
(* The tunnel registry of mygrokd (cmd/mygrokd/main.go) and the goroutines *)
(* that share it: one handler per control connection, one goroutine per    *)
(* public request, and the detached `go preempted.session.Close()`.        *)
(*                                                                         *)
(* A *tunnel and the yamux session inside it are made by one handler for   *)
(* one connection, so the connection stands for all three. registry.mu     *)
(* makes claim, release, get and lookup atomic; everything between two     *)
(* such calls interleaves.                                                 *)
(***************************************************************************)
CONSTANTS
  Conn,       \* control connections (a value is reused once nothing holds it)
  Visitor,    \* goroutines serving public requests
  Sub,        \* valid, unreserved subdomains
  Host,       \* normalised custom hostnames
  ClientId,   \* values of Hello.ClientID
  Anonymous,  \* the empty Hello.ClientID
  None        \* nil: no tunnel, no subdomain, no hello

Hello == [sub : Sub, client : ClientId, hosts : SUBSET Host]

ASSUME NamesAssumption ==
  /\ None \notin Conn \cup Sub \cup Hello
  /\ Sub \cap Host = {}

VARIABLES
  tunnels,      \* registry.tunnels: Sub -> connection of the *tunnel, or None
  customHosts,  \* registry.customHosts: Host -> subdomain, or None
  sess,         \* Conn -> "open" or "closed", the yamux session
  pc,           \* Conn -> where its handler stands
  hello,        \* Conn -> the Hello its handler runs on, None when it has none
  closing,      \* sessions with a `go session.Close()` still to run
  vpc,          \* Visitor -> where the request stands
  vtun,         \* Visitor -> its local t, possibly stale
  vsub          \* Visitor -> its local sub

regVars == <<tunnels, customHosts>>
vars == <<tunnels, customHosts, sess, pc, hello, closing, vpc, vtun, vsub>>

Registered(c) == \E s \in Sub : tunnels[s] = c

Init ==
  /\ tunnels = [s \in Sub |-> None]
  /\ customHosts = [h \in Host |-> None]
  /\ sess = [c \in Conn |-> "closed"]
  /\ pc = [c \in Conn |-> "gone"]
  /\ hello = [c \in Conn |-> None]
  /\ closing = {}
  /\ vpc = [v \in Visitor |-> "idle"]
  /\ vtun = [v \in Visitor |-> None]
  /\ vsub = [v \in Visitor |-> None]

-----------------------------------------------------------------------------
(* registry.claim and registry.release                                     *)

HostTaken(c) ==
  \E h \in hello[c].hosts : customHosts[h] \notin {None, hello[c].sub}

SubTaken(c) ==
  LET existing == tunnels[hello[c].sub]
  IN  /\ existing # None
      /\ \/ hello[c].client = Anonymous
         \/ hello[existing].client # hello[c].client

\* The tunnel's hostnames when there is one.
HostsOf(t) == IF t = None THEN {} ELSE hello[t].hosts

\* Slips the runs are tested with: a pre-empted session nobody closes, ...
claimWithoutClose(c) ==
  LET s == hello[c].sub
      preempted == tunnels[s]
  IN  /\ tunnels' = [tunnels EXCEPT ![s] = c]
      /\ customHosts' = [h \in Host |->
                           IF h \in hello[c].hosts THEN s
                           ELSE IF h \in HostsOf(preempted) THEN None
                           ELSE customHosts[h]]
      /\ UNCHANGED closing

\* ... the hostnames of a pre-empted tunnel left in the map, ...
claimKeepsHosts(c) ==
  /\ tunnels' = [tunnels EXCEPT ![hello[c].sub] = c]
  /\ customHosts' = [h \in Host |->
                       IF h \in hello[c].hosts THEN hello[c].sub ELSE customHosts[h]]
  /\ closing' = closing \cup ({tunnels[hello[c].sub]} \ {None})

claim(c) ==
  LET s == hello[c].sub
      preempted == tunnels[s]
  IN  /\ tunnels' = [tunnels EXCEPT ![s] = c]
      /\ customHosts' = [h \in Host |->
                           IF h \in hello[c].hosts THEN s
                           ELSE IF h \in HostsOf(preempted) THEN None
                           ELSE customHosts[h]]
      /\ closing' = closing \cup ({preempted} \ {None})

\* ... a release that looks only at the name, ...
releaseAnySession(s, c) ==
  /\ tunnels' = [tunnels EXCEPT ![s] = None]
  /\ customHosts' = [h \in Host |-> IF customHosts[h] = s THEN None ELSE customHosts[h]]

\* ... one that forgets the hostnames, ...
releaseKeepsHosts(s, c) ==
  /\ tunnels' = IF tunnels[s] = c THEN [tunnels EXCEPT ![s] = None] ELSE tunnels
  /\ UNCHANGED customHosts

\* The fence: only the session that is registered now can be released.
release(s, c) ==
  IF tunnels[s] = c
  THEN /\ tunnels' = [tunnels EXCEPT ![s] = None]
       /\ customHosts' = [h \in Host |->
                            IF h \in hello[c].hosts THEN None ELSE customHosts[h]]
  ELSE UNCHANGED regVars

-----------------------------------------------------------------------------
(* handleTunnelConn                                                        *)

Goto(c, label) == pc' = [pc EXCEPT ![c] = label]

CloseSession(c) == sess' = [sess EXCEPT ![c] = "closed"]

\* A hello that passed every check before reg.claim; one that does not leaves
\* nothing behind. The connection is a new object: nothing still refers to it.
Accept(c, m) ==
  /\ pc[c] = "gone"
  /\ c \notin closing
  /\ \A v \in Visitor : vtun[v] # c
  /\ hello' = [hello EXCEPT ![c] = m]
  /\ sess' = [sess EXCEPT ![c] = "open"]
  /\ Goto(c, "claim")
  /\ UNCHANGED <<tunnels, customHosts, closing, vpc, vtun, vsub>>

ClaimRefused(c) ==
  /\ pc[c] = "claim"
  /\ HostTaken(c) \/ SubTaken(c)
  /\ CloseSession(c)
  /\ Goto(c, "gone")
  /\ hello' = [hello EXCEPT ![c] = None]
  /\ UNCHANGED <<tunnels, customHosts, closing, vpc, vtun, vsub>>

ClaimGranted(c) ==
  /\ pc[c] = "claim"
  /\ ~HostTaken(c)
  /\ ~SubTaken(c)
  /\ claim(c)
  /\ Goto(c, "reply")
  /\ UNCHANGED <<sess, hello, vpc, vtun, vsub>>

\* WriteJSONLine(conn, resp): it can only succeed while the connection, which
\* the session closes with itself, is open, and it may fail at any time.
Reply(c) ==
  /\ pc[c] = "reply"
  /\ \/ sess[c] = "open" /\ Goto(c, "serving")
     \/ Goto(c, "unwind")
  /\ UNCHANGED <<tunnels, customHosts, sess, hello, closing, vpc, vtun, vsub>>

\* ... a handler that only a takeover wakes, ...
DownWhenReplaced(c) ==
  /\ pc[c] = "serving"
  /\ sess[c] = "closed"
  /\ ~Registered(c)
  /\ Goto(c, "unwind")
  /\ UNCHANGED <<tunnels, customHosts, sess, hello, closing, vpc, vtun, vsub>>

\* <-sess.CloseChan()
Down(c) ==
  /\ pc[c] = "serving"
  /\ sess[c] = "closed"
  /\ Goto(c, "unwind")
  /\ UNCHANGED <<tunnels, customHosts, sess, hello, closing, vpc, vtun, vsub>>

\* defer sess.Close(), after the deferred LAN teardown
DeferredClose(c) ==
  /\ pc[c] = "unwind"
  /\ CloseSession(c)
  /\ Goto(c, "release")
  /\ UNCHANGED <<tunnels, customHosts, hello, closing, vpc, vtun, vsub>>

\* ... a handler that returns without the deferred release, ...
DeferredReleaseMissing(c) ==
  /\ pc[c] = "release"
  /\ Goto(c, "gone")
  /\ hello' = [hello EXCEPT ![c] = None]
  /\ UNCHANGED <<tunnels, customHosts, sess, closing, vpc, vtun, vsub>>

\* defer reg.release(sub, sess), then conn.Close()
DeferredRelease(c) ==
  /\ pc[c] = "release"
  /\ release(hello[c].sub, c)
  /\ Goto(c, "gone")
  /\ hello' = [hello EXCEPT ![c] = None]
  /\ UNCHANGED <<sess, closing, vpc, vtun, vsub>>

\* ... a detached goroutine that ends without closing, ...
PreemptedCloseIdle(c) ==
  /\ c \in closing
  /\ closing' = closing \ {c}
  /\ UNCHANGED <<tunnels, customHosts, sess, pc, hello, vpc, vtun, vsub>>

\* The goroutine started by claim.
PreemptedClose(c) ==
  /\ c \in closing
  /\ CloseSession(c)
  /\ closing' = closing \ {c}
  /\ UNCHANGED <<tunnels, customHosts, pc, hello, vpc, vtun, vsub>>

\* The peer goes away or a keepalive times out: yamux closes the session.
SessionDies(c) ==
  /\ sess[c] = "open"
  /\ CloseSession(c)
  /\ UNCHANGED <<tunnels, customHosts, pc, hello, closing, vpc, vtun, vsub>>

-----------------------------------------------------------------------------
(* handlePublicConn                                                        *)

Routed(v, t, s) ==
  /\ vpc' = [vpc EXCEPT ![v] = "routed"]
  /\ vtun' = [vtun EXCEPT ![v] = t]
  /\ vsub' = [vsub EXCEPT ![v] = s]

Answered(v) ==
  /\ vpc' = [vpc EXCEPT ![v] = "idle"]
  /\ vtun' = [vtun EXCEPT ![v] = None]
  /\ vsub' = [vsub EXCEPT ![v] = None]

\* reg.get(sub); with no tunnel the visitor gets the offline page.
RouteBySub(v, s) ==
  /\ vpc[v] = "idle"
  /\ tunnels[s] # None
  /\ Routed(v, tunnels[s], s)
  /\ UNCHANGED <<tunnels, customHosts, sess, pc, hello, closing>>

\* ... and sub = host where sub = t.subdomain is meant.
RouteByHostAsAsked(v, h) ==
  /\ vpc[v] = "idle"
  /\ customHosts[h] # None
  /\ tunnels[customHosts[h]] # None
  /\ Routed(v, tunnels[customHosts[h]], h)
  /\ UNCHANGED <<tunnels, customHosts, sess, pc, hello, closing>>

\* reg.lookup(host), then sub = t.subdomain.
RouteByHost(v, h) ==
  /\ vpc[v] = "idle"
  /\ customHosts[h] # None
  /\ tunnels[customHosts[h]] # None
  /\ LET t == tunnels[customHosts[h]] IN Routed(v, t, hello[t].sub)
  /\ UNCHANGED <<tunnels, customHosts, sess, pc, hello, closing>>

\* Turned away by the LAN redirect, the IP ACL or the passkey gate.
TurnedAway(v) ==
  /\ vpc[v] = "routed"
  /\ Answered(v)
  /\ UNCHANGED <<tunnels, customHosts, sess, pc, hello, closing>>

\* t.session.Open() succeeds; what follows is between the two ends.
OpenStream(v) ==
  /\ vpc[v] = "routed"
  /\ sess[vtun[v]] = "open"
  /\ Answered(v)
  /\ UNCHANGED <<tunnels, customHosts, sess, pc, hello, closing>>

\* t.session.Open() fails: always on a closed session, and on an open one
\* when the SYN cannot be written in time. The session is closed first ...
OpenFails(v) ==
  /\ vpc[v] = "routed"
  /\ CloseSession(vtun[v])
  /\ vpc' = [vpc EXCEPT ![v] = "evict"]
  /\ UNCHANGED <<tunnels, customHosts, pc, hello, closing, vtun, vsub>>

\* ... and released after, under the sub this request resolved.
Evict(v) ==
  /\ vpc[v] = "evict"
  /\ release(vsub[v], vtun[v])
  /\ Answered(v)
  /\ UNCHANGED <<sess, pc, hello, closing>>

-----------------------------------------------------------------------------
HandlerStep(c) ==
  \/ ClaimRefused(c) \/ ClaimGranted(c) \/ Reply(c) \/ Down(c)
  \/ DeferredClose(c) \/ DeferredRelease(c)

VisitorStep(v) == TurnedAway(v) \/ OpenStream(v) \/ OpenFails(v) \/ Evict(v)

Next ==
  \/ \E c \in Conn, m \in Hello : Accept(c, m)
  \/ \E c \in Conn : HandlerStep(c) \/ PreemptedClose(c) \/ SessionDies(c)
  \/ \E v \in Visitor, s \in Sub : RouteBySub(v, s)
  \/ \E v \in Visitor, h \in Host : RouteByHost(v, h)
  \/ \E v \in Visitor : VisitorStep(v)

Spec == Init /\ [][Next]_vars

-----------------------------------------------------------------------------
TypeOK ==
  /\ tunnels \in [Sub -> Conn \cup {None}]
  /\ customHosts \in [Host -> Sub \cup {None}]
  /\ sess \in [Conn -> {"open", "closed"}]
  /\ pc \in [Conn -> {"gone", "claim", "reply", "serving", "unwind", "release"}]
  /\ hello \in [Conn -> Hello \cup {None}]
  /\ closing \subseteq Conn
  /\ vpc \in [Visitor -> {"idle", "routed", "evict"}]
  /\ vtun \in [Visitor -> Conn \cup {None}]
  /\ vsub \in [Visitor -> Sub \cup {None}]

\* The two maps of the registry agree: a hostname routes to a subdomain
\* exactly when the tunnel registered there asked for it. lookup therefore
\* never finds a hostname without a tunnel, and hostKnown, which decides
\* whether a certificate may be issued, is true of live claims only.
HostsAgree ==
  \A h \in Host, s \in Sub :
    customHosts[h] = s <=> tunnels[s] # None /\ h \in hello[tunnels[s]].hosts

\* No tunnel outlives its handler: when the last deferred call has run, no
\* name routes to the connection (release is skipped when the registered
\* session is another one, and a corpse nobody releases would hold its name
\* against every other client).
NoCorpse ==
  \A s \in Sub : tunnels[s] # None => pc[tunnels[s]] \notin {"gone", "claim"}

\* No client is stranded: a session that was told "OK" and is still open can
\* be reached by its subdomain, or a Close for it is already on its way, so
\* the client will see the disconnect and reconnect.
NoOrphan ==
  \A c \in Conn :
    pc[c] = "serving" /\ sess[c] = "open" =>
      tunnels[hello[c].sub] = c \/ c \in closing

\* What a registered tunnel may lose its name to. A step that takes name s
\* from connection c either gives it to another connection of the same,
\* identified, client process, or finds c's session already closed. In
\* particular the deferred release of a pre-empted handler, and a visitor
\* whose t went stale while it was being authorised, leave the new owner be.
LawfulLoss ==
  \A s \in Sub :
    LET c == tunnels[s] IN
    c # None /\ tunnels'[s] # c =>
      IF tunnels'[s] = None
      THEN sess[c] = "closed"
      ELSE /\ hello[c].client # Anonymous
           /\ hello'[tunnels'[s]].client = hello[c].client

OnlyLawfulLoss == [][LawfulLoss]_vars

-----------------------------------------------------------------------------
(* TunnelServer implements NameDirectory                                   *)

\* Where a request for a name would be sent.
Holder ==
  [n \in Sub \cup Host |->
     IF n \in Sub THEN tunnels[n]
     ELSE IF customHosts[n] = None THEN None
     ELSE tunnels[customHosts[n]]]

LeaseOf == [c \in Conn |-> IF Registered(c) THEN hello[c] ELSE None]

Live == {c \in Conn : sess[c] = "open"}

Directory == INSTANCE NameDirectory WITH
  holder <- Holder, lease <- LeaseOf, live <- Live

\* Whatever the goroutines do, what the public sees of the two maps is a
\* directory whose leases begin and end atomically.
ImplementsDirectory == Directory!DirSpec
=============================================================================
