-------------------------------- MODULE Gate --------------------------------
(***************************************************************************)
(* A public request from the visitor's point of view: handlePublicConn of  *)
(* cmd/mygrokd/main.go with everything it asks before it opens a stream.   *)
(* In this order: the certificate for the name, the registry, the same-NAT *)
(* redirect, the address lists, the tunnel's lock, whether there is any    *)
(* passkey, the session behind the cookie, the tunnel's list of users, and *)
(* the tunnel's session. Each is a read of its own under a mutex of its    *)
(* own, and tunnels and administrators go on changing things in between.   *)
(*                                                                         *)
(* The registry is NameDirectory, which TunnelServer is proved to          *)
(* implement. IpAcl and Access say how the lists and the stores change;    *)
(* here they do so at any time, one method of a store after the other. A   *)
(* visitor is a browser, with one person at it and one connection at a     *)
(* time. Both listeners are up.                                            *)
(***************************************************************************)
EXTENDS NameDirectory

CONSTANTS
  Visitor,
  User,      \* registered users
  Ip,        \* public addresses
  UserOf,    \* Visitor -> the person at the browser
  IpOf,      \* Visitor -> where it comes from
  HomeOf,    \* Conn -> t.publicIP where the hello asked for LAN-direct, or None
  Mgmt,      \* the management host
  Wildcard   \* is there a DNS provider, for a certificate of the whole zone?

ASSUME GateAssumption ==
  /\ UserOf \in [Visitor -> User] /\ IpOf \in [Visitor -> Ip]
  /\ HomeOf \in [Conn -> Ip \cup {None}] /\ Wildcard \in BOOLEAN
  /\ None \notin User \cup Conn \cup Sub \cup Ip \cup Lease
  /\ Mgmt \notin Sub \cup Host /\ Sub \cap Host = {}

VARIABLES
  permits,  \* what the address lists let in: pairs of a tunnel and an address
  allowed,  \* tunnelLocks.allowed: Sub -> the users listed, None without entry
  keys,     \* users with a passkey
  session,  \* Visitor -> the user its cookie stands for, None if not live
  gpc,      \* Visitor -> where it stands
  req,      \* Visitor -> what it has asked for
  vtun,     \* Visitor -> the local t, possibly stale
  vsub,     \* Visitor -> the local sub
  vuser,    \* Visitor -> the local userID
  due       \* history: Visitor -> whose rules apply and what they have said

stores == <<permits, allowed, keys, session>>
locals == <<vtun, vsub, vuser>>
gateVars == <<dirVars, stores, gpc, req, locals, due>>

\* nolan=1 in the query matters to the redirect only.
Request ==
  [name : Sub \cup Host \cup {Mgmt}, tls : BOOLEAN, nolan : {FALSE}]
    \cup [name : Sub, tls : {TRUE}, nolan : {TRUE}]
NotDue == [sub |-> None, user |-> None, permitted |-> FALSE, free |-> FALSE]

GateInit ==
  /\ DirInit
  \* A lock file of the old format leaves entries that list nobody.
  /\ permits \in SUBSET (Sub \X Ip) /\ allowed \in [Sub -> {None, {}}]
  /\ keys = {} /\ session = [v \in Visitor |-> None]
  /\ gpc = [v \in Visitor |-> "idle"] /\ req = [v \in Visitor |-> None]
  /\ vtun = [v \in Visitor |-> None] /\ vsub = [v \in Visitor |-> None]
  /\ vuser = [v \in Visitor |-> None] /\ due = [v \in Visitor |-> NotDue]

-----------------------------------------------------------------------------
Listed(s) == IF allowed[s] = None THEN {} ELSE allowed[s]

\* The history: what the rules say now to each request under way. The address
\* may in; the lock is off, or lets in the user of the session it came with.
Watch ==
  due' = [v \in Visitor |->
    LET d == due[v] IN
    IF d.sub = None \/ gpc[v] = "in" THEN d
    ELSE [d EXCEPT
      !.permitted = @ \/ <<d.sub, IpOf[v]>> \in permits,
      !.free = @ \/ allowed[d.sub] = None \/ keys = {} \/ d.user \in Listed(d.sub)]]

Goto(v, label) == gpc' = [gpc EXCEPT ![v] = label]

\* On to the next question.
Proceed(v, label) == Goto(v, label) /\ Watch /\ UNCHANGED <<dirVars, stores, req>>

\* The connection is closed after a page, a redirect or an error.
Closed(v, label) ==
  /\ Goto(v, label)
  /\ req' = [req EXCEPT ![v] = IF label = "idle" THEN None ELSE @]
  /\ vtun' = [vtun EXCEPT ![v] = None]
  /\ vsub' = [vsub EXCEPT ![v] = None]
  /\ vuser' = [vuser EXCEPT ![v] = None]
  /\ due' = [due EXCEPT ![v] = NotDue]
Answered(v, label) == Closed(v, label) /\ UNCHANGED <<dirVars, stores>>

-----------------------------------------------------------------------------
(* The connection and the request                                          *)

Dial(v, r) == Goto(v, IF r.tls THEN "hello" ELSE "route")

Ask(v, r) ==
  /\ gpc[v] = "idle"
  /\ req' = [req EXCEPT ![v] = r]
  /\ Dial(v, r)
  /\ UNCHANGED <<dirVars, stores, locals, due>>

\* DecisionFunc: outside the zone and, without a wildcard, in it, certificates
\* are for the names of tunnels.
MayOrder(n) ==
  \/ n = Mgmt
  \/ Wildcard /\ n \in Sub
  \/ n \in Sub \cup Host /\ holder[n] # None

\* certmagic: what has been ordered once is kept, and renewed when it can be, so
\* that a name without tunnel may have a certificate too. One that may be ordered
\* arrives: failures of the certificate authority are left out.
Handshake(v) ==
  /\ gpc[v] = "hello"
  /\ Goto(v, "route")
  /\ UNCHANGED <<dirVars, stores, req, locals, due>>

NoCertificate(v) ==
  /\ gpc[v] = "hello" /\ ~MayOrder(req[v].name)
  /\ Answered(v, "idle")

\* The management host has no address lists and no lock. Without TLS it only
\* says where it is.
Manage(v) ==
  /\ gpc[v] = "route" /\ req[v].name = Mgmt
  /\ Answered(v, "idle")

\* The same-NAT 307.
Redirected(v, t) ==
  /\ t # None /\ HomeOf[t] = IpOf[v]
  /\ req[v].tls /\ req[v].name \in Sub /\ ~req[v].nolan

\* A slip: a cookie for the management host only.
CookieOfMgmt(v) == IF req[v].tls /\ req[v].name = Mgmt THEN session[v] ELSE None

\* The mygrok_pk cookie is scoped to the zone and sent over TLS only.
Cookie(v) == IF req[v].tls /\ req[v].name \in Sub THEN session[v] ELSE None

RouteTo(v, t, s) ==
  /\ Goto(v, "acl")
  /\ vtun' = [vtun EXCEPT ![v] = t]
  /\ vsub' = [vsub EXCEPT ![v] = s]
  /\ due' = [due EXCEPT ![v] =
       IF t = None THEN NotDue
       ELSE [sub |-> lease[t].sub, user |-> Cookie(v), permitted |-> FALSE, free |-> FALSE]]
  /\ UNCHANGED <<dirVars, stores, req, vuser>>

\* reg.get(sub); without tunnel the rules are asked all the same.
RouteBySub(v) ==
  LET s == req[v].name IN
  /\ gpc[v] = "route" /\ s \in Sub
  /\ IF Redirected(v, holder[s]) THEN Answered(v, "idle") ELSE RouteTo(v, holder[s], s)

\* A slip: sub is the name that was asked for.
RouteByHostAsAsked(v) ==
  LET t == holder[req[v].name] IN
  /\ gpc[v] = "route" /\ req[v].name \in Host
  /\ IF t = None THEN Answered(v, "idle") ELSE RouteTo(v, t, req[v].name)

\* reg.lookup(host), then sub = t.subdomain. Without tunnel the global lists are
\* asked, and the answer is 404 when it is not 403.
RouteByHost(v) ==
  LET t == holder[req[v].name] IN
  /\ gpc[v] = "route" /\ req[v].name \in Host
  /\ IF t = None THEN Answered(v, "idle") ELSE RouteTo(v, t, lease[t].sub)

-----------------------------------------------------------------------------
(* The gate                                                                *)

\* acl.Check
CheckAddress(v) ==
  /\ gpc[v] = "acl"
  /\ IF <<vsub[v], IpOf[v]>> \in permits
     THEN Proceed(v, "lock") /\ UNCHANGED locals
     ELSE Answered(v, "idle")

\* locks.IsLocked
CheckLock(v) ==
  /\ gpc[v] = "lock"
  /\ Proceed(v, IF allowed[vsub[v]] = None THEN "open" ELSE "keys")
  /\ UNCHANGED locals

\* pks.HasCredentials: with no passkey anywhere nobody is asked for one.
CheckKeys(v) ==
  /\ gpc[v] = "keys"
  /\ Proceed(v, IF keys = {} THEN "open" ELSE "user")
  /\ UNCHANGED locals

\* A slip: whoever is signed in may in.
CheckSessionOnly(v) ==
  /\ gpc[v] = "user"
  /\ IF Cookie(v) = None THEN Answered(v, "login")
     ELSE /\ Proceed(v, "open")
          /\ vuser' = [vuser EXCEPT ![v] = Cookie(v)] /\ UNCHANGED <<vtun, vsub>>

\* pks.SessionUser; without one the login page is next.
CheckSession(v) ==
  /\ gpc[v] = "user"
  /\ IF Cookie(v) = None THEN Answered(v, "login")
     ELSE /\ Proceed(v, "list")
          /\ vuser' = [vuser EXCEPT ![v] = Cookie(v)] /\ UNCHANGED <<vtun, vsub>>

\* locks.AllowsUser, which says no where there is no lock any more.
CheckList(v) ==
  /\ gpc[v] = "list"
  /\ IF vuser[v] \in Listed(vsub[v])
     THEN Proceed(v, "open") /\ UNCHANGED locals
     ELSE Answered(v, "login")

\* The offline page.
Offline(v) ==
  /\ gpc[v] = "open" /\ vtun[v] = None
  /\ Answered(v, "idle")

\* t.session.Open(): from here on the connection is copied, whatever requests
\* follow on it.
Open(v) ==
  /\ gpc[v] = "open" /\ vtun[v] \in live
  /\ Proceed(v, "in") /\ UNCHANGED locals

\* It fails on a session that is closed, and may on one that is not, which it
\* then closes ...
OpenFails(v) ==
  /\ gpc[v] = "open" /\ vtun[v] # None
  /\ live' = live \ {vtun[v]}
  /\ Goto(v, "evict") /\ Watch
  /\ UNCHANGED <<holder, lease, stores, req, locals>>

\* ... and, if it still is the tunnel of that name, releases.
Evict(v) ==
  /\ gpc[v] = "evict"
  /\ IF holder[vsub[v]] = vtun[v] THEN Drop(vtun[v]) ELSE UNCHANGED dirVars
  /\ Closed(v, "idle") /\ UNCHANGED stores

-----------------------------------------------------------------------------
(* The visitor                                                             *)

\* The login page: a passkey of the person at the browser, a new session, and
\* back, since safeReturnURL leaves an https URL under the zone as it is.
Login(v) ==
  /\ gpc[v] = "login" /\ UserOf[v] \in keys
  /\ session' = [session EXCEPT ![v] = UserOf[v]]
  /\ IF req[v].tls /\ req[v].name \in Sub
     THEN Goto(v, "hello") /\ UNCHANGED req
     ELSE Goto(v, "idle") /\ req' = [req EXCEPT ![v] = None]
  /\ UNCHANGED <<dirVars, permits, allowed, keys, locals, due>>

\* ... or no passkey, or, with none anywhere, no page.
Stranger(v) ==
  /\ gpc[v] = "login" /\ UserOf[v] \notin keys
  /\ Answered(v, "idle")

\* Either end closes the connection.
Leave(v) == gpc[v] = "in" /\ Answered(v, "idle")

HandlerStep(v) ==
  \/ Handshake(v) \/ NoCertificate(v) \/ Manage(v) \/ RouteBySub(v) \/ RouteByHost(v)
  \/ CheckAddress(v) \/ CheckLock(v) \/ CheckKeys(v) \/ CheckSession(v) \/ CheckList(v)
  \/ Offline(v) \/ Open(v) \/ OpenFails(v) \/ Evict(v)

-----------------------------------------------------------------------------
(* The rest of the world                                                   *)

RulesChange == Watch /\ UNCHANGED <<dirVars, gpc, req, locals>>

ListsChange ==
  /\ \E p \in Sub \X Ip : permits' = (permits \cup {p}) \ (permits \cap {p})
  /\ RulesChange /\ UNCHANGED <<allowed, keys, session>>

Grant(s, u) ==
  /\ allowed' = [allowed EXCEPT ![s] = Listed(s) \cup {u}]
  /\ RulesChange /\ UNCHANGED <<permits, keys, session>>

\* Revoke and RevokeUserAcrossTunnels: a list that loses its last user is gone.
Revoke(s, u) ==
  /\ u \in Listed(s)
  /\ allowed' = [allowed EXCEPT ![s] = IF @ = {u} THEN None ELSE @ \ {u}]
  /\ RulesChange /\ UNCHANGED <<permits, keys, session>>

Unlock(s) ==
  /\ allowed[s] # None
  /\ allowed' = [allowed EXCEPT ![s] = None]
  /\ RulesChange /\ UNCHANGED <<permits, keys, session>>

KeysChange(u) ==
  /\ \/ u \notin keys /\ keys' = keys \cup {u}
     \/ u \in keys /\ keys' = keys \ {u}
  /\ RulesChange /\ UNCHANGED <<permits, allowed, session>>

\* Logged out, expired or revoked, or lost with a restart.
SessionEnds(v) ==
  /\ session[v] # None
  /\ session' = [session EXCEPT ![v] = None]
  /\ RulesChange /\ UNCHANGED <<permits, allowed, keys>>

\* A connection is a new object: no visitor still refers to it.
DirectoryChange ==
  /\ \/ \E c \in Conn : c \notin live /\ Connect(c)
     \/ \E c \in Conn : c \in live /\ Die(c)
     \/ \E c \in Conn : Drop(c)
     \/ \E c \in Conn, l \in Lease : Bind(c, l) \/ \E d \in Conn : TakeOver(c, d, l)
  /\ \A v \in Visitor, c \in Conn :
       vtun[v] = c => (c \in live' => c \in live) /\ lease'[c] \in {None, lease[c]}
  /\ Watch /\ UNCHANGED <<stores, gpc, req, locals>>

GateNext ==
  \/ \E v \in Visitor, r \in Request : Ask(v, r)
  \/ \E v \in Visitor : HandlerStep(v) \/ Login(v) \/ Stranger(v) \/ Leave(v) \/ SessionEnds(v)
  \/ ListsChange
  \/ \E s \in Sub, u \in User : Grant(s, u) \/ Revoke(s, u)
  \/ \E s \in Sub : Unlock(s)
  \/ \E u \in User : KeysChange(u)
  \/ DirectoryChange

\* Goroutines run, certificates that may be ordered arrive, a person who is sent
\* to the login page signs in, and one who has been served goes away in the end.
GateFairness ==
  \A v \in Visitor :
    /\ WF_gateVars(HandlerStep(v))
    /\ WF_gateVars(Login(v) \/ Stranger(v)) /\ WF_gateVars(Leave(v))

GateSpec == GateInit /\ [][GateNext]_gateVars /\ GateFairness

-----------------------------------------------------------------------------
(* Properties                                                              *)

GateTypeOK ==
  /\ holder \in [Sub \cup Host -> Conn \cup {None}]
  /\ lease \in [Conn -> Lease \cup {None}] /\ live \subseteq Conn
  /\ permits \subseteq Sub \X Ip
  /\ allowed \in [Sub -> (SUBSET User) \cup {None}] /\ keys \subseteq User
  /\ session \in [Visitor -> User \cup {None}]
  /\ gpc \in [Visitor -> {"idle", "hello", "route", "acl", "lock", "keys", "user", "list",
                          "open", "evict", "in", "login"}]
  /\ req \in [Visitor -> Request \cup {None}]
  /\ vtun \in [Visitor -> Conn \cup {None}]
  /\ vsub \in [Visitor -> Sub \cup {None}] /\ vuser \in [Visitor -> User \cup {None}]
  /\ due \in [Visitor -> [sub : Sub \cup {None}, user : User \cup {None},
                          permitted : BOOLEAN, free : BOOLEAN]]

\* Whoever gets through to a client, by any of its names, was let in by the rules
\* of the tunnel the stream belongs to: at some moment after the request was
\* routed its address was permitted, and at some moment the lock was off, there
\* was no passkey, or the user it came with was listed. The moments need not be
\* the same, but rules that shut a visitor out all the while do shut it out,
\* whatever changed hands meanwhile.
NobodyUnchecked == \A v \in Visitor : gpc[v] = "in" => due[v].permitted /\ due[v].free

\* The tunnel of s is up and its rules welcome the visitor.
Welcome(v, s) ==
  /\ holder[s] \in live
  /\ <<s, IpOf[v]>> \in permits
  /\ UserOf[v] \in keys
  /\ allowed[s] = None \/ UserOf[v] \in Listed(s)
Settled(v, s) ==
  /\ UNCHANGED <<permits, allowed, keys>>
  /\ holder'[s] = holder[s]
  /\ session[v] # None => session'[v] # None

\* When its last connection is over the visitor asks for s, among other things.
AskAgain(v, s) == Ask(v, [name |-> s, tls |-> TRUE, nolan |-> TRUE])
KeepsAsking(v, s) == []<>(gpc[v] = "idle") => []<><<AskAgain(v, s)>>_gateVars

\* A visitor whom a tunnel welcomes, once nothing about that changes any more,
\* and who keeps asking, gets in, again and again: whatever session it started
\* with, whatever turned it away before, by the login page if it must, and from
\* the client's own network, when the LAN redirect leads nowhere, with nolan=1.
GetsIn ==
  \A v \in Visitor, s \in Sub :
    /\ <>[]Welcome(v, s) /\ <>[][Settled(v, s)]_gateVars
    /\ KeepsAsking(v, s)
    => []<>(gpc[v] = "in")
=============================================================================
