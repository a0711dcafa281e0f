------------------------------- MODULE Access -------------------------------
(***************************************************************************)
(* Accounts, passkeys, invites, sessions and tunnel locks: the three stores *)
(* of cmd/mygrokd (passkeyStore, tunnelLocks, inviteStore) and the         *)
(* handlers of auth.go that work on them.                                  *)
(*                                                                         *)
(* Each method of a store holds that store's mutex; a handler calls        *)
(* several, one after the other, with nothing held in between. An action   *)
(* is what a handler does under one mutex together with the local work     *)
(* before the next, so the handlers interleave between the calls. The      *)
(* stores write their files before they unlock: a restart keeps users,     *)
(* credentials, invites and locks and loses everything else. Of the saves, *)
(* AddCredential's may fail, which its handlers act on; the error of every *)
(* other save here is dropped or only reported (AdminCli is about those),  *)
(* and it is taken to work.                                                *)
(*                                                                         *)
(* A ceremony is the pair of a begin and a finish request of one browser,  *)
(* joined by a cookie that names a pending entry of the passkeyStore. A    *)
(* browser runs one ceremony at a time, and the entry is part of its       *)
(* request here: mixing up the cookies of two only adds refusals.          *)
(***************************************************************************)
EXTENDS Naturals, FiniteSets

CONSTANTS
  Browser,  \* browsers, each with its session cookie
  Admin,    \* requests with the admin token that run at the same time
  User,     \* user ids: 32 random bytes, never drawn twice
  Cred,     \* passkeys
  Token,    \* invites
  Sub,      \* tunnels that may be locked
  None

ASSUME AccessAssumption ==
  /\ Browser \cap Admin = {}
  /\ None \notin Browser \cup Admin \cup User \cup Cred \cup Token \cup Sub
  /\ Cred \cap Token = {}

VARIABLES
  users,    \* passkeyStore.users
  owner,    \* Cred -> the UserID of the stored credential, None if not stored
  unsaved,  \* stored credentials that are not in the file yet
  session,  \* Browser -> the user of its mygrok_pk cookie, None if not live
  invite,   \* Token -> the state of the invite
  usedBy,   \* Token -> the UserID that MarkConsumed recorded, or None
  locked,   \* tunnels with an entry in tunnelLocks.allowed
  allowed,  \* Sub -> the users of that entry
  req,      \* Browser \cup Admin -> the request or ceremony under way
  todo,     \* Admin -> users a "lock" request has listed and not yet granted
  from,     \* history: User -> the invite whose redemption created it
  raced     \* history: users deleted while a request that adds to them ran,
            \* and those a redemption has rolled back

store == <<users, owner, unsaved>>
lockvars == <<locked, allowed>>
invitevars == <<invite, usedBy>>
history == <<from, raced>>
vars == <<store, session, invitevars, lockvars, req, todo, history>>

Process == Browser \cup Admin

Request(op, user, on) == [op |-> op, user |-> user, on |-> on]
Idle == Request("idle", None, None)

Init ==
  /\ users = {} /\ owner = [c \in Cred |-> None] /\ unsaved = {}
  /\ session = [b \in Browser |-> None]
  /\ invite = [t \in Token |-> "unissued"]
  /\ usedBy = [t \in Token |-> None]
  \* A lock file of the old format leaves entries that list nobody.
  /\ locked \in SUBSET Sub /\ allowed = [s \in Sub |-> {}]
  /\ req = [p \in Process |-> Idle]
  /\ todo = [a \in Admin |-> {}]
  /\ from = [u \in User |-> None] /\ raced = {}

Gone == {u \in User : from[u] # None} \ users   \* deleted
CredsOf(u) == {c \in Cred : owner[c] = u}
HasCredentials == \E c \in Cred : owner[c] # None

\* Random ids and new key pairs: in nobody's hands yet.
FreshUser ==
  User \ (users \cup Gone \cup {req[p].user : p \in Process})
FreshCred == {c \in Cred : owner[c] = None /\ \A p \in Process : req[p].on # c}

\* The deletions under way, and the requests that are going to leave something
\* of u behind: a grant, a session.
BeingDeleted == {req[a].user : a \in {x \in Admin : req[x].op \in {"kick", "erase"}}}
Adding == {"enrol", "consume", "signin", "verified", "grant"}
AddsTo(u) ==
  \/ \E p \in Process : req[p].op \in Adding /\ req[p].user = u
  \/ \E a \in Admin : u \in todo[a]
NoteRace(us) == raced' = raced \cup us

Continue(p, op, user) == req' = [req EXCEPT ![p] = Request(op, user, req[p].on)]
Done(p) == req' = [req EXCEPT ![p] = Idle]
Starts(p, op, user, on) ==
  req[p] = Idle /\ req' = [req EXCEPT ![p] = Request(op, user, on)]
At(p, op) == req[p].op = op

-----------------------------------------------------------------------------
(* Invites                                                                 *)

Issue(t) ==
  /\ invite[t] = "unissued"
  /\ invite' = [invite EXCEPT ![t] = "open"]
  /\ UNCHANGED <<store, session, usedBy, lockvars, req, todo, history>>

DeleteInvite(t) ==
  /\ invite[t] \in {"open", "expired", "consumed"}
  /\ invite' = [invite EXCEPT ![t] = "deleted"]
  /\ UNCHANGED <<store, session, usedBy, lockvars, req, todo, history>>

Expire(t) ==
  /\ invite[t] = "open"
  /\ invite' = [invite EXCEPT ![t] = "expired"]
  /\ UNCHANGED <<store, session, usedBy, lockvars, req, todo, history>>

\* The challenge is bound to a user id that is not stored yet.
InviteBegin(b, t) ==
  /\ invite[t] = "open"
  /\ \E u \in FreshUser : Starts(b, "invited", u, t)
  /\ UNCHANGED <<store, session, invitevars, lockvars, todo, history>>

\* Lookup finds the invite open, the answer of the authenticator is verified
\* and the user stored. Nobody knows the id before that, so nothing another
\* handler does can come in between.
InviteFinish(b) ==
  /\ At(b, "invited")
  /\ invite[req[b].on] = "open"
  /\ users' = users \cup {req[b].user}
  /\ from' = [from EXCEPT ![req[b].user] = req[b].on]
  /\ unsaved' = {}
  /\ Continue(b, "enrol", req[b].user)
  /\ UNCHANGED <<owner, session, invitevars, lockvars, todo, raced>>

\* Slips the run is tested with: the user is not looked for under the lock,
AddCredentialUnchecked(u, c, saved) ==
  /\ owner' = [owner EXCEPT ![c] = u]
  /\ unsaved' = IF saved THEN {} ELSE unsaved \cup {c}

\* AddCredential refuses an id that is stored and a user that is not there. A
\* save that fails is an error too, and the passkey stays in memory.
Refused(u, c) == owner[c] # None \/ u \notin users
AddCredential(u, c, saved) ==
  IF Refused(u, c)
  THEN UNCHANGED <<owner, unsaved>>
  ELSE /\ owner' = [owner EXCEPT ![c] = u]
       /\ unsaved' = IF saved THEN {} ELSE unsaved \cup {c}

\* A verified answer brings a new key pair or an id that is stored already.
Offered == FreshCred \cup {c \in Cred : owner[c] # None}

\* On any error the user is rolled back, in a call of its own.
EnrolInvitee(b) ==
  LET u == req[b].user IN
  /\ At(b, "enrol")
  /\ \E c \in Offered, saved \in BOOLEAN :
       /\ AddCredential(u, c, saved)
       /\ Continue(b, IF saved /\ ~Refused(u, c) THEN "consume" ELSE "rollback", u)
  /\ UNCHANGED <<users, session, invitevars, lockvars, todo, history>>

\* DeleteUser takes the user's passkeys along; one that is gone is an error.
DeleteUser(u) ==
  IF u \in users
  THEN /\ users' = users \ {u}
       /\ owner' = [c \in Cred |-> IF owner[c] = u THEN None ELSE owner[c]]
       /\ unsaved' = {}
  ELSE UNCHANGED store

\* Locks that listed the user meanwhile, and sessions it has signed in to, are
\* left as they are.
RollBack(b) ==
  /\ At(b, "rollback")
  /\ DeleteUser(req[b].user)
  /\ Done(b)
  /\ UNCHANGED <<session, invitevars, lockvars, todo, from>>
  /\ NoteRace({req[b].user})

\* ... a redeemed invite is redeemed again,
MarkConsumedAgain(b) ==
  LET t == req[b].on IN
  /\ At(b, "consume")
  /\ invite[t] # "deleted"
  /\ invite' = [invite EXCEPT ![t] = "consumed"]
  /\ usedBy' = [usedBy EXCEPT ![t] = req[b].user]
  /\ Continue(b, "signin", req[b].user)
  /\ UNCHANGED <<store, session, lockvars, todo, history>>

MarkConsumed(b) ==
  LET t == req[b].on IN
  /\ At(b, "consume")
  /\ IF invite[t] \in {"open", "expired"}
     THEN /\ invite' = [invite EXCEPT ![t] = "consumed"]
          /\ usedBy' = [usedBy EXCEPT ![t] = req[b].user]
          /\ Continue(b, "signin", req[b].user)
     ELSE Done(b) /\ UNCHANGED invitevars
  /\ UNCHANGED <<store, session, lockvars, todo, history>>

\* ... the session is issued to the passkey or invite,
SignInAsObject(b) ==
  /\ At(b, "signin")
  /\ session' = [session EXCEPT ![b] = req[b].on]
  /\ Done(b)
  /\ UNCHANGED <<store, invitevars, lockvars, todo, history>>

\* issueAuthSession, at the end of a redemption and of a login.
SignIn(b) ==
  /\ At(b, "signin")
  /\ session' = [session EXCEPT ![b] = req[b].user]
  /\ Done(b)
  /\ UNCHANGED <<store, invitevars, lockvars, todo, history>>

-----------------------------------------------------------------------------
(* Login and logout                                                        *)

\* The browser asks its user for a passkey; the pending login is its cookie.
AuthBegin(b) ==
  /\ HasCredentials
  /\ Starts(b, "login", None, None)
  /\ UNCHANGED <<store, session, invitevars, lockvars, todo, history>>

\* consumeLogin; the passkey leads to its owner and the assertion is verified.
AuthFinish(b, c) ==
  /\ At(b, "login")
  /\ owner[c] \in users
  /\ req' = [req EXCEPT ![b] = Request("verified", owner[c], c)]
  /\ UNCHANGED <<store, session, invitevars, lockvars, todo, from>>
  /\ NoteRace({owner[c]} \cap BeingDeleted)

\* UpdateCredential saves the passkey's new counter if it is still there, and
\* CredentialUserID is asked again; a passkey deleted meanwhile has no owner,
\* and a session of no user is no session.
LookUpOwner(b) ==
  /\ At(b, "verified")
  /\ unsaved' = IF owner[req[b].on] # None THEN {} ELSE unsaved
  /\ Continue(b, "signin", owner[req[b].on])
  /\ UNCHANGED <<users, owner, session, invitevars, lockvars, todo, history>>

\* Logging out, or 24 hours.
EndSession(b) ==
  /\ session[b] # None
  /\ session' = [session EXCEPT ![b] = None]
  /\ UNCHANGED <<store, invitevars, lockvars, req, todo, history>>

\* A ceremony ends without an account or a session: the authenticator's answer
\* is not verified, the pending entry has run out, the invite is no longer
\* open, the user gives up.
GiveUp(b) ==
  /\ req[b].op \in {"login", "invited", "challenge"}
  /\ Done(b)
  /\ UNCHANGED <<store, session, invitevars, lockvars, todo, history>>

-----------------------------------------------------------------------------
(* A user's own passkeys                                                   *)

RegisterBegin(b) ==
  /\ session[b] \in users
  /\ Starts(b, "challenge", session[b], None)
  /\ UNCHANGED <<store, session, invitevars, lockvars, todo, history>>

\* currentSessionUser
RegisterFinish(b) ==
  /\ At(b, "challenge")
  /\ session[b] \in users
  /\ Continue(b, "register", session[b])
  /\ UNCHANGED <<store, session, invitevars, lockvars, todo, history>>

\* What the process keeps in memory only.
LoseMemory ==
  /\ owner' = [c \in Cred |-> IF c \in unsaved THEN None ELSE owner[c]]
  /\ unsaved' = {}
  /\ session' = [b \in Browser |-> None]
  /\ req' = [p \in Process |-> Idle]
  /\ todo' = [a \in Admin |-> {}]
  /\ raced' = raced \cap Gone
  /\ UNCHANGED <<users, invitevars, lockvars, from>>

\* finishRegistration up to the verified answer.
VerifyRegistration(b) ==
  /\ At(b, "register")
  /\ Done(b) \/ (req[b].user \in users /\ Continue(b, "add", req[b].user))
  /\ UNCHANGED <<store, session, invitevars, lockvars, todo, history>>

\* A user that has been deleted since is a nil *pkUser, and the first use of
\* it a panic that nothing recovers from.
Panic(b) ==
  /\ At(b, "register")
  /\ req[b].user \notin users
  /\ LoseMemory

\* The user is told of an error, and nothing is undone.
AddDevice(b) ==
  /\ At(b, "add")
  /\ \E c \in Offered, saved \in BOOLEAN : AddCredential(req[b].user, c, saved)
  /\ Done(b)
  /\ UNCHANGED <<users, session, invitevars, lockvars, todo, history>>

\* userOwnsCredential
DeleteAsk(b, c) ==
  /\ session[b] \in users
  /\ owner[c] = session[b]
  /\ Starts(b, "count", session[b], c)
  /\ UNCHANGED <<store, session, invitevars, lockvars, todo, history>>

\* The last passkey stays.
DeleteCount(b) ==
  /\ At(b, "count")
  /\ IF Cardinality(CredsOf(req[b].user)) <= 1
     THEN Done(b)
     ELSE Continue(b, "delete", req[b].user)
  /\ UNCHANGED <<store, session, invitevars, lockvars, todo, history>>

\* DeleteCredential of the store: without the passkey an error.
DropCredential(c) ==
  IF owner[c] # None
  THEN owner' = [owner EXCEPT ![c] = None] /\ unsaved' = {}
  ELSE UNCHANGED <<owner, unsaved>>

DeleteCredential(b) ==
  /\ At(b, "delete")
  /\ DropCredential(req[b].on)
  /\ Done(b)
  /\ UNCHANGED <<users, session, invitevars, lockvars, todo, history>>

-----------------------------------------------------------------------------
(* The admin's requests                                                    *)

\* serveAdminUsersDelete: RevokeUserAcrossTunnels, RevokeUserSessions,
\* DeleteUser. A list that loses its last user loses the lock.
RevokeEverywhere(a, u) ==
  /\ u \in users
  /\ Starts(a, "kick", u, None)
  /\ allowed' = [s \in Sub |-> allowed[s] \ {u}]
  /\ locked' = locked \ {s \in Sub : allowed[s] = {u}}
  /\ UNCHANGED <<store, session, invitevars, todo, from>>
  /\ NoteRace({x \in {u} : AddsTo(x)})

\* ... and DeleteUser is trusted to end the sessions.
KickNobody(a) ==
  /\ At(a, "kick")
  /\ Continue(a, "erase", req[a].user)
  /\ UNCHANGED <<store, session, invitevars, lockvars, todo, history>>

Kick(a) ==
  /\ At(a, "kick")
  /\ session' = [b \in Browser |-> IF session[b] = req[a].user THEN None ELSE session[b]]
  /\ Continue(a, "erase", req[a].user)
  /\ UNCHANGED <<store, invitevars, lockvars, todo, history>>

Erase(a) ==
  /\ At(a, "erase")
  /\ DeleteUser(req[a].user)
  /\ Done(a)
  /\ UNCHANGED <<session, invitevars, lockvars, todo, history>>

\* serveAdminPasskeyDelete
AdminDeleteCredential(c) ==
  /\ owner[c] # None
  /\ DropCredential(c)
  /\ UNCHANGED <<users, session, invitevars, lockvars, req, todo, history>>

\* serveAdminGrants: the user is looked up, then the list changed.
AskGrant(a, op, s, u) ==
  /\ u \in users
  /\ Starts(a, op, u, s)
  /\ UNCHANGED <<store, session, invitevars, lockvars, todo, from>>
  /\ NoteRace({x \in {u} : op = "grant"} \cap BeingDeleted)

Allow(s, u) ==
  /\ locked' = locked \cup {s}
  /\ allowed' = [allowed EXCEPT ![s] = @ \cup {u}]

Grant(a) ==
  /\ At(a, "grant")
  /\ Allow(req[a].on, req[a].user)
  /\ Done(a)
  /\ UNCHANGED <<store, session, invitevars, todo, history>>

Revoke(a) ==
  LET s == req[a].on
      left == allowed[s] \ {req[a].user}
  IN
  /\ At(a, "revoke")
  /\ IF req[a].user \in allowed[s]
     THEN /\ allowed' = [allowed EXCEPT ![s] = left]
          /\ locked' = IF left = {} THEN locked \ {s} ELSE locked
     ELSE UNCHANGED lockvars
  /\ Done(a)
  /\ UNCHANGED <<store, session, invitevars, todo, history>>

\* serveAdminLocks: everyone listed now is granted, one Grant at a time. With
\* nobody listed the Grant of no user is an error, and no entry appears.
LockAll(a, s) ==
  /\ Starts(a, "lock", None, s)
  /\ todo' = [todo EXCEPT ![a] = users]
  /\ UNCHANGED <<store, session, invitevars, lockvars, from>>
  /\ NoteRace(users \cap BeingDeleted)

LockNext(a) ==
  /\ At(a, "lock")
  /\ \/ \E u \in todo[a] :
          /\ Allow(req[a].on, u)
          /\ todo' = [todo EXCEPT ![a] = @ \ {u}]
          /\ UNCHANGED req
     \/ todo[a] = {} /\ Done(a) /\ UNCHANGED <<lockvars, todo>>
  /\ UNCHANGED <<store, session, invitevars, history>>

Unlock(s) ==
  /\ s \in locked
  /\ locked' = locked \ {s}
  /\ allowed' = [allowed EXCEPT ![s] = {}]
  /\ UNCHANGED <<store, session, invitevars, req, todo, history>>

-----------------------------------------------------------------------------
Restart == LoseMemory

InviteStep(b) ==
  \/ \E t \in Token : InviteBegin(b, t)
  \/ InviteFinish(b) \/ EnrolInvitee(b) \/ RollBack(b) \/ MarkConsumed(b)

SessionStep(b) ==
  \/ AuthBegin(b) \/ (\E c \in Cred : AuthFinish(b, c)) \/ LookUpOwner(b)
  \/ SignIn(b) \/ EndSession(b) \/ GiveUp(b)

AccountStep(b) ==
  \/ RegisterBegin(b) \/ RegisterFinish(b) \/ VerifyRegistration(b) \/ Panic(b)
  \/ AddDevice(b)
  \/ (\E c \in Cred : DeleteAsk(b, c)) \/ DeleteCount(b) \/ DeleteCredential(b)

AdminStep(a) ==
  \/ (\E u \in User : RevokeEverywhere(a, u)) \/ Kick(a) \/ Erase(a)
  \/ \E op \in {"grant", "revoke"}, s \in Sub, u \in User : AskGrant(a, op, s, u)
  \/ Grant(a) \/ Revoke(a)
  \/ (\E s \in Sub : LockAll(a, s)) \/ LockNext(a)

Next ==
  \/ \E b \in Browser : InviteStep(b) \/ SessionStep(b) \/ AccountStep(b)
  \/ \E a \in Admin : AdminStep(a)
  \/ \E t \in Token : Issue(t) \/ DeleteInvite(t) \/ Expire(t)
  \/ \E c \in Cred : AdminDeleteCredential(c)
  \/ \E s \in Sub : Unlock(s)
  \/ Restart

Spec == Init /\ [][Next]_vars

-----------------------------------------------------------------------------
(* Properties                                                              *)

\* What each kind of request carries.
Requests ==
  [op : {"idle", "login"}, user : {None}, on : {None}]
    \cup [op : {"invited", "enrol", "rollback", "consume"}, user : User, on : Token]
    \cup [op : {"verified", "count", "delete"}, user : User, on : Cred]
    \cup [op : {"signin"}, user : User \cup {None}, on : Cred \cup Token]
    \cup [op : {"challenge", "register", "add", "kick", "erase"}, user : User, on : {None}]
    \cup [op : {"grant", "revoke"}, user : User, on : Sub]
    \cup [op : {"lock"}, user : {None}, on : Sub]

\* The kinds of the values; a lock entry is all that can list users.
AccessTypeOK ==
  /\ users \subseteq User
  /\ owner \in [Cred -> User \cup {None}]
  /\ unsaved \subseteq Cred
  /\ session \in [Browser -> User \cup {None}]
  /\ invite \in [Token -> {"unissued", "open", "expired", "consumed", "deleted"}]
  /\ usedBy \in [Token -> User \cup {None}]
  /\ locked \subseteq Sub
  /\ allowed \in [Sub -> SUBSET User]
  /\ \A s \in Sub \ locked : allowed[s] = {}
  /\ req \in [Process -> Requests]
  /\ todo \in [Admin -> SUBSET User]
  /\ from \in [User -> Token \cup {None}]
  /\ raced \subseteq User

\* No stored passkey outlives its user, whatever registrations and deletions
\* run at the same time (AddCredential, DeleteUser).
CredentialsOwned == \A c \in Cred : owner[c] # None => owner[c] \in users

\* An admin's deletion that no grant, login or redemption of the same user
\* overlapped is complete: no list, no cookie and no passkey is left that is
\* the user's. (A redemption that is rolled back promises less.)
DeletedIsForgotten ==
  \A u \in Gone \ raced :
    /\ \A s \in Sub : u \notin allowed[s]
    /\ \A b \in Browser : session[b] # u
    /\ CredsOf(u) = {}

\* Of several redemptions of one invite the first to reach MarkConsumed is
\* recorded, for good, and it alone goes on to be signed in.
OneRedeemer ==
  [][\A t \in Token :
       /\ usedBy[t] # None => usedBy'[t] = usedBy[t]
       /\ \A b \in Browser :
            req'[b].op = "signin" /\ req'[b].on = t => usedBy'[t] = req'[b].user]_vars
=============================================================================
