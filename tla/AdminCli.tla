------------------------------ MODULE AdminCli ------------------------------
(***************************************************************************)
(* `mygrok admin`: a command of cmd/mygrok/admin.go, the HTTP request it   *)
(* makes of the management host, the handler of cmd/mygrokd that serves    *)
(* it, the store the handler changes and that store's file.                *)
(*                                                                         *)
(* What the stores hold is one set of objects: address rules, invites,     *)
(* users, their passkeys, and grants, which are pairs of a tunnel and a    *)
(* user. Each kind is kept in a file, written whole after every change of  *)
(* it; the write may fail. Access has the stores in more detail and files  *)
(* that are always written; here it is the administrator's view that       *)
(* matters: what an exit code says about the server.                       *)
(*                                                                         *)
(* Requests and answers may be lost, a client gives up after 30 seconds    *)
(* while its request is served, the server may restart at any time, and    *)
(* commands of several administrators overlap. Commands that only read,    *)
(* arguments a command refuses before it makes a request, and a wrong      *)
(* token, with which nothing is served, change nothing and are left out.   *)
(***************************************************************************)
EXTENDS Naturals

CONSTANTS
  Cli,        \* terminals, each running one command at a time
  Rule,       \* entries of the address lists: scope, list and address
  Token,      \* invites
  User,       \* user ids
  Cred,       \* passkeys
  Sub,        \* tunnels
  Name,       \* what users are called
  NameOf,     \* User -> Name
  OwnerOf,    \* Cred -> User
  Typed,      \* what administrators type for a user: names and ids
  None,
  MaxFaults,  \* bound: failed writes and restarts
  MaxCommands \* bound: commands ever started

Grants == Sub \X User
Object == Rule \cup Token \cup User \cup Cred \cup Grants

ASSUME AdminCliAssumption ==
  /\ NameOf \in [User -> Name] /\ OwnerOf \in [Cred -> User]
  /\ MaxFaults \in Nat /\ MaxCommands \in Nat
  /\ Typed \subseteq User \cup Name
  /\ User \cap (Name \cup Rule \cup Token \cup Cred \cup Grants) = {}
  /\ None \notin Cli \cup Object \cup Sub \cup Name

VARIABLES
  mem,    \* the objects in the server's memory
  disk,   \* the objects in its files
  faults, \* failed writes and restarts so far
  born,   \* users ever made: their ids are random and not drawn again
  pc,     \* Cli -> where the command stands
  cmd,    \* Cli -> the command, also after the client has given it up
  job,    \* Cli -> where the handler of its request stands, or its answer
  todo,   \* Cli -> the users a "lock" has listed and not yet granted
  clean,  \* history: Cli -> has anyone else touched what the command is about?
  started,\* commands started so far
  told    \* history: Object -> what the last command about it was told

store == <<mem, disk, faults>>
client == <<pc, clean, told, started>>
vars == <<store, born, client, cmd, job, todo>>

-----------------------------------------------------------------------------
(* Commands                                                                *)

Adding == {"allow", "invite", "grant", "lock"}
OnRule == {"allow", "unallow"}
OnInvite == {"invite", "uninvite"}
OnGrant == {"grant", "revoke"}
OnTunnel == {"lock", "unlock"}
ByName == OnGrant \cup {"deluser"}
Verb == OnRule \cup OnInvite \cup OnTunnel \cup ByName \cup {"delkey"}

\* Commands whose handler answers with what the store said.
Reporting == OnRule \cup OnInvite \cup OnGrant

NoCommand == [verb |-> "none", what |-> None, ident |-> None, who |-> None,
              asked |-> {}]

KeysOf(us) == {k \in Cred : OwnerOf[k] \in us}
Bearers(ident) == {u \in User : ident \in {u, NameOf[u]}}
AllOf(us) == us \cup KeysOf(us) \cup (Sub \X us)

\* The objects that a command with this verb, tunnel and users is about.
About(verb, what, us) ==
  CASE verb \in OnGrant \cup OnTunnel -> {what} \X us
    [] verb = "deluser" -> AllOf(us)
    [] OTHER -> {what}

\* ... whatever its name stands for, and
Touches(r) ==
  IF r.verb = "none" THEN {}
  ELSE About(r.verb, r.what, IF r.verb \in OnTunnel THEN User ELSE Bearers(r.ident))

\* ... what its success promises, where that is not open to interpretation: a
\* name that two users share, or nobody has, promises nothing.
Promised(verb, what, ident) ==
  LET named == Bearers(ident) \cap mem IN
  CASE verb = "lock" -> About(verb, what, User \cap mem)
    [] verb = "unlock" -> About(verb, what, User)
    [] verb \in ByName ->
         IF \E u \in named : named = {u} THEN About(verb, what, named) ELSE {}
    [] OTHER -> {what}

Running(c) == cmd[c] # NoCommand
Serving == {"new", "found", "granting", "erase"}
Answer == {"ok", "refused", "redirect"}

Nothing == [code |-> 1, verb |-> "none", there |-> FALSE]
Forget(os) == [o \in Object |-> IF o \in os THEN Nothing ELSE told[o]]

\* Commands that overlap one on these objects can no longer be told by their
\* exit code what became of them.
Disturb(c, os) ==
  [d \in Cli |-> IF d # c /\ Touches(cmd[d]) \cap os # {} THEN "no" ELSE clean[d]]

-----------------------------------------------------------------------------
Init ==
  /\ mem = {} /\ disk = {} /\ faults = 0 /\ born = {}
  /\ pc = [c \in Cli |-> "idle"]
  /\ cmd = [c \in Cli |-> NoCommand]
  /\ job = [c \in Cli |-> "none"]
  /\ todo = [c \in Cli |-> {}]
  /\ clean = [c \in Cli |-> "yes"] /\ started = 0
  /\ told = [o \in Object |-> Nothing]

(* The client                                                              *)

\* A command makes its request; a name is looked up first, an id is not.
Start(c, verb, what, ident) ==
  LET r == [verb |-> verb, what |-> what, ident |-> ident,
            who |-> IF ident \in User THEN ident ELSE None,
            asked |-> Promised(verb, what, ident)]
      os == Touches(r)
      looksUp == ident \in Name
  IN /\ pc[c] = "idle" /\ ~Running(c)
     /\ started < MaxCommands /\ started' = started + 1
     /\ cmd' = [cmd EXCEPT ![c] = r]
     /\ pc' = [pc EXCEPT ![c] = IF looksUp THEN "lookup" ELSE "wait"]
     /\ job' = [job EXCEPT ![c] = IF looksUp THEN "none" ELSE "new"]
     /\ clean' = [Disturb(c, os) EXCEPT ![c] =
          IF \E d \in Cli \ {c} : Touches(cmd[d]) \cap os # {} THEN "no" ELSE "yes"]
     /\ told' = Forget(os)
     /\ UNCHANGED <<store, born, todo>>

Mutate(c) == \E verb \in OnRule, r \in Rule : Start(c, verb, r, None)
LockToggle(c) == \E verb \in OnTunnel, s \in Sub : Start(c, verb, s, None)
PasskeysDelete(c) == \E k \in Cred : Start(c, "delkey", k, None)

\* Its token is the one the server is going to draw.
InviteCreate(c) ==
  \E t \in Token \ (mem \cup disk \cup {cmd[d].what : d \in Cli}) :
    Start(c, "invite", t, None)
InviteRevoke(c) == \E t \in Token : Start(c, "uninvite", t, None)

UsersDelete(c) == \E ident \in Typed : Start(c, "deluser", None, ident)
GrantRevoke(c) ==
  \E verb \in OnGrant, s \in Sub, ident \in Typed : Start(c, verb, s, ident)

Command(c) ==
  \/ Mutate(c) \/ LockToggle(c) \/ PasskeysDelete(c) \/ InviteCreate(c) \/ InviteRevoke(c)
  \/ UsersDelete(c) \/ GrantRevoke(c)

\* resolveUserID: the list of users is fetched, the first of that name taken.
\* Without an answer, or a user of that name, the name goes to the server as it
\* was typed. Which of several users is the first the model leaves open.
Lookup(c) ==
  LET listed == Bearers(cmd[c].ident) \cap mem IN
  /\ pc[c] = "lookup"
  /\ \/ \E u \in listed : cmd' = [cmd EXCEPT ![c].who = u]
     \/ UNCHANGED cmd
  /\ pc' = [pc EXCEPT ![c] = "wait"]
  /\ job' = [job EXCEPT ![c] = "new"]
  /\ UNCHANGED <<store, born, clean, told, started, todo>>

\* postForm and "invite" read the handler's JSON, the others its status, and
\* every status below 400 is a success.
ExitCode(answer) == IF answer = "refused" THEN 3 ELSE 0

\* The history: what an undisturbed command was told about its objects. A
\* refusal says nothing across a restart.
Tell(c, code) ==
  LET r == cmd[c]
      says == \/ code = 0 /\ clean[c] # "no"
              \/ code = 3 /\ clean[c] = "yes"
  IN told' = [o \in Object |->
       IF o \notin r.asked THEN told[o]
       ELSE IF says THEN [code |-> code, verb |-> r.verb, there |-> r.verb \in Adding]
       ELSE Nothing]

Exit(c, code) ==
  /\ pc' = [pc EXCEPT ![c] = "idle"]
  /\ Tell(c, code)
  /\ UNCHANGED <<store, born, clean, started, todo>>

\* No more is going to happen.
Over(c) ==
  /\ cmd' = [cmd EXCEPT ![c] = NoCommand]
  /\ job' = [job EXCEPT ![c] = "none"]

Receive(c) ==
  /\ pc[c] = "wait" /\ job[c] \in Answer
  /\ Exit(c, ExitCode(job[c]))
  /\ Over(c)

\* No connection, no answer within 30 seconds, or a connection that breaks: the
\* request may be served for all that.
GiveUp(c) ==
  /\ pc[c] = "wait"
  /\ Exit(c, 1)
  /\ \/ job[c] \in {"none", "new"} \cup Answer /\ Over(c)
     \/ job[c] \in Serving /\ UNCHANGED <<cmd, job>>

-----------------------------------------------------------------------------
(* The server                                                              *)

\* Memory is changed first; then the file is written, or is not.
Written(file, now) ==
  /\ mem' = now
  /\ disk' = (disk \ file) \cup (now \cap file)
  /\ UNCHANGED faults
NotWritten(now) ==
  /\ faults < MaxFaults /\ faults' = faults + 1
  /\ mem' = now
  /\ UNCHANGED disk

At(c, step, verbs) == job[c] = step /\ cmd[c].verb \in verbs

\* The answer of a request whose client has gone is dropped.
Reply(c, answer) ==
  /\ job' = [job EXCEPT ![c] = IF pc[c] = "wait" THEN answer ELSE "none"]
  /\ cmd' = [cmd EXCEPT ![c] = IF pc[c] = "wait" THEN @ ELSE NoCommand]
Proceed(c, step) == job' = [job EXCEPT ![c] = step] /\ UNCHANGED cmd

\* A slip: a failed save goes unnoticed.
ReplySaved(c, file, now) ==
  /\ Written(file, now) \/ NotWritten(now)
  /\ Reply(c, "ok")

\* The save's error is the answer.
ReplyWithSave(c, file, now) ==
  \/ Written(file, now) /\ Reply(c, "ok")
  \/ NotWritten(now) /\ Reply(c, "refused")

\* A handler that cannot do what it was asked says so.
Refuse(c) == Reply(c, "refused") /\ UNCHANGED store

\* ipACL.Add.
AddRule(c) ==
  LET r == cmd[c].what IN
  /\ At(c, "new", {"allow"})
  /\ IF r \in mem THEN Refuse(c) ELSE ReplyWithSave(c, Rule, mem \cup {r})
  /\ UNCHANGED <<born, client, todo>>

\* A slip: a rule leaves the list only with its file.
RemoveRuleOnce(c) ==
  LET r == cmd[c].what IN
  /\ At(c, "new", {"unallow"})
  /\ \/ r \in mem /\ Written(Rule, mem \ {r}) /\ Reply(c, "ok")
     \/ r \in mem /\ NotWritten(mem) /\ Reply(c, "refused")
     \/ r \notin mem /\ Refuse(c)
  /\ UNCHANGED <<born, client, todo>>

\* ipACL.Remove.
RemoveRule(c) ==
  LET r == cmd[c].what IN
  /\ At(c, "new", {"unallow"})
  /\ IF r \in mem THEN ReplyWithSave(c, Rule, mem \ {r}) ELSE Refuse(c)
  /\ UNCHANGED <<born, client, todo>>

\* inviteStore.Issue takes the invite back when it cannot be saved.
IssueInvite(c) ==
  /\ At(c, "new", {"invite"})
  /\ \/ Written(Token, mem \cup {cmd[c].what}) /\ Reply(c, "ok")
     \/ NotWritten(mem) /\ Reply(c, "refused")
  /\ UNCHANGED <<born, client, todo>>

DeleteInvite(c) ==
  LET t == cmd[c].what IN
  /\ At(c, "new", {"uninvite"})
  /\ IF t \in mem THEN ReplyWithSave(c, Token, mem \ {t}) ELSE Refuse(c)
  /\ UNCHANGED <<born, client, todo>>

\* serveAdminGrants: FindUser, then Grant or Revoke.
FindUser(c) ==
  /\ At(c, "new", OnGrant)
  /\ IF cmd[c].who \in mem THEN Proceed(c, "found") /\ UNCHANGED store ELSE Refuse(c)
  /\ UNCHANGED <<born, client, todo>>

\* A slip: the pair is kept the other way round.
GrantSwapped(c) ==
  /\ At(c, "found", {"grant"})
  /\ ReplyWithSave(c, Grants, mem \cup {<<cmd[c].who, cmd[c].what>>})
  /\ UNCHANGED <<born, client, todo>>

Grant(c) ==
  LET g == <<cmd[c].what, cmd[c].who>> IN
  /\ At(c, "found", {"grant"})
  /\ ReplyWithSave(c, Grants, mem \cup {g})
  /\ UNCHANGED <<born, client, todo>>

Revoke(c) ==
  LET g == <<cmd[c].what, cmd[c].who>> IN
  /\ At(c, "found", {"revoke"})
  /\ IF g \in mem THEN ReplyWithSave(c, Grants, mem \ {g}) ELSE Refuse(c)
  /\ UNCHANGED <<born, client, todo>>

\* serveAdminLocks lists the users and grants them one by one, and redirects
\* whatever came of it. With no user the grant to nobody is refused and there
\* is no entry.
LockList(c) ==
  /\ At(c, "new", {"lock"})
  /\ todo' = [todo EXCEPT ![c] = User \cap mem]
  /\ Proceed(c, "granting")
  /\ UNCHANGED <<store, born, client>>

LockGrant(c) ==
  /\ At(c, "granting", {"lock"})
  /\ \E u \in todo[c] :
       LET now == mem \cup {<<cmd[c].what, u>>} IN
       /\ todo' = [todo EXCEPT ![c] = @ \ {u}]
       /\ Written(Grants, now) \/ NotWritten(now)
  /\ UNCHANGED <<born, client, cmd, job>>

LockDone(c) ==
  /\ At(c, "granting", {"lock"}) /\ todo[c] = {}
  /\ Reply(c, "redirect")
  /\ UNCHANGED <<store, born, client, todo>>

\* The handlers below, like this one, drop the error of the save.
Unlock(c) ==
  LET entry == {cmd[c].what} \X User
      now == mem \ entry
  IN /\ At(c, "new", {"unlock"})
     /\ IF mem \cap entry = {} THEN UNCHANGED store
        ELSE Written(Grants, now) \/ NotWritten(now)
     /\ Reply(c, "redirect")
     /\ UNCHANGED <<born, client, todo>>

\* serveAdminUsersDelete: RevokeUserAcrossTunnels, RevokeUserSessions, which
\* are no object here, and DeleteUser. What is asked for may be no user's id.
RevokeEverywhere(c) ==
  LET gone == mem \cap Grants \cap (Sub \X {cmd[c].who})
      now == mem \ gone
  IN /\ At(c, "new", {"deluser"})
     /\ IF gone = {} THEN UNCHANGED store
        ELSE Written(Grants, now) \/ NotWritten(now)
     /\ Proceed(c, "erase")
     /\ UNCHANGED <<born, client, todo>>

EraseUser(c) ==
  LET u == cmd[c].who
      now == mem \ ({u} \cup KeysOf({u}))
  IN /\ At(c, "erase", {"deluser"})
     /\ IF u \in mem THEN Written(User \cup Cred, now) \/ NotWritten(now)
        ELSE UNCHANGED store
     /\ Reply(c, "ok")
     /\ UNCHANGED <<born, client, todo>>

DeleteCredential(c) ==
  LET k == cmd[c].what
      now == mem \ {k}
  IN /\ At(c, "new", {"delkey"})
     /\ IF k \in mem THEN Written(User \cup Cred, now) \/ NotWritten(now)
        ELSE UNCHANGED store
     /\ Reply(c, "redirect")
     /\ UNCHANGED <<born, client, todo>>

Handle(c) ==
  \/ AddRule(c) \/ RemoveRule(c)
  \/ IssueInvite(c) \/ DeleteInvite(c)
  \/ FindUser(c) \/ Grant(c) \/ Revoke(c)
  \/ LockList(c) \/ LockGrant(c) \/ LockDone(c) \/ Unlock(c)
  \/ RevokeEverywhere(c) \/ EraseUser(c) \/ DeleteCredential(c)

-----------------------------------------------------------------------------
(* What else happens                                                       *)

\* Somebody redeems an invite; Access has the steps.
Enrol(u) ==
  LET os == {u} \cup KeysOf({u}) IN
  /\ u \notin born
  /\ born' = born \cup {u}
  /\ Written(User \cup Cred, mem \cup os)
  /\ told' = Forget(os)
  /\ clean' = Disturb(None, AllOf({u}))
  /\ UNCHANGED <<pc, started, cmd, job, todo>>

\* The files are read again; requests end where they stand. Answers that are on
\* their way arrive. A user whose deletion was not saved is back, and may be
\* whom a name stands for.
Restart ==
  LET lost == {c \in Cli : job[c] \in Serving}
      back == User \cap (disk \ mem)
      touched == Disturb(None, AllOf(back))
  IN
  /\ faults < MaxFaults /\ faults' = faults + 1
  /\ mem' = disk
  /\ job' = [c \in Cli |-> IF c \in lost THEN "none" ELSE job[c]]
  /\ todo' = [c \in Cli |-> {}]
  /\ cmd' = [c \in Cli |-> IF c \in lost /\ pc[c] = "idle" THEN NoCommand ELSE cmd[c]]
  /\ clean' = [c \in Cli |-> IF touched[c] = "yes" THEN "restarted" ELSE touched[c]]
  /\ told' = [o \in Object |-> IF told[o].code = 3 THEN Nothing ELSE told[o]]
  /\ UNCHANGED <<disk, born, pc, started>>

Next ==
  \/ \E c \in Cli : Command(c) \/ Lookup(c) \/ Receive(c) \/ GiveUp(c) \/ Handle(c)
  \/ \E u \in User : Enrol(u)
  \/ Restart

Spec == Init /\ [][Next]_vars

-----------------------------------------------------------------------------
(* Properties                                                              *)

AdminTypeOK ==
  /\ mem \subseteq Object /\ disk \subseteq Object
  /\ faults \in 0..MaxFaults /\ started \in 0..MaxCommands /\ born \subseteq User
  /\ pc \in [Cli -> {"idle", "lookup", "wait"}]
  /\ cmd \in [Cli -> [verb : Verb \cup {"none"}, what : Rule \cup Token \cup Sub \cup Cred \cup {None},
                      ident : User \cup Name \cup {None}, who : User \cup {None},
                      asked : SUBSET Object]]
  /\ job \in [Cli -> {"none"} \cup Serving \cup Answer]
  /\ todo \in [Cli -> SUBSET User]
  /\ clean \in [Cli -> {"yes", "restarted", "no"}]
  /\ told \in [Object -> [code : {0, 1, 3}, verb : Verb \cup {"none"}, there : BOOLEAN]]

\* As the command asked, in memory and in the file.
AsAsked(o) == IF told[o].there THEN o \in mem \cap disk ELSE o \notin mem \cup disk

\* An administrator told "success" by allow, block, their opposites, grant,
\* revoke, invite or "invites revoke" can rely on it: until somebody's next
\* command about the same thing it is in force and outlives restarts, failed
\* saves of other changes, and whatever other administrators do.
ToldHolds ==
  \A o \in Object : told[o].code = 0 /\ told[o].verb \in Reporting => AsAsked(o)

\* A refusal by the address lists or by "invites revoke" leaves the server, until
\* its next restart, as it was asked to be: what could not be saved is in force
\* all the same, and a repeated command is refused because the first one was
\* carried out. Only an invite that could not be saved is not there: nobody was
\* given its link.
RefusalIsHarmless ==
  \A o \in Object : told[o].code = 3 =>
    /\ told[o].verb \in OnRule \cup {"uninvite"} => (o \in mem <=> told[o].there)
    /\ told[o].verb = "invite" => o \notin mem \cup disk
=============================================================================
