--------------------------- MODULE AdminCliProofs ---------------------------
(***************************************************************************)
(* AdminCli for every set of terminals, objects and names, for any number  *)
(* of commands, failed saves and restarts: what an exit code said is so.   *)
(*                                                                         *)
(* The argument follows a command from Start to Receive. While nobody else *)
(* touches what it is about, what its handler has left there does not      *)
(* change, whatever other handlers write and however their saves end: a    *)
(* write changes only what its own command is about, and puts on disk of   *)
(* the rest of its file what memory holds, which is what was there.        *)
(***************************************************************************)
EXTENDS AdminCli, TLAPS

(* Types: what a command is about, by its verb                             *)

\* A command has asked for no more than it is about, and the user it names is
\* one that its argument may stand for.
Shaped ==
  \A c \in Cli :
    LET r == cmd[c] IN
    /\ r.verb \in OnRule => r.what \in Rule
    /\ r.verb \in OnInvite => r.what \in Token
    /\ r.verb \in OnGrant \cup OnTunnel => r.what \in Sub
    /\ r.verb = "delkey" => r.what \in Cred
    /\ r.asked \subseteq Touches(r)
    /\ r.verb \in OnRule \cup OnInvite => r.asked = {r.what}
    /\ r.who \in Bearers(r.ident) \cup {None}

FoundOne == \A c \in Cli : job[c] = "found" => cmd[c].who \in User

\* There is no request while the name is looked up.
LookupWaits == \A c \in Cli : pc[c] = "lookup" => job[c] = "none"

Base == AdminTypeOK /\ Shaped /\ FoundOne /\ LookupWaits

\* What an administrator can type.
Args(verb, what, ident) ==
  /\ verb \in Verb
  /\ ident \in User \cup Name \cup {None}
  /\ verb \in OnRule => what \in Rule
  /\ verb \in OnInvite => what \in Token
  /\ verb \in OnGrant \cup OnTunnel => what \in Sub
  /\ verb = "delkey" => what \in Cred
  /\ verb = "deluser" => what = None

LEMMA CommandStarts ==
  ASSUME NEW c \in Cli, Command(c)
  PROVE  \E verb, what, ident :
           /\ Args(verb, what, ident) /\ Start(c, verb, what, ident)
           /\ verb = "invite" => what \notin mem \cup disk
  <1>1. CASE Mutate(c)
    BY <1>1 DEF Mutate, Args, Verb, OnRule, OnInvite, OnGrant, OnTunnel, ByName
  <1>2. CASE LockToggle(c)
    BY <1>2 DEF LockToggle, Args, Verb, OnRule, OnInvite, OnGrant, OnTunnel, ByName
  <1>3. CASE PasskeysDelete(c)
    BY <1>3 DEF PasskeysDelete, Args, Verb, OnRule, OnInvite, OnGrant, OnTunnel, ByName
  <1>4. CASE InviteCreate(c)
    BY <1>4 DEF InviteCreate, Args, Verb, OnRule, OnInvite, OnGrant, OnTunnel, ByName
  <1>5. CASE InviteRevoke(c)
    BY <1>5 DEF InviteRevoke, Args, Verb, OnRule, OnInvite, OnGrant, OnTunnel, ByName
  <1>6. CASE UsersDelete(c)
    BY <1>6, AdminCliAssumption
       DEF UsersDelete, Args, Verb, OnRule, OnInvite, OnGrant, OnTunnel, ByName
  <1>7. CASE GrantRevoke(c)
    BY <1>7, AdminCliAssumption
       DEF GrantRevoke, Args, Verb, OnRule, OnInvite, OnGrant, OnTunnel, ByName
  <1>8. QED
    BY <1>1, <1>2, <1>3, <1>4, <1>5, <1>6, <1>7 DEF Command

\* What a command is about, kind by kind.
LEMMA TouchesIs ==
  ASSUME NEW r
  PROVE  /\ r.verb \in OnRule \cup OnInvite \cup {"delkey"} => Touches(r) = {r.what}
         /\ r.verb \in OnGrant => Touches(r) = {r.what} \X Bearers(r.ident)
         /\ r.verb \in OnTunnel => Touches(r) = {r.what} \X User
         /\ r.verb = "deluser" => Touches(r) = AllOf(Bearers(r.ident))
         /\ r.verb = "none" => Touches(r) = {}
  BY DEF Touches, About, OnRule, OnInvite, OnGrant, OnTunnel

LEMMA BearersAreUsers == \A ident : Bearers(ident) \subseteq User
  BY DEF Bearers

LEMMA NoneTouched == Touches(NoCommand) = {}
  BY DEF Touches, NoCommand

\* A success promises no more than the command is about.
LEMMA PromisedIsTouched ==
  ASSUME NEW verb, NEW what, NEW ident, NEW r, r.verb = verb, r.what = what,
         r.ident = ident, Args(verb, what, ident)
  PROVE  /\ Promised(verb, what, ident) \subseteq Touches(r)
         /\ Promised(verb, what, ident) \subseteq Object
         /\ verb \in OnRule \cup OnInvite => Promised(verb, what, ident) = {what}
  <1>1. CASE verb \in OnRule \cup OnInvite \cup {"delkey"}
    <2>1. Promised(verb, what, ident) = {what}
      BY <1>1 DEF Promised, About, OnRule, OnInvite, OnTunnel, ByName, OnGrant
    <2>2. QED
      BY <1>1, <2>1, TouchesIs DEF Args, Object
  <1>2. CASE verb \in OnTunnel
    <2>1. Promised(verb, what, ident) \subseteq {what} \X User
      <3>1. CASE verb = "lock"
        <4>1. Promised(verb, what, ident) = About(verb, what, User \cap mem)
          BY <3>1 DEF Promised, ByName, OnGrant
        <4>2. QED
          BY <1>2, <4>1 DEF About, OnGrant, OnTunnel
      <3>2. CASE verb = "unlock"
        <4>1. Promised(verb, what, ident) = About(verb, what, User)
          BY <3>2 DEF Promised, ByName, OnGrant
        <4>2. QED
          BY <1>2, <4>1 DEF About, OnGrant, OnTunnel
      <3>3. QED
        BY <1>2, <3>1, <3>2 DEF OnTunnel
    <2>2. QED
      BY <1>2, <2>1, TouchesIs
         DEF Args, Object, Grants, OnTunnel, OnRule, OnInvite
  <1>3. CASE verb \in OnGrant
    <2>1. Promised(verb, what, ident) \subseteq {what} \X Bearers(ident)
      BY <1>3 DEF Promised, About, ByName, OnGrant, OnTunnel
    <2>2. QED
      BY <1>3, <2>1, TouchesIs, BearersAreUsers
         DEF Args, Object, Grants, OnGrant, OnRule, OnInvite
  <1>4. CASE verb = "deluser"
    <2>1. Promised(verb, what, ident) \subseteq AllOf(Bearers(ident))
      BY <1>4 DEF Promised, About, ByName, OnGrant, OnTunnel, AllOf, KeysOf
    <2>2. AllOf(Bearers(ident)) \subseteq Object
      BY BearersAreUsers DEF AllOf, KeysOf, Object, Grants
    <2>3. QED
      BY <1>4, <2>1, <2>2, TouchesIs DEF OnRule, OnInvite
  <1>5. QED
    BY <1>1, <1>2, <1>3, <1>4 DEF Args, Verb, ByName

LEMMA AllObjects == \A us \in SUBSET User : AllOf(us) \subseteq Object
  BY DEF AllOf, KeysOf, Object, Grants

LEMMA TouchesObjects ==
  ASSUME NEW c \in Cli, Base
  PROVE  Touches(cmd[c]) \subseteq Object
  <1> DEFINE r == cmd[c]
  <1> SUFFICES Touches(r) \subseteq Object
    OBVIOUS
  <1>1. /\ r.verb \in Verb \cup {"none"}
        /\ r.verb \in OnRule => r.what \in Rule
        /\ r.verb \in OnInvite => r.what \in Token
        /\ r.verb \in OnGrant \cup OnTunnel => r.what \in Sub
        /\ r.verb = "delkey" => r.what \in Cred
    BY DEF Base, AdminTypeOK, Shaped
  <1> HIDE DEF r
  <1>2. Bearers(r.ident) \in SUBSET User
    BY BearersAreUsers
  <1>3. CASE r.verb \in OnRule \cup OnInvite \cup {"delkey"}
    BY <1>1, <1>3, TouchesIs DEF Object
  <1>4. CASE r.verb \in OnGrant
    BY <1>1, <1>2, <1>4, TouchesIs DEF Object, Grants
  <1>5. CASE r.verb \in OnTunnel
    BY <1>1, <1>5, TouchesIs DEF Object, Grants
  <1>6. CASE r.verb = "deluser"
    BY <1>2, <1>6, TouchesIs, AllObjects
  <1>7. CASE r.verb = "none"
    BY <1>7, TouchesIs
  <1>8. r.verb \in OnRule \cup OnInvite \cup OnGrant \cup OnTunnel
                     \cup {"delkey", "deluser", "none"}
    BY <1>1 DEF Verb, ByName
  <1>9. QED
    BY <1>3, <1>4, <1>5, <1>6, <1>7, <1>8

-----------------------------------------------------------------------------
(* What a step of a handler leaves alone                                   *)

\* Outside of os memory is as it was, and the file as it was or as memory is.
Near(os) ==
  \A o \in Object \ os :
    /\ o \in mem' <=> o \in mem
    /\ (o \in disk' <=> o \in disk) \/ (o \in disk' <=> o \in mem)

\* The others' commands are as they were; this one goes on or is over.
Alone(c) ==
  /\ \A d \in Cli \ {c} : cmd'[d] = cmd[d] /\ job'[d] = job[d]
  /\ cmd'[c] \in {cmd[c], NoCommand}

CmdType ==
  [verb : Verb \cup {"none"}, what : Rule \cup Token \cup Sub \cup Cred \cup {None},
   ident : User \cup Name \cup {None}, who : User \cup {None}, asked : SUBSET Object]
JobType == {"none"} \cup Serving \cup Answer

StoreStep(c) ==
  /\ mem' \subseteq Object /\ disk' \subseteq Object /\ faults' \in 0..MaxFaults
  /\ Near(Touches(cmd[c]))
  /\ mem' \cap User \subseteq mem

JobStep(c) ==
  /\ cmd' \in [Cli -> CmdType] /\ job' \in [Cli -> JobType]
  /\ Alone(c)
  /\ job'[c] = "found" => cmd'[c].who \in User

Frame(c) ==
  /\ StoreStep(c) /\ JobStep(c)
  /\ todo' \in [Cli -> SUBSET User]
  /\ UNCHANGED <<born, client>>

LEMMA NoCommandType == NoCommand \in CmdType
  BY DEF NoCommand, CmdType

LEMMA SaveFrame ==
  ASSUME Base, NEW c \in Cli, NEW file, NEW now \in SUBSET Object,
         Written(file, now) \/ NotWritten(now),
         \A o \in Object \ Touches(cmd[c]) : o \in now <=> o \in mem,
         now \cap User \subseteq mem
  PROVE  StoreStep(c) /\ mem' = now
  <1>1. /\ mem \subseteq Object /\ disk \subseteq Object /\ faults \in 0..MaxFaults
        /\ MaxFaults \in Nat
    BY AdminCliAssumption DEF Base, AdminTypeOK
  <1> DEFINE os == Touches(cmd[c])
  <1>2. \A o \in Object \ os : o \in now <=> o \in mem
    OBVIOUS
  <1> HIDE DEF os
  <1>3. CASE Written(file, now)
    <2>1. mem' = now /\ disk' = (disk \ file) \cup (now \cap file) /\ faults' = faults
      BY <1>3 DEF Written
    <2>2. Near(os)
      BY <1>2, <2>1 DEF Near
    <2>3. QED
      BY <1>1, <2>1, <2>2 DEF StoreStep, os
  <1>4. CASE NotWritten(now)
    <2>1. mem' = now /\ disk' = disk /\ faults' \in 0..MaxFaults
      BY <1>1, <1>4 DEF NotWritten
    <2>2. Near(os)
      BY <1>2, <2>1 DEF Near
    <2>3. QED
      BY <1>1, <2>1, <2>2 DEF StoreStep, os
  <1>5. QED
    BY <1>3, <1>4

LEMMA IdleFrame ==
  ASSUME Base, NEW c \in Cli, UNCHANGED store
  PROVE  StoreStep(c)
  BY DEF Base, AdminTypeOK, StoreStep, Near, store

LEMMA ReplyFrame ==
  ASSUME Base, NEW c \in Cli, NEW answer \in Answer, Reply(c, answer)
  PROVE  /\ JobStep(c)
         /\ job'[c] \in {answer, "none"}
         /\ job'[c] = answer => cmd'[c] = cmd[c]
  <1>1. cmd \in [Cli -> CmdType] /\ job \in [Cli -> JobType]
    BY DEF Base, AdminTypeOK, CmdType, JobType
  <1>2. CASE pc[c] = "wait"
    <2>1. job' = [job EXCEPT ![c] = answer] /\ cmd' = [cmd EXCEPT ![c] = cmd[c]]
      BY <1>2 DEF Reply
    <2>2. cmd' = cmd
      BY <1>1, <2>1
    <2>3. QED
      BY <1>1, <2>1, <2>2 DEF JobStep, Alone, JobType, Answer
  <1>3. CASE pc[c] # "wait"
    <2>1. job' = [job EXCEPT ![c] = "none"] /\ cmd' = [cmd EXCEPT ![c] = NoCommand]
      BY <1>3 DEF Reply
    <2>2. QED
      BY <1>1, <2>1, NoCommandType DEF JobStep, Alone, JobType, Answer
  <1>4. QED
    BY <1>2, <1>3

LEMMA ProceedFrame ==
  ASSUME Base, NEW c \in Cli, NEW step \in Serving, Proceed(c, step),
         step = "found" => cmd[c].who \in User
  PROVE  JobStep(c) /\ job'[c] = step /\ cmd' = cmd
  <1>1. cmd \in [Cli -> CmdType] /\ job \in [Cli -> JobType]
    BY DEF Base, AdminTypeOK, CmdType, JobType
  <1>2. job' = [job EXCEPT ![c] = step] /\ cmd' = cmd
    BY DEF Proceed
  <1>3. QED
    BY <1>1, <1>2 DEF JobStep, Alone, JobType

\* The kinds of what a command is about.
LEMMA CommandKinds ==
  ASSUME Base, NEW c \in Cli
  PROVE  /\ cmd[c].verb \in OnRule =>
              cmd[c].what \in Rule /\ Touches(cmd[c]) = {cmd[c].what}
         /\ cmd[c].verb \in OnInvite =>
              cmd[c].what \in Token /\ Touches(cmd[c]) = {cmd[c].what}
         /\ cmd[c].verb \in OnGrant =>
              /\ cmd[c].what \in Sub
              /\ Touches(cmd[c]) = {cmd[c].what} \X Bearers(cmd[c].ident)
         /\ cmd[c].verb \in OnTunnel =>
              cmd[c].what \in Sub /\ Touches(cmd[c]) = {cmd[c].what} \X User
         /\ cmd[c].verb = "delkey" =>
              cmd[c].what \in Cred /\ Touches(cmd[c]) = {cmd[c].what}
         /\ cmd[c].verb = "deluser" => Touches(cmd[c]) = AllOf(Bearers(cmd[c].ident))
         /\ cmd[c].who \in Bearers(cmd[c].ident) \cup {None}
         /\ mem \subseteq Object /\ disk \subseteq Object
         /\ todo[c] \subseteq User
  <1> DEFINE r == cmd[c]
  <1>1. /\ r.verb \in OnRule => r.what \in Rule
        /\ r.verb \in OnInvite => r.what \in Token
        /\ r.verb \in OnGrant \cup OnTunnel => r.what \in Sub
        /\ r.verb = "delkey" => r.what \in Cred
        /\ r.who \in Bearers(r.ident) \cup {None}
    BY DEF Base, Shaped
  <1>2. mem \subseteq Object /\ disk \subseteq Object /\ todo[c] \subseteq User
    BY DEF Base, AdminTypeOK
  <1> SUFFICES /\ r.verb \in OnRule => r.what \in Rule /\ Touches(r) = {r.what}
               /\ r.verb \in OnInvite => r.what \in Token /\ Touches(r) = {r.what}
               /\ r.verb \in OnGrant =>
                    r.what \in Sub /\ Touches(r) = {r.what} \X Bearers(r.ident)
               /\ r.verb \in OnTunnel => r.what \in Sub /\ Touches(r) = {r.what} \X User
               /\ r.verb = "delkey" => r.what \in Cred /\ Touches(r) = {r.what}
               /\ r.verb = "deluser" => Touches(r) = AllOf(Bearers(r.ident))
    BY <1>1, <1>2
  <1> HIDE DEF r
  <1>3. QED
    BY <1>1, TouchesIs

\* A handler that ends with its store's answer, or refuses.
LEMMA SavedFrame ==
  ASSUME Base, NEW c \in Cli, NEW file, NEW now \in SUBSET Object,
         \/ Written(file, now) /\ Reply(c, "ok")
         \/ NotWritten(now) /\ Reply(c, "refused")
         \/ (Written(file, now) \/ NotWritten(now)) /\ Reply(c, "ok")
         \/ (Written(file, now) \/ NotWritten(now)) /\ Reply(c, "redirect"),
         \A o \in Object \ Touches(cmd[c]) : o \in now <=> o \in mem,
         now \cap User \subseteq mem
  PROVE  StoreStep(c) /\ JobStep(c)
  <1>1. StoreStep(c)
    BY SaveFrame
  <1>2. \E answer \in Answer : Reply(c, answer)
    BY DEF Answer
  <1>3. QED
    BY <1>1, <1>2, ReplyFrame

LEMMA RefuseFrame ==
  ASSUME Base, NEW c \in Cli, NEW answer \in Answer, Reply(c, answer), UNCHANGED store
  PROVE  StoreStep(c) /\ JobStep(c)
  BY IdleFrame, ReplyFrame

LEMMA RulesFrame ==
  ASSUME Base, NEW c \in Cli, AddRule(c) \/ RemoveRule(c) \/ IssueInvite(c) \/ DeleteInvite(c)
  PROVE  Frame(c)
  <1> DEFINE r == cmd[c].what
             plus == mem \cup {r}
             less == mem \ {r}
  <1>1. /\ cmd[c].verb \in OnRule \cup OnInvite
        /\ UNCHANGED <<born, client, todo>>
    BY DEF AddRule, RemoveRule, IssueInvite, DeleteInvite, At, OnRule, OnInvite
  <1>2. /\ r \in Rule \cup Token /\ Touches(cmd[c]) = {r}
        /\ mem \subseteq Object /\ todo \in [Cli -> SUBSET User]
    BY <1>1, CommandKinds DEF Base, AdminTypeOK
  <1>3. r \notin User /\ r \in Object
    BY <1>2, AdminCliAssumption DEF Object
  <1>4. ReplyWithSave(c, Rule, plus) => StoreStep(c) /\ JobStep(c)
    BY <1>2, <1>3, SavedFrame DEF ReplyWithSave
  <1>5. ReplyWithSave(c, Rule, less) => StoreStep(c) /\ JobStep(c)
    BY <1>2, <1>3, SavedFrame DEF ReplyWithSave
  <1>6. ReplyWithSave(c, Token, less) => StoreStep(c) /\ JobStep(c)
    BY <1>2, <1>3, SavedFrame DEF ReplyWithSave
  <1>7. Written(Token, plus) /\ Reply(c, "ok") => StoreStep(c) /\ JobStep(c)
    BY <1>2, <1>3, SavedFrame
  <1>8. NotWritten(mem) /\ Reply(c, "refused") => StoreStep(c) /\ JobStep(c)
    BY <1>2, <1>3, SavedFrame
  <1>9. Refuse(c) => StoreStep(c) /\ JobStep(c)
    BY RefuseFrame DEF Refuse, Answer
  <1>10. \/ ReplyWithSave(c, Rule, plus) \/ ReplyWithSave(c, Rule, less)
         \/ ReplyWithSave(c, Token, less) \/ Refuse(c)
         \/ Written(Token, plus) /\ Reply(c, "ok")
         \/ NotWritten(mem) /\ Reply(c, "refused")
    BY DEF AddRule, RemoveRule, IssueInvite, DeleteInvite
  <1>11. StoreStep(c) /\ JobStep(c)
    BY <1>4, <1>5, <1>6, <1>7, <1>8, <1>9, <1>10
  <1>12. QED
    BY <1>1, <1>2, <1>11 DEF Frame

LEMMA GrantsFrame ==
  ASSUME Base, NEW c \in Cli, FindUser(c) \/ Grant(c) \/ Revoke(c)
  PROVE  Frame(c)
  <1> DEFINE g == <<cmd[c].what, cmd[c].who>>
             plus == mem \cup {g}
             less == mem \ {g}
  <1>1. cmd[c].verb \in OnGrant /\ UNCHANGED <<born, client, todo>>
    BY DEF FindUser, Grant, Revoke, At, OnGrant
  <1>2. /\ cmd[c].what \in Sub /\ Touches(cmd[c]) = {cmd[c].what} \X Bearers(cmd[c].ident)
        /\ cmd[c].who \in Bearers(cmd[c].ident) \cup {None}
        /\ mem \subseteq Object /\ todo \in [Cli -> SUBSET User]
    BY <1>1, CommandKinds DEF Base, AdminTypeOK
  <1>3. CASE FindUser(c)
    <2>1. CASE cmd[c].who \in mem
      <3>1. Proceed(c, "found") /\ UNCHANGED store
        BY <1>3, <2>1 DEF FindUser
      <3>2. cmd[c].who \in User
        BY <1>2, <2>1, BearersAreUsers, AdminCliAssumption
      <3>3. QED
        BY <1>1, <1>2, <3>1, <3>2, IdleFrame, ProceedFrame DEF Serving, Frame
    <2>2. CASE cmd[c].who \notin mem
      BY <1>1, <1>2, <1>3, <2>2, RefuseFrame DEF FindUser, Refuse, Answer, Frame
    <2>3. QED
      BY <2>1, <2>2
  <1>4. CASE Grant(c) \/ Revoke(c)
    <2>1. job[c] = "found"
      BY <1>4 DEF Grant, Revoke, At
    <2>2. cmd[c].who \in User /\ g \in Grants /\ g \in Touches(cmd[c])
      BY <1>2, <2>1, BearersAreUsers, AdminCliAssumption DEF Base, FoundOne, Grants, Object
    <2>3. g \notin User /\ g \in Object
      BY <2>2, AdminCliAssumption DEF Object
    <2> HIDE DEF g
    <2>4. ReplyWithSave(c, Grants, plus) => StoreStep(c) /\ JobStep(c)
      BY <1>2, <2>2, <2>3, SavedFrame DEF ReplyWithSave
    <2>5. ReplyWithSave(c, Grants, less) => StoreStep(c) /\ JobStep(c)
      BY <1>2, <2>2, <2>3, SavedFrame DEF ReplyWithSave
    <2>6. Refuse(c) => StoreStep(c) /\ JobStep(c)
      BY RefuseFrame DEF Refuse, Answer
    <2>7. ReplyWithSave(c, Grants, plus) \/ ReplyWithSave(c, Grants, less) \/ Refuse(c)
      BY <1>4 DEF Grant, Revoke, g
    <2>8. QED
      BY <1>1, <1>2, <2>4, <2>5, <2>6, <2>7 DEF Frame
  <1>5. QED
    BY <1>3, <1>4

LEMMA LocksFrame ==
  ASSUME Base, NEW c \in Cli, LockList(c) \/ LockGrant(c) \/ LockDone(c) \/ Unlock(c)
  PROVE  Frame(c)
  <1> DEFINE s == cmd[c].what
             less == mem \ ({s} \X User)
  <1>1. cmd[c].verb \in OnTunnel /\ UNCHANGED <<born, client>>
    BY DEF LockList, LockGrant, LockDone, Unlock, At, OnTunnel
  <1>2. /\ s \in Sub /\ Touches(cmd[c]) = {s} \X User
        /\ mem \subseteq Object /\ todo \in [Cli -> SUBSET User]
    BY <1>1, CommandKinds DEF Base, AdminTypeOK
  <1>3. CASE LockList(c)
    <2>1. /\ todo' = [todo EXCEPT ![c] = User \cap mem] /\ Proceed(c, "granting")
          /\ UNCHANGED store
      BY <1>3 DEF LockList
    <2>2. todo' \in [Cli -> SUBSET User]
      BY <1>2, <2>1
    <2>3. QED
      BY <1>1, <2>1, <2>2, IdleFrame, ProceedFrame DEF Serving, Frame
  <1>4. CASE LockGrant(c)
    <2>1. PICK u \in todo[c] :
            /\ todo' = [todo EXCEPT ![c] = @ \ {u}]
            /\ \/ Written(Grants, mem \cup {<<s, u>>})
               \/ NotWritten(mem \cup {<<s, u>>})
      BY <1>4 DEF LockGrant
    <2> DEFINE g == <<s, u>>
               plus == mem \cup {g}
    <2>2. g \in Grants /\ g \in Touches(cmd[c]) /\ todo' \in [Cli -> SUBSET User]
      BY <1>2, <2>1 DEF Grants
    <2>3. Written(Grants, plus) \/ NotWritten(plus)
      BY <2>1
    <2> HIDE DEF g
    <2>4. g \notin User /\ g \in Object
      BY <2>2, AdminCliAssumption DEF Object
    <2>5. StoreStep(c)
      <3>1. plus \in SUBSET Object /\ plus \cap User \subseteq mem
        BY <1>2, <2>4
      <3>2. \A o \in Object \ Touches(cmd[c]) : o \in plus <=> o \in mem
        BY <2>2
      <3> HIDE DEF plus
      <3>3. QED
        BY <2>3, <3>1, <3>2, SaveFrame
    <2>6. UNCHANGED <<cmd, job>> /\ job[c] # "found"
      BY <1>4 DEF LockGrant, At
    <2>7. JobStep(c)
      BY <2>6 DEF JobStep, Alone, Base, AdminTypeOK, CmdType, JobType
    <2>8. QED
      BY <1>1, <2>2, <2>5, <2>7 DEF Frame
  <1>5. CASE LockDone(c)
    BY <1>1, <1>2, <1>5, RefuseFrame DEF LockDone, Answer, Frame
  <1>6. CASE Unlock(c)
    <2>1. \/ UNCHANGED store /\ Reply(c, "redirect")
          \/ (Written(Grants, less) \/ NotWritten(less)) /\ Reply(c, "redirect")
      BY <1>6 DEF Unlock
    <2>2. less \in SUBSET Object /\ less \cap User \subseteq mem
      BY <1>2
    <2>3. \A o \in Object \ Touches(cmd[c]) : o \in less <=> o \in mem
      BY <1>2
    <2>4. todo' = todo
      BY <1>6 DEF Unlock
    <2> HIDE DEF less
    <2>5. CASE UNCHANGED store
      BY <1>1, <1>2, <2>1, <2>4, <2>5, RefuseFrame DEF Answer, Frame
    <2>6. CASE Written(Grants, less) \/ NotWritten(less)
      BY <1>1, <1>2, <2>1, <2>2, <2>3, <2>4, <2>6, SavedFrame DEF Frame
    <2>7. QED
      BY <2>1, <2>5, <2>6
  <1>7. QED
    BY <1>3, <1>4, <1>5, <1>6

LEMMA DeletesFrame ==
  ASSUME Base, NEW c \in Cli, RevokeEverywhere(c) \/ EraseUser(c) \/ DeleteCredential(c)
  PROVE  Frame(c)
  <1> DEFINE u == cmd[c].who
             k == cmd[c].what
             gone == mem \cap Grants \cap (Sub \X {u})
             left == mem \ gone
             erased == mem \ ({u} \cup KeysOf({u}))
             less == mem \ {k}
  <1>1. UNCHANGED <<born, client, todo>> /\ cmd[c].verb \in {"deluser", "delkey"}
    BY DEF RevokeEverywhere, EraseUser, DeleteCredential, At
  <1>2. /\ cmd[c].verb = "deluser" => Touches(cmd[c]) = AllOf(Bearers(cmd[c].ident))
        /\ cmd[c].verb = "delkey" => k \in Cred /\ Touches(cmd[c]) = {k}
        /\ u \in Bearers(cmd[c].ident) \cup {None}
        /\ mem \subseteq Object /\ todo \in [Cli -> SUBSET User]
    BY CommandKinds DEF Base, AdminTypeOK
  <1>3. None \notin User /\ None \notin mem
    BY <1>2, AdminCliAssumption DEF Object
  <1>4. CASE RevokeEverywhere(c)
    <2>1. /\ cmd[c].verb = "deluser" /\ Proceed(c, "erase")
          /\ \/ gone = {} /\ UNCHANGED store
             \/ gone # {} /\ (Written(Grants, left) \/ NotWritten(left))
      BY <1>4 DEF RevokeEverywhere, At
    <2>2. JobStep(c)
      BY <2>1, ProceedFrame DEF Serving
    <2>3. ASSUME gone # {} PROVE \A o \in Object \ Touches(cmd[c]) : o \in left <=> o \in mem
      <3>1. u # None
        BY <1>3, <2>3 DEF Grants
      <3>2. Sub \X {u} \subseteq Touches(cmd[c])
        BY <1>2, <2>1, <3>1 DEF AllOf
      <3>3. QED
        BY <3>2
    <2>4. left \in SUBSET Object /\ left \cap User \subseteq mem
      BY <1>2
    <2> HIDE DEF left, gone
    <2>5. StoreStep(c)
      BY <2>1, <2>3, <2>4, SaveFrame, IdleFrame
    <2>6. QED
      BY <1>1, <1>2, <2>2, <2>5 DEF Frame
  <1>5. CASE EraseUser(c)
    <2>1. /\ cmd[c].verb = "deluser" /\ Reply(c, "ok")
          /\ \/ u \notin mem /\ UNCHANGED store
             \/ u \in mem /\ (Written(User \cup Cred, erased) \/ NotWritten(erased))
      BY <1>5 DEF EraseUser, At
    <2>2. ASSUME u \in mem PROVE \A o \in Object \ Touches(cmd[c]) : o \in erased <=> o \in mem
      <3>1. u \in Bearers(cmd[c].ident)
        BY <1>2, <1>3, <2>2
      <3>2. {u} \cup KeysOf({u}) \subseteq Touches(cmd[c])
        BY <1>2, <2>1, <3>1 DEF AllOf, KeysOf
      <3>3. QED
        BY <3>2
    <2>3. erased \in SUBSET Object /\ erased \cap User \subseteq mem
      BY <1>2
    <2> HIDE DEF erased
    <2>4. StoreStep(c) /\ JobStep(c)
      BY <2>1, <2>2, <2>3, SavedFrame, RefuseFrame DEF Answer
    <2>5. QED
      BY <1>1, <1>2, <2>4 DEF Frame
  <1>6. CASE DeleteCredential(c)
    <2>1. /\ cmd[c].verb = "delkey" /\ Reply(c, "redirect")
          /\ \/ UNCHANGED store
             \/ Written(User \cup Cred, less) \/ NotWritten(less)
      BY <1>6 DEF DeleteCredential, At
    <2>2. \A o \in Object \ Touches(cmd[c]) : o \in less <=> o \in mem
      BY <1>2, <2>1
    <2>3. less \in SUBSET Object /\ less \cap User \subseteq mem
      BY <1>2
    <2> HIDE DEF less
    <2>4. StoreStep(c) /\ JobStep(c)
      BY <2>1, <2>2, <2>3, SavedFrame, RefuseFrame DEF Answer
    <2>5. QED
      BY <1>1, <1>2, <2>4 DEF Frame
  <1>7. QED
    BY <1>4, <1>5, <1>6

LEMMA HandleFrame ==
  ASSUME Base, NEW c \in Cli, Handle(c)
  PROVE  Frame(c)
  <1>1. \/ AddRule(c) \/ RemoveRule(c) \/ IssueInvite(c) \/ DeleteInvite(c)
        \/ FindUser(c) \/ Grant(c) \/ Revoke(c)
        \/ LockList(c) \/ LockGrant(c) \/ LockDone(c) \/ Unlock(c)
        \/ RevokeEverywhere(c) \/ EraseUser(c) \/ DeleteCredential(c)
    BY DEF Handle
  <1>2. QED
    BY <1>1, RulesFrame, GrantsFrame, LocksFrame, DeletesFrame

-----------------------------------------------------------------------------
(* Base is inductive                                                       *)

\* Shaped and FoundOne for one command.
ShapedCmd(r) ==
  /\ r.verb \in OnRule => r.what \in Rule
  /\ r.verb \in OnInvite => r.what \in Token
  /\ r.verb \in OnGrant \cup OnTunnel => r.what \in Sub
  /\ r.verb = "delkey" => r.what \in Cred
  /\ r.asked \subseteq Touches(r)
  /\ r.verb \in OnRule \cup OnInvite => r.asked = {r.what}
  /\ r.who \in Bearers(r.ident) \cup {None}

LEMMA ShapedIs == Shaped <=> \A c \in Cli : ShapedCmd(cmd[c])
  BY DEF Shaped, ShapedCmd

LEMMA NoneShaped == ShapedCmd(NoCommand)
  BY NoneTouched
     DEF ShapedCmd, NoCommand, OnRule, OnInvite, OnGrant, OnTunnel

LEMMA TouchesSame ==
  ASSUME NEW r, NEW q, r.verb = q.verb, r.what = q.what, r.ident = q.ident
  PROVE  Touches(r) = Touches(q)
  BY DEF Touches

ToldType == [code : {0, 1, 3}, verb : Verb \cup {"none"}, there : BOOLEAN]

LEMMA TypeIs ==
  AdminTypeOK <=>
    /\ mem \subseteq Object /\ disk \subseteq Object
    /\ faults \in 0..MaxFaults /\ started \in 0..MaxCommands /\ born \subseteq User
    /\ pc \in [Cli -> {"idle", "lookup", "wait"}]
    /\ cmd \in [Cli -> CmdType] /\ job \in [Cli -> JobType]
    /\ todo \in [Cli -> SUBSET User]
    /\ clean \in [Cli -> {"yes", "restarted", "no"}]
    /\ told \in [Object -> ToldType]
  BY DEF AdminTypeOK, CmdType, JobType, ToldType

LEMMA ForgetType ==
  ASSUME told \in [Object -> ToldType], NEW os
  PROVE  Forget(os) \in [Object -> ToldType]
  BY DEF Forget, Nothing, ToldType

LEMMA DisturbType ==
  ASSUME clean \in [Cli -> {"yes", "restarted", "no"}], NEW c, NEW os
  PROVE  Disturb(c, os) \in [Cli -> {"yes", "restarted", "no"}]
  BY DEF Disturb

LEMMA InitBase == Init => Base
  <1> SUFFICES ASSUME Init PROVE Base
    OBVIOUS
  <1>1. \A c \in Cli : cmd[c] = NoCommand /\ job[c] = "none"
    BY DEF Init
  <1>2. Shaped
    BY <1>1, NoneShaped, ShapedIs
  <1>3. AdminTypeOK
    <2>1. Nothing \in ToldType
      BY DEF Nothing, ToldType
    <2>2. 0 \in 0..MaxFaults /\ 0 \in 0..MaxCommands
      BY AdminCliAssumption
    <2>3. QED
      BY <2>1, <2>2, NoCommandType, TypeIs DEF Init, JobType
  <1>4. QED
    BY <1>1, <1>2, <1>3 DEF Base, FoundOne, LookupWaits

LEMMA StartBase ==
  ASSUME Base, NEW c \in Cli, NEW verb, NEW what, NEW ident,
         Args(verb, what, ident), Start(c, verb, what, ident)
  PROVE  Base'
  <1> DEFINE r == [verb |-> verb, what |-> what, ident |-> ident,
                   who |-> IF ident \in User THEN ident ELSE None,
                   asked |-> Promised(verb, what, ident)]
             os == Touches(r)
  <1>1. /\ r \in CmdType /\ ShapedCmd(r)
    <2>1. /\ Promised(verb, what, ident) \subseteq os
          /\ Promised(verb, what, ident) \subseteq Object
          /\ verb \in OnRule \cup OnInvite => Promised(verb, what, ident) = {what}
      BY PromisedIsTouched
    <2>2. what \in Rule \cup Token \cup Sub \cup Cred \cup {None}
      BY DEF Args, Verb, ByName, OnRule, OnInvite, OnGrant, OnTunnel
    <2>3. r \in CmdType
      BY <2>1, <2>2 DEF CmdType, Args
    <2>4. r.who \in Bearers(r.ident) \cup {None}
      BY DEF Bearers
    <2>5. QED
      BY <2>1, <2>3, <2>4 DEF ShapedCmd, Args
  <1>2. /\ started < MaxCommands /\ started' = started + 1
        /\ cmd' = [cmd EXCEPT ![c] = r]
        /\ pc' = [pc EXCEPT ![c] = IF ident \in Name THEN "lookup" ELSE "wait"]
        /\ job' = [job EXCEPT ![c] = IF ident \in Name THEN "none" ELSE "new"]
        /\ clean' = [Disturb(c, os) EXCEPT ![c] =
             IF \E d \in Cli \ {c} : Touches(cmd[d]) \cap os # {} THEN "no" ELSE "yes"]
        /\ told' = Forget(os)
        /\ UNCHANGED <<store, born, todo>>
    BY DEF Start
  <1> HIDE DEF r, os
  <1>3. /\ mem \subseteq Object /\ disk \subseteq Object
        /\ faults \in 0..MaxFaults /\ started \in 0..MaxCommands /\ born \subseteq User
        /\ pc \in [Cli -> {"idle", "lookup", "wait"}]
        /\ cmd \in [Cli -> CmdType] /\ job \in [Cli -> JobType]
        /\ todo \in [Cli -> SUBSET User]
        /\ clean \in [Cli -> {"yes", "restarted", "no"}]
        /\ told \in [Object -> ToldType]
    BY TypeIs DEF Base
  <1>4. AdminTypeOK'
    <2>1. started' \in 0..MaxCommands
      BY <1>2, <1>3, AdminCliAssumption
    <2>2. cmd' \in [Cli -> CmdType]
      BY <1>1, <1>2, <1>3
    <2>3. pc' \in [Cli -> {"idle", "lookup", "wait"}]
      BY <1>2, <1>3
    <2>4. job' \in [Cli -> JobType]
      BY <1>2, <1>3 DEF JobType, Serving
    <2>5. told' \in [Object -> ToldType]
      BY <1>2, <1>3, ForgetType
    <2>6. clean' \in [Cli -> {"yes", "restarted", "no"}]
      BY <1>2, <1>3, DisturbType
    <2>7. UNCHANGED <<mem, disk, faults, born, todo>>
      BY <1>2 DEF store
    <2> HIDE DEF AdminTypeOK
    <2>8. QED
      BY <1>3, <2>1, <2>2, <2>3, <2>4, <2>5, <2>6, <2>7
         DEF AdminTypeOK, CmdType, JobType, ToldType
  <1>5. Shaped'
    <2>1. \A d \in Cli : ShapedCmd(cmd'[d])
      BY <1>1, <1>2, <1>3, ShapedIs DEF Base
    <2>2. QED
      BY <2>1 DEF Shaped, ShapedCmd
  <1>6. FoundOne' /\ LookupWaits'
    BY <1>2, <1>3 DEF FoundOne, LookupWaits, Base
  <1>7. QED
    BY <1>4, <1>5, <1>6 DEF Base

LEMMA LookupBase ==
  ASSUME Base, NEW c \in Cli, Lookup(c)
  PROVE  Base' /\ \A d \in Cli : Touches(cmd'[d]) = Touches(cmd[d])
  <1>1. /\ cmd \in [Cli -> CmdType] /\ job \in [Cli -> JobType]
        /\ pc \in [Cli -> {"idle", "lookup", "wait"}]
    BY TypeIs DEF Base
  <1>2. /\ pc' = [pc EXCEPT ![c] = "wait"] /\ job' = [job EXCEPT ![c] = "new"]
        /\ UNCHANGED <<store, born, clean, told, started, todo>>
    BY DEF Lookup
  <1>3. PICK u \in Bearers(cmd[c].ident) \cup {None, cmd[c].who} :
          cmd' = [cmd EXCEPT ![c].who = u]
    <2>1. CASE cmd' = cmd
      <3>1. cmd' = [cmd EXCEPT ![c].who = cmd[c].who]
        BY <1>1, <2>1 DEF CmdType
      <3>2. QED
        BY <3>1
    <2>2. CASE \E u \in Bearers(cmd[c].ident) \cap mem : cmd' = [cmd EXCEPT ![c].who = u]
      BY <2>2
    <2>3. QED
      BY <2>1, <2>2 DEF Lookup
  <1>4. u \in User \cup {None} /\ u \in Bearers(cmd[c].ident) \cup {None}
    BY BearersAreUsers, ShapedIs DEF Base, ShapedCmd
  <1> DEFINE r == [cmd[c] EXCEPT !.who = u]
  <1>5. /\ r \in CmdType /\ r.who = u /\ r.verb = cmd[c].verb /\ r.what = cmd[c].what
        /\ r.ident = cmd[c].ident /\ r.asked = cmd[c].asked
    BY <1>1, <1>4 DEF CmdType
  <1>6. cmd' = [cmd EXCEPT ![c] = r]
    BY <1>1, <1>3
  <1> HIDE DEF r
  <1>7. Touches(r) = Touches(cmd[c])
    BY <1>5, TouchesSame
  <1>8. ShapedCmd(r)
    BY <1>4, <1>5, <1>7, ShapedIs DEF Base, ShapedCmd
  <1>9. Shaped'
    <2>1. \A d \in Cli : ShapedCmd(cmd'[d])
      BY <1>1, <1>6, <1>8, ShapedIs DEF Base
    <2>2. QED
      BY <2>1 DEF Shaped, ShapedCmd
  <1>10. AdminTypeOK'
    <2>1. cmd' \in [Cli -> CmdType]
      BY <1>1, <1>5, <1>6
    <2>2. job' \in [Cli -> JobType] /\ pc' \in [Cli -> {"idle", "lookup", "wait"}]
      BY <1>1, <1>2 DEF JobType, Serving
    <2>3. UNCHANGED <<mem, disk, faults, born, clean, told, started, todo>>
      BY <1>2 DEF store
    <2>4. QED
      BY <2>1, <2>2, <2>3 DEF AdminTypeOK, CmdType, JobType, Base
  <1>11. FoundOne' /\ LookupWaits'
    BY <1>1, <1>2, <1>6 DEF FoundOne, LookupWaits, Base
  <1>12. \A d \in Cli : Touches(cmd'[d]) = Touches(cmd[d])
    BY <1>1, <1>6, <1>7
  <1>13. QED
    BY <1>9, <1>10, <1>11, <1>12 DEF Base

LEMMA TellType ==
  ASSUME Base, NEW c \in Cli, NEW code \in {0, 1, 3}, Tell(c, code)
  PROVE  told' \in [Object -> ToldType]
  <1>1. told \in [Object -> ToldType] /\ cmd[c].verb \in Verb \cup {"none"}
    BY TypeIs DEF Base, CmdType
  <1>2. Nothing \in ToldType
    BY DEF Nothing, ToldType
  <1>3. [code |-> code, verb |-> cmd[c].verb, there |-> cmd[c].verb \in Adding] \in ToldType
    BY <1>1 DEF ToldType
  <1>4. QED
    BY <1>1, <1>2, <1>3 DEF Tell

\* Base of a step that ends commands or leaves them alone.
LEMMA EndsBase ==
  ASSUME Base, AdminTypeOK',
         \A d \in Cli : cmd'[d] \in {cmd[d], NoCommand},
         \A d \in Cli : job'[d] = "found" => cmd'[d].who \in User,
         \A d \in Cli : pc'[d] = "lookup" => job'[d] = "none"
  PROVE  Base'
  <1>1. \A d \in Cli : ShapedCmd(cmd'[d])
    BY ShapedIs, NoneShaped DEF Base
  <1>2. Shaped'
    BY <1>1 DEF Shaped, ShapedCmd
  <1>3. QED
    BY <1>2 DEF Base, FoundOne, LookupWaits

LEMMA ExitBase ==
  ASSUME Base, NEW c \in Cli, Receive(c) \/ GiveUp(c)
  PROVE  Base'
  <1>1. /\ cmd \in [Cli -> CmdType] /\ job \in [Cli -> JobType]
        /\ pc \in [Cli -> {"idle", "lookup", "wait"}]
    BY TypeIs DEF Base
  <1>2. PICK code \in {0, 1, 3} : Exit(c, code)
    BY DEF Receive, GiveUp, ExitCode
  <1>3. Over(c) \/ UNCHANGED <<cmd, job>>
    BY DEF Receive, GiveUp
  <1>4. \/ cmd' = [cmd EXCEPT ![c] = NoCommand] /\ job' = [job EXCEPT ![c] = "none"]
        \/ cmd' = cmd /\ job' = job
    BY <1>3 DEF Over
  <1>5. told' \in [Object -> ToldType]
    BY <1>2, TellType DEF Exit
  <1>6. /\ pc' = [pc EXCEPT ![c] = "idle"]
        /\ UNCHANGED <<mem, disk, faults, born, clean, started, todo>>
    BY <1>2 DEF Exit, store
  <1>7. AdminTypeOK'
    <2>1. cmd' \in [Cli -> CmdType] /\ job' \in [Cli -> JobType]
      BY <1>1, <1>4, NoCommandType DEF JobType
    <2>2. pc' \in [Cli -> {"idle", "lookup", "wait"}]
      BY <1>1, <1>6
    <2>3. QED
      BY <1>5, <1>6, <2>1, <2>2 DEF AdminTypeOK, CmdType, JobType, ToldType, Base
  <1>8. \A d \in Cli : cmd'[d] \in {cmd[d], NoCommand}
    BY <1>1, <1>4
  <1>9. \A d \in Cli : job'[d] = "found" => cmd'[d].who \in User
    BY <1>1, <1>4 DEF Base, FoundOne
  <1>10. \A d \in Cli : pc'[d] = "lookup" => job'[d] = "none"
    BY <1>1, <1>4, <1>6 DEF Base, LookupWaits
  <1>11. QED
    BY <1>7, <1>8, <1>9, <1>10, EndsBase

LEMMA HandleBase ==
  ASSUME Base, NEW c \in Cli, Handle(c)
  PROVE  Base'
  <1>1. Frame(c)
    BY HandleFrame
  <1>2. AdminTypeOK'
    BY <1>1, TypeIs
       DEF Frame, StoreStep, JobStep, client, Base, AdminTypeOK, CmdType, JobType, ToldType
  <1>3. \A d \in Cli : cmd'[d] \in {cmd[d], NoCommand}
    BY <1>1 DEF Frame, JobStep, Alone
  <1>4. \A d \in Cli : job'[d] = "found" => cmd'[d].who \in User
    BY <1>1 DEF Frame, JobStep, Alone, Base, FoundOne
  <1>5. job[c] # "none"
    BY DEF Handle, AddRule, RemoveRule, IssueInvite, DeleteInvite, FindUser, Grant, Revoke,
           LockList, LockGrant, LockDone, Unlock, RevokeEverywhere, EraseUser,
           DeleteCredential, At
  <1>6. \A d \in Cli : pc'[d] = "lookup" => job'[d] = "none"
    BY <1>1, <1>5 DEF Frame, JobStep, Alone, client, Base, LookupWaits
  <1>7. QED
    BY <1>2, <1>3, <1>4, <1>6, EndsBase

LEMMA EnrolBase ==
  ASSUME Base, NEW u \in User, Enrol(u)
  PROVE  Base'
  <1> DEFINE os == {u} \cup KeysOf({u})
             now == mem \cup os
  <1>1. /\ born' = born \cup {u}
        /\ mem' = now /\ disk' = (disk \ (User \cup Cred)) \cup (now \cap (User \cup Cred))
        /\ faults' = faults
        /\ told' = Forget(os)
        /\ clean' = Disturb(None, AllOf({u}))
        /\ UNCHANGED <<pc, started, cmd, job, todo>>
    BY DEF Enrol, Written
  <1>2. os \subseteq Object
    BY DEF Object, KeysOf
  <1> HIDE DEF os
  <1>3. /\ mem \subseteq Object /\ disk \subseteq Object
        /\ faults \in 0..MaxFaults /\ started \in 0..MaxCommands /\ born \subseteq User
        /\ pc \in [Cli -> {"idle", "lookup", "wait"}]
        /\ cmd \in [Cli -> CmdType] /\ job \in [Cli -> JobType]
        /\ todo \in [Cli -> SUBSET User]
        /\ clean \in [Cli -> {"yes", "restarted", "no"}]
        /\ told \in [Object -> ToldType]
    BY TypeIs DEF Base
  <1>4. mem' \subseteq Object /\ disk' \subseteq Object /\ born' \subseteq User
    BY <1>1, <1>2, <1>3
  <1>5. told' \in [Object -> ToldType] /\ clean' \in [Cli -> {"yes", "restarted", "no"}]
    BY <1>1, <1>3, ForgetType, DisturbType
  <1> HIDE DEF now
  <1>6. AdminTypeOK'
    BY <1>1, <1>3, <1>4, <1>5 DEF AdminTypeOK, CmdType, JobType, ToldType
  <1>7. QED
    BY <1>1, <1>6, EndsBase DEF Base, FoundOne, LookupWaits

LEMMA RestartBase ==
  ASSUME Base, Restart
  PROVE  Base'
  <1> DEFINE lost == {c \in Cli : job[c] \in Serving}
             touched == Disturb(None, AllOf(User \cap (disk \ mem)))
  <1>1. /\ faults < MaxFaults /\ faults' = faults + 1 /\ mem' = disk
        /\ job' = [c \in Cli |-> IF c \in lost THEN "none" ELSE job[c]]
        /\ todo' = [c \in Cli |-> {}]
        /\ cmd' = [c \in Cli |-> IF c \in lost /\ pc[c] = "idle" THEN NoCommand ELSE cmd[c]]
        /\ clean' = [c \in Cli |-> IF touched[c] = "yes" THEN "restarted" ELSE touched[c]]
        /\ told' = [o \in Object |-> IF told[o].code = 3 THEN Nothing ELSE told[o]]
        /\ UNCHANGED <<disk, born, pc, started>>
    BY DEF Restart
  <1>2. /\ mem \subseteq Object /\ disk \subseteq Object
        /\ faults \in 0..MaxFaults /\ started \in 0..MaxCommands /\ born \subseteq User
        /\ pc \in [Cli -> {"idle", "lookup", "wait"}]
        /\ cmd \in [Cli -> CmdType] /\ job \in [Cli -> JobType]
        /\ todo \in [Cli -> SUBSET User]
        /\ clean \in [Cli -> {"yes", "restarted", "no"}]
        /\ told \in [Object -> ToldType]
    BY TypeIs DEF Base
  <1>3. touched \in [Cli -> {"yes", "restarted", "no"}]
    BY <1>2, DisturbType
  <1> HIDE DEF lost, touched
  <1>4. faults' \in 0..MaxFaults
    BY <1>1, <1>2, AdminCliAssumption
  <1>5. cmd' \in [Cli -> CmdType] /\ job' \in [Cli -> JobType]
    BY <1>1, <1>2, NoCommandType DEF JobType
  <1>6. told' \in [Object -> ToldType]
    BY <1>1, <1>2 DEF Nothing, ToldType
  <1>7. clean' \in [Cli -> {"yes", "restarted", "no"}]
    BY <1>1, <1>3
  <1>8. AdminTypeOK'
    BY <1>1, <1>2, <1>4, <1>5, <1>6, <1>7 DEF AdminTypeOK, CmdType, JobType, ToldType
  <1>9. \A d \in Cli : cmd'[d] \in {cmd[d], NoCommand}
    BY <1>1
  <1>10. \A d \in Cli : job'[d] = "found" => cmd'[d].who \in User
    BY <1>1 DEF lost, Serving
  <1>11. \A d \in Cli : pc'[d] = "lookup" => job'[d] = "none"
    BY <1>1 DEF Base, LookupWaits
  <1>12. QED
    BY <1>8, <1>9, <1>10, <1>11, EndsBase

LEMMA NextIs ==
  ASSUME Next
  PROVE  \/ \E c \in Cli : \E verb, what, ident :
              /\ Args(verb, what, ident) /\ Start(c, verb, what, ident)
              /\ verb = "invite" => what \notin mem \cup disk
         \/ \E c \in Cli : Lookup(c)
         \/ \E c \in Cli : Receive(c) \/ GiveUp(c)
         \/ \E c \in Cli : Handle(c)
         \/ \E u \in User : Enrol(u)
         \/ Restart
  BY CommandStarts DEF Next

LEMMA StepBase == Base /\ [Next]_vars => Base'
  <1> SUFFICES ASSUME Base, [Next]_vars PROVE Base'
    OBVIOUS
  <1>1. CASE Next
    BY <1>1, NextIs, StartBase, LookupBase, ExitBase, HandleBase, EnrolBase, RestartBase
  <1>2. CASE UNCHANGED vars
    BY <1>2, EndsBase DEF vars, store, client, Base, AdminTypeOK, FoundOne, LookupWaits
  <1>3. QED
    BY <1>1, <1>2

\* The kinds of the values, for any number of commands.
THEOREM AdminTypes == Spec => []AdminTypeOK
  <1>1. Spec => []Base
    BY InitBase, StepBase, PTL DEF Spec
  <1>2. Base => AdminTypeOK
    BY DEF Base
  <1>3. QED
    BY <1>1, <1>2, PTL

-----------------------------------------------------------------------------
(* What an exit code says                                                  *)

\* A command that does not know of another about the same things is alone.
Apart ==
  \A c, d \in Cli :
    clean[c] # "no" /\ c # d => Touches(cmd[c]) \cap Touches(cmd[d]) = {}

\* What was told last is about nothing that a command is under way for.
Untouched ==
  \A o \in Object, c \in Cli : told[o].code # 1 => o \notin Touches(cmd[c])

\* An undisturbed grant or revoke promises something about no user but the one
\* that its argument stands for, whom its handler then finds.
Chosen(c) ==
  clean[c] # "no" /\ cmd[c].verb \in OnGrant =>
    /\ \A u \in Bearers(cmd[c].ident) \cap mem : cmd[c].asked \subseteq {<<cmd[c].what, u>>}
    /\ job[c] = "found" => cmd[c].asked \subseteq {<<cmd[c].what, cmd[c].who>>}

\* The token of an undisturbed invite is not there before it is issued.
Fresh(c) ==
  clean[c] # "no" /\ cmd[c].verb = "invite" /\ job[c] \notin Answer =>
    cmd[c].what \notin mem \cup disk

InForce(o, there) == IF there THEN o \in mem \cap disk ELSE o \notin mem \cup disk

\* What a refusal leaves behind.
Left(o, verb) ==
  /\ verb \in OnRule \cup {"uninvite"} => (o \in mem <=> verb \in Adding)
  /\ verb = "invite" => o \notin mem \cup disk

\* An answer on its way to an undisturbed command is true.
Truthful(c) ==
  /\ job[c] = "ok" /\ clean[c] # "no" /\ cmd[c].verb \in Reporting =>
       \A o \in cmd[c].asked : InForce(o, cmd[c].verb \in Adding)
  /\ job[c] = "refused" /\ clean[c] = "yes" =>
       \A o \in cmd[c].asked : Left(o, cmd[c].verb)
  /\ job[c] = "redirect" => cmd[c].verb \notin Reporting

OnCourse(c) == Chosen(c) /\ Fresh(c) /\ Truthful(c)

\* What was told of an object still is so.
StillSo(o) ==
  /\ told[o].code # 1 => (told[o].there <=> told[o].verb \in Adding)
  /\ told[o].code = 0 /\ told[o].verb \in Reporting => InForce(o, told[o].verb \in Adding)
  /\ told[o].code = 3 => Left(o, told[o].verb)

Sure ==
  /\ Apart /\ Untouched
  /\ \A c \in Cli : OnCourse(c)
  /\ \A o \in Object : StillSo(o)

LEMMA SureIsEnough == Sure => ToldHolds /\ RefusalIsHarmless
  <1> SUFFICES ASSUME Sure PROVE ToldHolds /\ RefusalIsHarmless
    OBVIOUS
  <1>1. ToldHolds
    BY DEF Sure, StillSo, ToldHolds, AsAsked, InForce
  <1>2. RefusalIsHarmless
    BY DEF Sure, StillSo, RefusalIsHarmless, Left, Reporting
  <1>3. QED
    BY <1>1, <1>2

LEMMA NearKeeps ==
  ASSUME NEW os, Near(os), NEW o \in Object, o \notin os
  PROVE  /\ \A there \in BOOLEAN : InForce(o, there) => InForce(o, there)'
         /\ \A verb : Left(o, verb) => Left(o, verb)'
  BY DEF Near, InForce, Left

\* Nothing changes for a command that a step does not touch.
LEMMA OthersStay ==
  ASSUME NEW os, Near(os), NEW d \in Cli, OnCourse(d),
         cmd[d].asked \subseteq Touches(cmd[d]), Touches(cmd[d]) \subseteq Object,
         cmd[d].verb \in OnInvite => cmd[d].what \in Touches(cmd[d]),
         cmd'[d] = cmd[d], job'[d] = job[d], clean'[d] \in {clean[d], "no"},
         clean'[d] # "no" =>
           /\ Touches(cmd[d]) \cap os = {}
           /\ cmd[d].verb \in OnGrant => Bearers(cmd[d].ident) \cap mem' \subseteq mem
  PROVE  OnCourse(d)'
  <1>1. CASE clean'[d] = "no"
    BY <1>1 DEF OnCourse, Chosen, Fresh, Truthful
  <1>2. CASE clean'[d] # "no"
    <2>1. clean'[d] = clean[d]
      BY <1>2
    <2>2. Chosen(d)'
      BY <1>2, <2>1 DEF OnCourse, Chosen
    <2>3. Fresh(d)'
      <3>1. SUFFICES ASSUME cmd[d].verb = "invite", job[d] \notin Answer
                     PROVE  cmd[d].what \notin mem' \cup disk'
        BY DEF Fresh
      <3>2. cmd[d].what \in Object \ os
        BY <1>2, <3>1 DEF OnInvite
      <3>3. QED
        BY <1>2, <2>1, <3>1, <3>2 DEF OnCourse, Fresh, Near
    <2>4. Truthful(d)'
      <3>1. \A o \in cmd[d].asked : o \in Object /\ o \notin os
        BY <1>2
      <3>2. ASSUME NEW o \in cmd[d].asked
            PROVE  /\ InForce(o, cmd[d].verb \in Adding) =>
                        InForce(o, cmd[d].verb \in Adding)'
                   /\ Left(o, cmd[d].verb) => Left(o, cmd[d].verb)'
        BY <3>1, cmd'[d] = cmd[d] DEF Near, InForce, Left
      <3>3. QED
        BY <2>1, <3>2 DEF OnCourse, Truthful
    <2>5. QED
      BY <2>2, <2>3, <2>4 DEF OnCourse
  <1>3. QED
    BY <1>1, <1>2

LEMMA IdleNear == UNCHANGED store => Near({})
  BY DEF store, Near

\* Of a command that is no more there is nothing to show.
LEMMA OverIsFine ==
  ASSUME NEW c \in Cli, cmd'[c] = NoCommand, job'[c] = "none"
  PROVE  OnCourse(c)'
  <1>1. /\ cmd'[c].verb = "none" /\ "none" \notin OnGrant
    BY DEF NoCommand, OnGrant
  <1>2. QED
    BY <1>1 DEF OnCourse, Chosen, Fresh, Truthful

LEMMA ForgetKeeps ==
  ASSUME NEW os, told' = Forget(os), Untouched,
         \A o \in Object \ os : StillSo(o) => StillSo(o)'
  PROVE  (\A o \in Object : StillSo(o)) => (\A o \in Object : StillSo(o)')
  <1>1. \A o \in Object \cap os : told'[o].code = 1
    BY DEF Forget, Nothing
  <1>2. \A o \in Object \cap os : StillSo(o)'
    BY <1>1 DEF StillSo
  <1>3. QED
    BY <1>2

LEMMA CommandFacts ==
  ASSUME Base, NEW d \in Cli
  PROVE  /\ cmd[d].asked \subseteq Touches(cmd[d]) /\ Touches(cmd[d]) \subseteq Object
         /\ cmd[d].verb \in OnInvite => cmd[d].what \in Touches(cmd[d])
  BY TouchesObjects, CommandKinds DEF Base, Shaped

LEMMA StartSure ==
  ASSUME Base, Sure, NEW c \in Cli, NEW verb, NEW what, NEW ident,
         Args(verb, what, ident), Start(c, verb, what, ident),
         verb = "invite" => what \notin mem \cup disk
  PROVE  Sure'
  <1> DEFINE r == [verb |-> verb, what |-> what, ident |-> ident,
                   who |-> IF ident \in User THEN ident ELSE None,
                   asked |-> Promised(verb, what, ident)]
             os == Touches(r)
  <1>1. /\ r.verb = verb /\ r.what = what /\ r.ident = ident
        /\ r.asked = Promised(verb, what, ident)
    OBVIOUS
  <1>2. /\ cmd' = [cmd EXCEPT ![c] = r]
        /\ job' = [job EXCEPT ![c] = IF ident \in Name THEN "none" ELSE "new"]
        /\ clean' = [Disturb(c, os) EXCEPT ![c] =
             IF \E d \in Cli \ {c} : Touches(cmd[d]) \cap os # {} THEN "no" ELSE "yes"]
        /\ told' = Forget(os)
        /\ UNCHANGED store
    BY DEF Start
  <1> HIDE DEF r
  <1>3. /\ cmd \in [Cli -> CmdType] /\ job \in [Cli -> JobType]
        /\ clean \in [Cli -> {"yes", "restarted", "no"}]
        /\ told \in [Object -> ToldType]
    BY TypeIs DEF Base
  <1>4. /\ cmd'[c] = r /\ job'[c] \in {"none", "new"}
        /\ \A d \in Cli \ {c} : cmd'[d] = cmd[d] /\ job'[d] = job[d]
    BY <1>2, <1>3
  <1> HIDE DEF os
  <1>5. /\ clean'[c] # "no" => \A d \in Cli \ {c} : Touches(cmd[d]) \cap os = {}
        /\ \A d \in Cli \ {c} :
             clean'[d] = IF Touches(cmd[d]) \cap os # {} THEN "no" ELSE clean[d]
    BY <1>2, <1>3 DEF Disturb
  <1>6. Touches(cmd'[c]) = os
    BY <1>4 DEF os
  <1>7. Apart'
    BY <1>4, <1>5, <1>6 DEF Apart, Sure
  <1>8. Untouched'
    BY <1>2, <1>4, <1>6 DEF Untouched, Sure, Forget, Nothing
  <1>9. ASSUME NEW d \in Cli PROVE OnCourse(d)'
    <2>1. CASE d = c
      <3>1. Chosen(c)'
        <4>1. SUFFICES ASSUME verb \in OnGrant, NEW u \in Bearers(ident) \cap mem
                       PROVE  Promised(verb, what, ident) \subseteq {<<what, u>>}
          BY <1>1, <1>2, <1>4 DEF Chosen, store
        <4> DEFINE named == Bearers(ident) \cap mem
        <4>2. Promised(verb, what, ident) =
                IF \E v \in named : named = {v} THEN About(verb, what, named) ELSE {}
          BY <4>1 DEF Promised, ByName, OnGrant
        <4>3. About(verb, what, named) = {what} \X named
          BY <4>1 DEF About, OnGrant
        <4> HIDE DEF named
        <4>4. u \in named
          BY <4>1 DEF named
        <4>5. QED
          BY <4>2, <4>3, <4>4
      <3>2. Fresh(c)'
        BY <1>1, <1>2, <1>4 DEF Fresh, store
      <3>3. Truthful(c)'
        BY <1>4 DEF Truthful
      <3>4. QED
        BY <2>1, <3>1, <3>2, <3>3 DEF OnCourse
    <2>2. CASE d # c
      <3>1. /\ cmd'[d] = cmd[d] /\ job'[d] = job[d] /\ clean'[d] \in {clean[d], "no"}
        BY <1>4, <1>5, <2>2
      <3>2. Near({}) /\ mem' = mem
        BY <1>2, IdleNear DEF store
      <3>3. QED
        BY <3>1, <3>2, OthersStay, CommandFacts DEF Sure
    <2>3. QED
      BY <2>1, <2>2
  <1>10. \A o \in Object : StillSo(o)'
    <2>1. ASSUME NEW o \in Object \ os, StillSo(o) PROVE StillSo(o)'
      BY <1>2, <2>1 DEF StillSo, Forget, store, InForce, Left
    <2>2. QED
      BY <1>2, <2>1, ForgetKeeps DEF Sure
  <1>11. QED
    BY <1>7, <1>8, <1>9, <1>10 DEF Sure

LEMMA LookupSure ==
  ASSUME Base, Sure, NEW c \in Cli, Lookup(c)
  PROVE  Sure'
  <1>1. \A d \in Cli : Touches(cmd'[d]) = Touches(cmd[d])
    BY LookupBase
  <1>2. /\ cmd \in [Cli -> CmdType] /\ job \in [Cli -> JobType]
    BY TypeIs DEF Base
  <1>3. /\ job' = [job EXCEPT ![c] = "new"]
        /\ UNCHANGED <<store, clean, told>>
        /\ (\E u : cmd' = [cmd EXCEPT ![c].who = u]) \/ cmd' = cmd
    BY DEF Lookup
  <1>4. /\ job'[c] = "new" /\ cmd'[c].verb = cmd[c].verb /\ cmd'[c].what = cmd[c].what
        /\ cmd'[c].ident = cmd[c].ident /\ cmd'[c].asked = cmd[c].asked
        /\ \A d \in Cli \ {c} : cmd'[d] = cmd[d] /\ job'[d] = job[d]
    BY <1>2, <1>3 DEF CmdType
  <1>5. Apart' /\ Untouched'
    BY <1>1, <1>3 DEF Apart, Untouched, Sure
  <1>6. ASSUME NEW d \in Cli PROVE OnCourse(d)'
    <2>1. CASE d = c
      <3>1. Chosen(c)'
        BY <1>3, <1>4 DEF Chosen, Sure, OnCourse, store
      <3>2. Fresh(c)'
        <4>1. job[c] = "none"
          BY DEF Lookup, Base, LookupWaits
        <4>2. QED
          BY <1>3, <1>4, <4>1 DEF Fresh, Sure, OnCourse, store, Answer
      <3>3. QED
        BY <2>1, <1>4, <3>1, <3>2 DEF OnCourse, Truthful
    <2>2. CASE d # c
      BY <1>3, <1>4, <2>2, IdleNear, OthersStay, CommandFacts DEF Sure, store
    <2>3. QED
      BY <2>1, <2>2
  <1>7. \A o \in Object : StillSo(o)'
    BY <1>3 DEF StillSo, Sure, store, InForce, Left
  <1>8. QED
    BY <1>5, <1>6, <1>7 DEF Sure

LEMMA ExitSure ==
  ASSUME Base, Sure, NEW c \in Cli, Receive(c) \/ GiveUp(c)
  PROVE  Sure'
  <1>1. /\ cmd \in [Cli -> CmdType] /\ job \in [Cli -> JobType]
        /\ told \in [Object -> ToldType]
    BY TypeIs DEF Base
  <1> DEFINE code == IF Receive(c) THEN ExitCode(job[c]) ELSE 1
  <1>2. /\ Tell(c, code) /\ UNCHANGED <<store, clean>>
        /\ Receive(c) => job[c] \in Answer
    BY DEF Receive, GiveUp, Exit
  <1>3. \/ /\ cmd' = [cmd EXCEPT ![c] = NoCommand]
           /\ job' = [job EXCEPT ![c] = "none"]
        \/ cmd' = cmd /\ job' = job /\ code = 1
    BY DEF Receive, GiveUp, Over
  <1>4. /\ code = 0 => job[c] \in {"ok", "redirect"}
        /\ code = 3 => job[c] = "refused"
        /\ code \in {0, 1, 3}
    BY <1>2 DEF ExitCode, Answer
  <1> HIDE DEF code
  <1>5. \A d \in Cli : Touches(cmd'[d]) \subseteq Touches(cmd[d])
    BY <1>1, <1>3, NoneTouched
  <1>6. Apart'
    BY <1>2, <1>5 DEF Apart, Sure
  <1> DEFINE says == \/ code = 0 /\ clean[c] # "no"
                     \/ code = 3 /\ clean[c] = "yes"
  <1>7. ASSUME NEW o \in Object
        PROVE  \/ told'[o] = told[o] /\ o \notin cmd[c].asked
               \/ told'[o] = Nothing
               \/ /\ o \in cmd[c].asked /\ says
                  /\ told'[o] = [code |-> code, verb |-> cmd[c].verb,
                                 there |-> cmd[c].verb \in Adding]
    BY <1>2 DEF Tell
  <1>8. cmd[c].asked \subseteq Touches(cmd[c])
    BY CommandFacts
  <1>9. Untouched'
    <2>1. SUFFICES ASSUME NEW o \in Object, NEW d \in Cli, told'[o].code # 1
                   PROVE  o \notin Touches(cmd'[d])
      BY DEF Untouched
    <2>2. CASE told'[o] = told[o]
      BY <1>5, <2>1, <2>2 DEF Untouched, Sure
    <2>3. CASE told'[o] # told[o]
      <3>1. o \in cmd[c].asked /\ says
        BY <1>7, <2>1, <2>3 DEF Nothing
      <3>2. cmd'[c] = NoCommand /\ clean[c] # "no"
        BY <1>1, <1>3, <3>1
      <3>3. QED
        BY <1>5, <1>8, <3>1, <3>2, NoneTouched DEF Apart, Sure
    <2>4. QED
      BY <2>2, <2>3
  <1>10. ASSUME NEW d \in Cli PROVE OnCourse(d)'
    <2>1. CASE cmd'[d] = cmd[d] /\ job'[d] = job[d]
      BY <1>2, <2>1, IdleNear, OthersStay, CommandFacts DEF Sure, store
    <2>2. CASE cmd'[d] = NoCommand /\ job'[d] = "none"
      BY <2>2, OverIsFine
    <2>3. QED
      BY <1>1, <1>3, <2>1, <2>2
  <1>11. ASSUME NEW o \in Object PROVE StillSo(o)'
    <2>1. CASE told'[o] = told[o]
      BY <1>2, <2>1 DEF StillSo, Sure, store, InForce, Left
    <2>2. CASE told'[o] = Nothing
      BY <2>2 DEF StillSo, Nothing
    <2>3. CASE /\ o \in cmd[c].asked /\ says
               /\ told'[o] = [code |-> code, verb |-> cmd[c].verb,
                              there |-> cmd[c].verb \in Adding]
      <3>1. /\ told'[o].code = code /\ told'[o].verb = cmd[c].verb
            /\ told'[o].there = (cmd[c].verb \in Adding)
        BY <2>3
      <3>2. Truthful(c)
        BY DEF Sure, OnCourse
      <3>3. code = 0 /\ cmd[c].verb \in Reporting => InForce(o, cmd[c].verb \in Adding)
        BY <1>4, <2>3, <3>2 DEF Truthful
      <3>4. code = 3 => Left(o, cmd[c].verb)
        BY <1>4, <2>3, <3>2 DEF Truthful
      <3>5. mem' = mem /\ disk' = disk
        BY <1>2 DEF store
      <3>6. /\ InForce(o, cmd[c].verb \in Adding) => InForce(o, told[o].verb \in Adding)'
            /\ Left(o, cmd[c].verb) => Left(o, told[o].verb)'
        BY <3>1, <3>5 DEF InForce, Left
      <3>7. QED
        BY <3>1, <3>3, <3>4, <3>6 DEF StillSo
    <2>4. QED
      BY <1>7, <2>1, <2>2, <2>3
  <1>12. QED
    BY <1>6, <1>9, <1>10, <1>11 DEF Sure

LEMMA EnrolSure ==
  ASSUME Base, Sure, NEW u \in User, Enrol(u)
  PROVE  Sure'
  <1> DEFINE os == {u} \cup KeysOf({u})
             all == AllOf({u})
  <1>1. /\ mem' = mem \cup os
        /\ disk' = (disk \ (User \cup Cred)) \cup ((mem \cup os) \cap (User \cup Cred))
        /\ told' = Forget(os)
        /\ clean' = Disturb(None, all)
        /\ UNCHANGED <<cmd, job>>
    BY DEF Enrol, Written
  <1>2. os \subseteq all /\ os \cap User = {u}
    BY AdminCliAssumption DEF AllOf, KeysOf
  <1>3. Sub \X {u} \subseteq all
    BY DEF AllOf
  <1> HIDE DEF os, all
  <1>4. \A d \in Cli : clean'[d] = IF Touches(cmd[d]) \cap all # {} THEN "no" ELSE clean[d]
    BY <1>1, AdminCliAssumption DEF Disturb
  <1>5. Near(os)
    BY <1>1 DEF Near
  <1>6. Apart'
    BY <1>1, <1>4 DEF Apart, Sure
  <1>7. Untouched'
    BY <1>1 DEF Untouched, Sure, Forget, Nothing
  <1>8. ASSUME NEW d \in Cli PROVE OnCourse(d)'
    <2>1. ASSUME clean'[d] # "no", cmd[d].verb \in OnGrant
          PROVE  Bearers(cmd[d].ident) \cap mem' \subseteq mem
      <3>1. /\ cmd[d].what \in Sub
            /\ Touches(cmd[d]) = {cmd[d].what} \X Bearers(cmd[d].ident)
        BY <2>1, CommandKinds
      <3>2. u \notin Bearers(cmd[d].ident)
        <4>1. SUFFICES ASSUME u \in Bearers(cmd[d].ident) PROVE FALSE
          OBVIOUS
        <4>2. <<cmd[d].what, u>> \in Touches(cmd[d]) \cap all
          BY <1>3, <3>1, <4>1
        <4>3. QED
          BY <1>4, <2>1, <4>2
      <3>3. QED
        BY <1>1, <1>2, <3>2, BearersAreUsers
    <2>2. clean'[d] # "no" => Touches(cmd[d]) \cap os = {}
      BY <1>2, <1>4
    <2>3. clean'[d] \in {clean[d], "no"}
      BY <1>4
    <2>4. QED
      BY <1>1, <1>5, <2>1, <2>2, <2>3, OthersStay, CommandFacts DEF Sure
  <1>9. \A o \in Object : StillSo(o)'
    <2>1. ASSUME NEW o \in Object \ os, StillSo(o) PROVE StillSo(o)'
      BY <1>1, <1>5, <2>1 DEF StillSo, Forget, Near, InForce, Left
    <2>2. QED
      BY <1>1, <2>1, ForgetKeeps DEF Sure
  <1>10. QED
    BY <1>6, <1>7, <1>8, <1>9 DEF Sure

\* What a command has settled survives a restart, which disturbs the commands
\* that a user come back may be meant by.
LEMMA RestartSure ==
  ASSUME Base, Sure, Restart
  PROVE  Sure'
  <1> DEFINE lost == {c \in Cli : job[c] \in Serving}
             back == User \cap (disk \ mem)
             all == AllOf(back)
             touched == Disturb(None, all)
  <1>1. /\ mem' = disk /\ disk' = disk
        /\ job' = [c \in Cli |-> IF c \in lost THEN "none" ELSE job[c]]
        /\ cmd' = [c \in Cli |-> IF c \in lost /\ pc[c] = "idle" THEN NoCommand ELSE cmd[c]]
        /\ clean' = [c \in Cli |-> IF touched[c] = "yes" THEN "restarted" ELSE touched[c]]
        /\ told' = [o \in Object |-> IF told[o].code = 3 THEN Nothing ELSE told[o]]
    BY DEF Restart
  <1>2. Sub \X back \subseteq all
    BY DEF AllOf
  <1> HIDE DEF all
  <1>3. \A d \in Cli : touched[d] = IF Touches(cmd[d]) \cap all # {} THEN "no" ELSE clean[d]
    BY AdminCliAssumption DEF Disturb
  <1> HIDE DEF touched
  <1>4. \A d \in Cli :
          /\ clean'[d] # "yes"
          /\ clean'[d] # "no" => clean[d] # "no" /\ Touches(cmd[d]) \cap all = {}
    BY <1>1, <1>3
  <1>5. \A d \in Cli :
          /\ cmd'[d] \in {cmd[d], NoCommand}
          /\ Touches(cmd'[d]) \subseteq Touches(cmd[d])
          /\ job'[d] \notin Serving
          /\ job'[d] \in {"none", job[d]}
          /\ job'[d] = "none" => job[d] \in Serving \cup {"none"}
    BY <1>1, NoneTouched DEF lost, Serving
  <1>6. Apart'
    BY <1>4, <1>5 DEF Apart, Sure
  <1>7. Untouched'
    BY <1>1, <1>5 DEF Untouched, Sure, Nothing
  <1>8. ASSUME NEW d \in Cli PROVE OnCourse(d)'
    <2>1. CASE cmd'[d] = NoCommand
      <3>1. /\ cmd'[d].verb = "none" /\ "none" \notin OnGrant /\ "none" \notin Reporting
        BY <2>1 DEF NoCommand, OnGrant, Reporting, OnRule, OnInvite
      <3>2. QED
        BY <1>4, <3>1 DEF OnCourse, Chosen, Fresh, Truthful
    <2>2. CASE cmd'[d] = cmd[d]
      <3>1. Chosen(d)'
        <4>1. SUFFICES ASSUME clean'[d] # "no", cmd[d].verb \in OnGrant,
                              NEW u \in Bearers(cmd[d].ident) \cap disk
                       PROVE  cmd[d].asked \subseteq {<<cmd[d].what, u>>}
          BY <1>1, <1>5, <2>2 DEF Chosen, Serving
        <4>2. /\ cmd[d].what \in Sub /\ u \in User
              /\ Touches(cmd[d]) = {cmd[d].what} \X Bearers(cmd[d].ident)
          BY <4>1, CommandKinds, BearersAreUsers
        <4>3. u \in mem
          <5>1. SUFFICES ASSUME u \notin mem PROVE FALSE
            OBVIOUS
          <5>2. <<cmd[d].what, u>> \in Touches(cmd[d]) \cap all
            BY <1>2, <4>1, <4>2, <5>1
          <5>3. QED
            BY <1>4, <4>1, <5>2
        <4>4. QED
          BY <1>4, <4>1, <4>3 DEF Sure, OnCourse, Chosen
      <3>2. Fresh(d)'
        <4>1. SUFFICES ASSUME clean'[d] # "no", cmd[d].verb = "invite", job'[d] \notin Answer
                       PROVE  cmd[d].what \notin disk
          BY <1>1, <2>2 DEF Fresh
        <4>2. job[d] \notin Answer
          BY <1>5, <4>1 DEF Serving, Answer
        <4>3. QED
          BY <1>4, <4>1, <4>2 DEF Sure, OnCourse, Fresh
      <3>3. Truthful(d)'
        BY <1>1, <1>4, <1>5, <2>2 DEF Truthful, Sure, OnCourse, InForce
      <3>4. QED
        BY <3>1, <3>2, <3>3 DEF OnCourse
    <2>3. QED
      BY <1>5, <2>1, <2>2
  <1>9. ASSUME NEW o \in Object PROVE StillSo(o)'
    BY <1>1 DEF StillSo, Sure, Nothing, InForce
  <1>10. QED
    BY <1>6, <1>7, <1>8, <1>9 DEF Sure

LEMMA ReplyIs ==
  ASSUME Base, NEW c \in Cli, NEW answer, Reply(c, answer)
  PROVE  \/ job'[c] = answer /\ cmd'[c] = cmd[c]
         \/ job'[c] = "none" /\ cmd'[c] = NoCommand
  <1>1. /\ cmd \in [Cli -> CmdType] /\ job \in [Cli -> JobType]
    BY TypeIs DEF Base
  <1>2. QED
    BY <1>1 DEF Reply

\* The same, of the state that a step leads to.
NowInForce(o, there) == IF there THEN o \in mem' \cap disk' ELSE o \notin mem' \cup disk'
NowLeft(o, verb) ==
  /\ verb \in OnRule \cup {"uninvite"} => (o \in mem' <=> verb \in Adding)
  /\ verb = "invite" => o \notin mem' \cup disk'

\* A handler that answers the truth keeps its command on course.
LEMMA AnswerOnCourse ==
  ASSUME Base, NEW c \in Cli, NEW answer \in Answer, Reply(c, answer),
         OnCourse(c), StoreStep(c), clean' = clean,
         answer = "ok" /\ clean[c] # "no" /\ cmd[c].verb \in Reporting =>
           \A o \in cmd[c].asked : NowInForce(o, cmd[c].verb \in Adding),
         answer = "refused" /\ clean[c] = "yes" =>
           \A o \in cmd[c].asked : NowLeft(o, cmd[c].verb),
         answer = "redirect" => cmd[c].verb \notin Reporting
  PROVE  OnCourse(c)'
  <1>1. CASE job'[c] = answer /\ cmd'[c] = cmd[c]
    <2>1. job'[c] # "found"
      BY <1>1 DEF Answer
    <2>2. Chosen(c)'
      <3>1. Bearers(cmd[c].ident) \cap mem' \subseteq mem
        BY BearersAreUsers DEF StoreStep
      <3>2. QED
        BY <1>1, <2>1, <3>1 DEF OnCourse, Chosen
    <2>3. Fresh(c)'
      BY <1>1 DEF Fresh
    <2>4. Truthful(c)'
      BY <1>1 DEF Truthful, InForce, Left, NowInForce, NowLeft
    <2>5. QED
      BY <2>2, <2>3, <2>4 DEF OnCourse
  <1>2. CASE job'[c] = "none" /\ cmd'[c] = NoCommand
    BY <1>2, OverIsFine
  <1>3. QED
    BY <1>1, <1>2, ReplyIs

\* Of commands that report nothing there is nothing to show.
LEMMA QuietOnCourse ==
  ASSUME Base, NEW c \in Cli, cmd[c].verb \notin Reporting, JobStep(c), clean' = clean
  PROVE  OnCourse(c)'
  <1>1. cmd'[c].verb \in {cmd[c].verb, "none"}
    BY DEF JobStep, Alone, NoCommand
  <1>2. cmd'[c].verb \notin Reporting
    BY <1>1 DEF Reporting, OnRule, OnInvite, OnGrant
  <1>3. QED
    BY <1>2
       DEF OnCourse, Chosen, Fresh, Truthful, Left, Reporting, OnInvite, OnRule

\* What memory and file hold once a save has ended.
LEMMA SavedIs ==
  ASSUME NEW file, NEW now, NEW o, Written(file, now), o \in file
  PROVE  (o \in mem' <=> o \in now) /\ (o \in disk' <=> o \in now)
  BY DEF Written

LEMMA RulesOnCourse ==
  ASSUME Base, NEW c \in Cli, OnCourse(c), AddRule(c) \/ RemoveRule(c)
  PROVE  OnCourse(c)'
  <1> DEFINE r == cmd[c].what
  <1>1. /\ cmd[c].verb \in OnRule /\ clean' = clean
        /\ AddRule(c) => cmd[c].verb = "allow"
        /\ RemoveRule(c) => cmd[c].verb = "unallow"
    BY DEF AddRule, RemoveRule, At, OnRule, client
  <1>2. r \in Rule /\ cmd[c].asked = {r}
    BY <1>1, CommandKinds DEF Base, Shaped
  <1>3. StoreStep(c)
    BY RulesFrame DEF Frame
  <1>4. cmd[c].verb # "invite" /\ (cmd[c].verb \in Adding <=> cmd[c].verb = "allow")
    BY <1>1 DEF OnRule, Adding
  <1>5. CASE AddRule(c)
    <2>1. \/ r \in mem /\ Reply(c, "refused") /\ mem' = mem
          \/ Written(Rule, mem \cup {r}) /\ Reply(c, "ok")
          \/ NotWritten(mem \cup {r}) /\ Reply(c, "refused")
      BY <1>5 DEF AddRule, Refuse, ReplyWithSave, store
    <2>2. r \in mem'
      BY <2>1 DEF Written, NotWritten
    <2>3. NowLeft(r, cmd[c].verb)
      BY <1>1, <1>4, <1>5, <2>2 DEF NowLeft
    <2>4. Reply(c, "refused") => OnCourse(c)'
      BY <1>1, <1>2, <1>3, <2>3, AnswerOnCourse DEF Answer
    <2>5. CASE Written(Rule, mem \cup {r}) /\ Reply(c, "ok")
      <3>1. NowInForce(r, cmd[c].verb \in Adding)
        BY <1>1, <1>2, <1>4, <1>5, <2>5, SavedIs DEF NowInForce
      <3>2. QED
        BY <1>1, <1>2, <1>3, <2>5, <3>1, AnswerOnCourse DEF Answer
    <2>6. QED
      BY <2>1, <2>4, <2>5
  <1>6. CASE RemoveRule(c)
    <2>1. \/ r \notin mem /\ Reply(c, "refused") /\ mem' = mem
          \/ Written(Rule, mem \ {r}) /\ Reply(c, "ok")
          \/ NotWritten(mem \ {r}) /\ Reply(c, "refused")
      BY <1>6 DEF RemoveRule, Refuse, ReplyWithSave, store
    <2>2. r \notin mem'
      BY <2>1 DEF Written, NotWritten
    <2>3. NowLeft(r, cmd[c].verb)
      BY <1>1, <1>4, <1>6, <2>2 DEF NowLeft
    <2>4. Reply(c, "refused") => OnCourse(c)'
      BY <1>1, <1>2, <1>3, <2>3, AnswerOnCourse DEF Answer
    <2>5. CASE Written(Rule, mem \ {r}) /\ Reply(c, "ok")
      <3>1. NowInForce(r, cmd[c].verb \in Adding)
        BY <1>1, <1>2, <1>4, <1>6, <2>5, SavedIs DEF NowInForce
      <3>2. QED
        BY <1>1, <1>2, <1>3, <2>5, <3>1, AnswerOnCourse DEF Answer
    <2>6. QED
      BY <2>1, <2>4, <2>5
  <1>7. QED
    BY <1>5, <1>6

LEMMA InvitesOnCourse ==
  ASSUME Base, NEW c \in Cli, OnCourse(c), IssueInvite(c) \/ DeleteInvite(c)
  PROVE  OnCourse(c)'
  <1> DEFINE t == cmd[c].what
  <1>1. /\ cmd[c].verb \in OnInvite /\ clean' = clean /\ job[c] = "new"
        /\ IssueInvite(c) => cmd[c].verb = "invite"
        /\ DeleteInvite(c) => cmd[c].verb = "uninvite"
    BY DEF IssueInvite, DeleteInvite, At, OnInvite, client
  <1>2. t \in Token /\ cmd[c].asked = {t}
    BY <1>1, CommandKinds DEF Base, Shaped
  <1>3. StoreStep(c)
    BY RulesFrame DEF Frame
  <1>4. /\ cmd[c].verb \in Adding <=> cmd[c].verb = "invite"
        /\ cmd[c].verb \notin OnRule
    BY <1>1 DEF OnInvite, OnRule, Adding
  <1>5. CASE IssueInvite(c)
    <2>1. CASE Written(Token, mem \cup {t}) /\ Reply(c, "ok")
      <3>1. NowInForce(t, cmd[c].verb \in Adding)
        BY <1>1, <1>2, <1>4, <1>5, <2>1, SavedIs DEF NowInForce
      <3>2. QED
        BY <1>1, <1>2, <1>3, <2>1, <3>1, AnswerOnCourse DEF Answer
    <2>2. CASE NotWritten(mem) /\ Reply(c, "refused")
      <3>1. clean[c] = "yes" => t \notin mem \cup disk
        BY <1>1, <1>5 DEF OnCourse, Fresh, Answer
      <3>2. clean[c] = "yes" => NowLeft(t, cmd[c].verb)
        BY <1>1, <1>4, <1>5, <2>2, <3>1 DEF NowLeft, NotWritten
      <3>3. QED
        BY <1>1, <1>2, <1>3, <2>2, <3>2, AnswerOnCourse DEF Answer
    <2>3. QED
      BY <1>5, <2>1, <2>2 DEF IssueInvite
  <1>6. CASE DeleteInvite(c)
    <2>1. \/ t \notin mem /\ Reply(c, "refused") /\ mem' = mem
          \/ Written(Token, mem \ {t}) /\ Reply(c, "ok")
          \/ NotWritten(mem \ {t}) /\ Reply(c, "refused")
      BY <1>6 DEF DeleteInvite, Refuse, ReplyWithSave, store
    <2>2. t \notin mem'
      BY <2>1 DEF Written, NotWritten
    <2>3. NowLeft(t, cmd[c].verb)
      BY <1>1, <1>4, <1>6, <2>2 DEF NowLeft
    <2>4. Reply(c, "refused") => OnCourse(c)'
      BY <1>1, <1>2, <1>3, <2>3, AnswerOnCourse DEF Answer
    <2>5. CASE Written(Token, mem \ {t}) /\ Reply(c, "ok")
      <3>1. NowInForce(t, cmd[c].verb \in Adding)
        BY <1>1, <1>2, <1>4, <1>6, <2>5, SavedIs DEF NowInForce
      <3>2. QED
        BY <1>1, <1>2, <1>3, <2>5, <3>1, AnswerOnCourse DEF Answer
    <2>6. QED
      BY <2>1, <2>4, <2>5
  <1>7. QED
    BY <1>5, <1>6

LEMMA GrantsOnCourse ==
  ASSUME Base, NEW c \in Cli, OnCourse(c), FindUser(c) \/ Grant(c) \/ Revoke(c)
  PROVE  OnCourse(c)'
  <1> DEFINE g == <<cmd[c].what, cmd[c].who>>
  <1>1. /\ cmd[c].verb \in OnGrant /\ clean' = clean
        /\ Grant(c) => cmd[c].verb = "grant" /\ job[c] = "found"
        /\ Revoke(c) => cmd[c].verb = "revoke" /\ job[c] = "found"
    BY DEF FindUser, Grant, Revoke, At, OnGrant, client
  <1>2. /\ cmd[c].what \in Sub /\ cmd[c].who \in Bearers(cmd[c].ident) \cup {None}
        /\ mem \subseteq Object
    BY <1>1, CommandKinds
  <1>3. StoreStep(c) /\ JobStep(c)
    BY GrantsFrame DEF Frame
  <1>4. /\ \A o : NowLeft(o, cmd[c].verb)
        /\ cmd[c].verb \in Adding <=> cmd[c].verb = "grant"
    BY <1>1 DEF OnGrant, OnRule, NowLeft, Adding
  <1>5. Reply(c, "refused") => OnCourse(c)'
    BY <1>1, <1>3, <1>4, AnswerOnCourse DEF Answer
  <1>6. CASE FindUser(c)
    <2>1. CASE cmd[c].who \in mem
      <3>1. Proceed(c, "found") /\ mem' = mem
        BY <1>6, <2>1 DEF FindUser, store
      <3>2. cmd[c].who \in Bearers(cmd[c].ident) \cap mem
        BY <1>2, <2>1, AdminCliAssumption
      <3>3. cmd'[c] = cmd[c] /\ job'[c] = "found"
        <4>1. job \in [Cli -> JobType]
          BY TypeIs DEF Base
        <4>2. QED
          BY <3>1, <4>1 DEF Proceed
      <3>4. Chosen(c)'
        BY <1>1, <3>1, <3>2, <3>3 DEF OnCourse, Chosen
      <3>5. Fresh(c)' /\ Truthful(c)'
        BY <1>1, <3>3 DEF Fresh, Truthful, OnGrant
      <3>6. QED
        BY <3>4, <3>5 DEF OnCourse
    <2>2. CASE cmd[c].who \notin mem
      BY <1>5, <1>6, <2>2 DEF FindUser, Refuse
    <2>3. QED
      BY <2>1, <2>2
  <1>7. CASE Grant(c) \/ Revoke(c)
    <2>1. clean[c] # "no" => cmd[c].asked \subseteq {g}
      BY <1>1, <1>7 DEF OnCourse, Chosen
    <2>2. g \in Grants
      BY <1>1, <1>2, <1>7, BearersAreUsers DEF Base, FoundOne, Grants
    <2> DEFINE now == IF Grant(c) THEN mem \cup {g} ELSE mem \ {g}
    <2>3. \/ Reply(c, "refused")
          \/ Written(Grants, now) /\ Reply(c, "ok")
      BY <1>1, <1>7 DEF Grant, Revoke, Refuse, ReplyWithSave
    <2>4. g \in now <=> cmd[c].verb \in Adding
      BY <1>1, <1>4, <1>7
    <2> HIDE DEF now, g
    <2>5. CASE Written(Grants, now) /\ Reply(c, "ok")
      <3>1. NowInForce(g, cmd[c].verb \in Adding)
        BY <2>2, <2>4, <2>5, SavedIs DEF NowInForce
      <3>2. clean[c] # "no" => \A o \in cmd[c].asked : o = g
        BY <2>1
      <3>3. QED
        BY <1>1, <1>3, <2>5, <3>1, <3>2, AnswerOnCourse DEF Answer
    <2>6. QED
      BY <1>5, <2>3, <2>5
  <1>8. QED
    BY <1>6, <1>7

LEMMA HandleOnCourse ==
  ASSUME Base, NEW c \in Cli, OnCourse(c), Handle(c)
  PROVE  OnCourse(c)'
  <1>1. CASE AddRule(c) \/ RemoveRule(c)
    BY <1>1, RulesOnCourse
  <1>2. CASE IssueInvite(c) \/ DeleteInvite(c)
    BY <1>2, InvitesOnCourse
  <1>3. CASE FindUser(c) \/ Grant(c) \/ Revoke(c)
    BY <1>3, GrantsOnCourse
  <1>4. CASE \/ LockList(c) \/ LockGrant(c) \/ LockDone(c) \/ Unlock(c)
             \/ RevokeEverywhere(c) \/ EraseUser(c) \/ DeleteCredential(c)
    <2>1. cmd[c].verb \notin Reporting
      BY <1>4 DEF LockList, LockGrant, LockDone, Unlock, RevokeEverywhere, EraseUser,
                  DeleteCredential, At, Reporting, OnRule, OnInvite, OnGrant
    <2>2. JobStep(c) /\ clean' = clean
      BY <1>4, LocksFrame, DeletesFrame DEF Frame, client
    <2>3. QED
      BY <2>1, <2>2, QuietOnCourse
  <1>5. QED
    BY <1>1, <1>2, <1>3, <1>4 DEF Handle

LEMMA HandleSure ==
  ASSUME Base, Sure, NEW c \in Cli, Handle(c)
  PROVE  Sure'
  <1> DEFINE os == Touches(cmd[c])
  <1>1. /\ Near(os) /\ mem' \cap User \subseteq mem
        /\ Alone(c)
        /\ UNCHANGED <<clean, told>>
    BY HandleFrame DEF Frame, StoreStep, JobStep, client
  <1>2. \A d \in Cli : Touches(cmd'[d]) \subseteq Touches(cmd[d])
    BY <1>1, NoneTouched DEF Alone
  <1>3. Apart' /\ Untouched'
    BY <1>1, <1>2 DEF Apart, Untouched, Sure
  <1> HIDE DEF os
  <1>4. ASSUME NEW d \in Cli PROVE OnCourse(d)'
    <2>1. CASE d = c
      BY <2>1, HandleOnCourse DEF Sure
    <2>2. CASE d # c
      <3>1. cmd'[d] = cmd[d] /\ job'[d] = job[d]
        BY <1>1, <2>2 DEF Alone
      <3>2. clean'[d] # "no" => Touches(cmd[d]) \cap os = {}
        BY <1>1, <2>2 DEF Sure, Apart, os
      <3>3. Bearers(cmd[d].ident) \cap mem' \subseteq mem
        BY <1>1, BearersAreUsers
      <3>4. QED
        BY <1>1, <3>1, <3>2, <3>3, OthersStay, CommandFacts DEF Sure
    <2>3. QED
      BY <2>1, <2>2
  <1>5. ASSUME NEW o \in Object PROVE StillSo(o)'
    <2>1. CASE told[o].code = 1
      BY <1>1, <2>1 DEF StillSo
    <2>2. CASE told[o].code # 1
      <3>1. o \notin os
        BY <2>2 DEF Sure, Untouched, os
      <3>2. StillSo(o)
        BY DEF Sure
      <3>3. QED
        BY <1>1, <3>1, <3>2 DEF StillSo, Near, InForce, Left
    <2>3. QED
      BY <2>1, <2>2
  <1>6. QED
    BY <1>3, <1>4, <1>5 DEF Sure

LEMMA InitSure == Init => Sure
  <1> SUFFICES ASSUME Init PROVE Sure
    OBVIOUS
  <1>1. /\ \A c \in Cli : cmd[c] = NoCommand /\ job[c] = "none"
        /\ \A o \in Object : told[o].code = 1
    BY DEF Init, Nothing
  <1>2. Apart /\ Untouched
    BY <1>1, NoneTouched DEF Apart, Untouched
  <1>3. \A c \in Cli : OnCourse(c)
    <2>1. \A c \in Cli : cmd[c].verb = "none" /\ job[c] = "none"
      <3>1. NoCommand.verb = "none"
        BY DEF NoCommand
      <3>2. QED
        BY <1>1, <3>1
    <2>2. QED
      BY <2>1 DEF OnCourse, Chosen, Fresh, Truthful, OnGrant
  <1>4. \A o \in Object : StillSo(o)
    BY <1>1 DEF StillSo
  <1>5. QED
    BY <1>2, <1>3, <1>4 DEF Sure

LEMMA StepSure == Base /\ Sure /\ [Next]_vars => Sure'
  <1> SUFFICES ASSUME Base, Sure, [Next]_vars PROVE Sure'
    OBVIOUS
  <1>1. CASE Next
    BY <1>1, NextIs, StartSure, LookupSure, ExitSure, HandleSure, EnrolSure, RestartSure
  <1>2. CASE UNCHANGED vars
    <2>1. UNCHANGED <<mem, disk, cmd, job, clean, told>>
      BY <1>2 DEF vars, store, client
    <2>2. Apart' /\ Untouched'
      BY <2>1 DEF Apart, Untouched, Sure
    <2>3. \A c \in Cli : OnCourse(c)'
      BY <2>1 DEF OnCourse, Chosen, Fresh, Truthful, InForce, Left, Sure
    <2>4. \A o \in Object : StillSo(o)'
      BY <2>1 DEF StillSo, InForce, Left, Sure
    <2>5. QED
      BY <2>2, <2>3, <2>4 DEF Sure
  <1>3. QED
    BY <1>1, <1>2

LEMMA AlwaysSure == Spec => []Sure
  <1>1. Init => Base /\ Sure
    BY InitBase, InitSure
  <1>2. Base /\ Sure /\ [Next]_vars => (Base /\ Sure)'
    BY StepBase, StepSure
  <1>3. QED
    BY <1>1, <1>2, PTL DEF Spec

\* Exit code 0 of a command that reports what the store said can be relied on,
\* in memory and in the file, until the next command about the same thing.
THEOREM SuccessIsReal == Spec => []ToldHolds
  BY AlwaysSure, SureIsEnough, PTL

\* Exit code 3 leaves the lists and the invites as they were asked to be.
THEOREM RefusalsAreHarmless == Spec => []RefusalIsHarmless
  BY AlwaysSure, SureIsEnough, PTL
=============================================================================
