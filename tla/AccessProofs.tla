---------------------------- MODULE AccessProofs ----------------------------
(***************************************************************************)
(* Proofs about Access, for any numbers of browsers, admin requests, users, *)
(* passkeys, invites and tunnels.                                          *)
(***************************************************************************)
EXTENDS Access, TLAPS

\* One lemma for every action that moves a request on.
LEMMA Moved ==
  ASSUME NEW p \in Process, NEW r \in Requests,
         req \in [Process -> Requests], req' = [req EXCEPT ![p] = r]
  PROVE  req' \in [Process -> Requests]
OBVIOUS

LEMMA IdleRequest == Idle \in Requests
BY DEF Idle, Request, Requests

\* A request's operation tells what it carries.
LEMMA Carries ==
  ASSUME NEW p \in Process, req \in [Process -> Requests]
  PROVE  /\ req[p].op \in {"invited", "enrol", "rollback", "consume"} =>
              req[p].user \in User /\ req[p].on \in Token
         /\ req[p].op \in {"verified", "count", "delete"} =>
              req[p].user \in User /\ req[p].on \in Cred
         /\ req[p].op = "signin" =>
              req[p].user \in User \cup {None} /\ req[p].on \in Cred \cup Token
         /\ req[p].op \in {"challenge", "register", "add", "kick", "erase"} =>
              req[p].user \in User /\ req[p].on = None
         /\ req[p].op \in {"grant", "revoke"} =>
              req[p].user \in User /\ req[p].on \in Sub
         /\ req[p].op = "lock" => req[p].user = None /\ req[p].on \in Sub
         /\ req[p].op \in {"idle", "login"} => req[p].user = None /\ req[p].on = None
<1>1. req[p] \in Requests
  OBVIOUS
<1> QED
  BY <1>1 DEF Requests
-----------------------------------------------------------------------------
(* What a step can be                                                      *)

\* The disjuncts of Next, flat.
LEMMA Steps ==
  ASSUME Next
  PROVE  \/ \E t \in Token : Issue(t) \/ DeleteInvite(t) \/ Expire(t)
         \/ \E b \in Browser, t \in Token : InviteBegin(b, t)
         \/ \E b \in Browser : InviteFinish(b) \/ EnrolInvitee(b) \/ RollBack(b)
                               \/ MarkConsumed(b)
         \/ \E b \in Browser : AuthBegin(b) \/ LookUpOwner(b) \/ SignIn(b)
                               \/ EndSession(b) \/ GiveUp(b)
         \/ \E b \in Browser, c \in Cred : AuthFinish(b, c) \/ DeleteAsk(b, c)
         \/ \E b \in Browser : RegisterBegin(b) \/ RegisterFinish(b)
                               \/ VerifyRegistration(b) \/ AddDevice(b)
         \/ \E b \in Browser : DeleteCount(b) \/ DeleteCredential(b)
         \/ \E a \in Admin, u \in User : RevokeEverywhere(a, u)
         \/ \E a \in Admin : Kick(a) \/ Erase(a) \/ Grant(a) \/ Revoke(a) \/ LockNext(a)
         \/ \E a \in Admin, op \in {"grant", "revoke"}, s \in Sub, u \in User :
              AskGrant(a, op, s, u)
         \/ \E a \in Admin, s \in Sub : LockAll(a, s)
         \/ \E c \in Cred : AdminDeleteCredential(c)
         \/ \E s \in Sub : Unlock(s)
         \/ LoseMemory
BY DEF Next, InviteStep, SessionStep, AccountStep, AdminStep, Panic, Restart

-----------------------------------------------------------------------------
(* Types                                                                   *)

StoreTyped ==
  /\ users \subseteq User
  /\ owner \in [Cred -> User \cup {None}]
  /\ unsaved \subseteq Cred
  /\ session \in [Browser -> User \cup {None}]

InviteTyped ==
  /\ invite \in [Token -> {"unissued", "open", "expired", "consumed", "deleted"}]
  /\ usedBy \in [Token -> User \cup {None}]

LockTyped ==
  /\ locked \subseteq Sub
  /\ allowed \in [Sub -> SUBSET User]
  /\ \A s \in Sub \ locked : allowed[s] = {}

WorkTyped ==
  /\ req \in [Process -> Requests]
  /\ todo \in [Admin -> SUBSET User]

HistoryTyped ==
  /\ from \in [User -> Token \cup {None}]
  /\ raced \subseteq User

LEMMA TypeParts ==
  AccessTypeOK <=> StoreTyped /\ InviteTyped /\ LockTyped /\ WorkTyped /\ HistoryTyped
BY DEF AccessTypeOK, StoreTyped, InviteTyped, LockTyped, WorkTyped, HistoryTyped

LEMMA InitTyped == Init => AccessTypeOK
<1> SUFFICES ASSUME Init PROVE AccessTypeOK
  OBVIOUS
<1> QED
  BY IdleRequest DEF Init, AccessTypeOK

LEMMA StoreStep == AccessTypeOK /\ Next => StoreTyped'
<1> SUFFICES ASSUME AccessTypeOK, Next PROVE StoreTyped'
  OBVIOUS
<1> USE DEF AccessTypeOK, StoreTyped
<1>1. ASSUME UNCHANGED <<store, session>> PROVE StoreTyped'
  BY <1>1 DEF store
<1>2. CASE \E t \in Token : Issue(t) \/ DeleteInvite(t) \/ Expire(t)
  BY <1>2, <1>1 DEF Issue, DeleteInvite, Expire
<1>3. CASE \E b \in Browser, t \in Token : InviteBegin(b, t)
  BY <1>3, <1>1 DEF InviteBegin
<1>4. ASSUME NEW b \in Browser, InviteFinish(b) PROVE StoreTyped'
  BY <1>4, Carries DEF InviteFinish, At, Process
<1>5. ASSUME NEW b \in Browser, EnrolInvitee(b) PROVE StoreTyped'
  <2>1. req[b].user \in User
    BY <1>5, Carries DEF EnrolInvitee, At, Process
  <2> QED
    BY <1>5, <2>1 DEF EnrolInvitee, AddCredential, Offered, FreshCred
<1>6. ASSUME NEW b \in Browser, MarkConsumed(b) \/ AuthBegin(b) \/ GiveUp(b)
      PROVE StoreTyped'
  BY <1>6, <1>1 DEF MarkConsumed, AuthBegin, GiveUp
<1>7. ASSUME NEW b \in Browser, SignIn(b) PROVE StoreTyped'
  BY <1>7, Carries DEF SignIn, At, Process, store
<1>8. ASSUME NEW b \in Browser, EndSession(b) PROVE StoreTyped'
  BY <1>8 DEF EndSession, store
<1>9. CASE \E b \in Browser, c \in Cred : AuthFinish(b, c) \/ DeleteAsk(b, c)
  BY <1>9, <1>1 DEF AuthFinish, DeleteAsk
<1>10. ASSUME NEW b \in Browser, RegisterBegin(b) \/ RegisterFinish(b) \/ VerifyRegistration(b)
       PROVE StoreTyped'
  BY <1>10, <1>1 DEF RegisterBegin, RegisterFinish, VerifyRegistration
<1>11. ASSUME NEW b \in Browser, AddDevice(b) PROVE StoreTyped'
  <2>1. req[b].user \in User
    BY <1>11, Carries DEF AddDevice, At, Process
  <2> QED
    BY <1>11, <2>1 DEF AddDevice, AddCredential, Offered, FreshCred
<1>12. ASSUME NEW b \in Browser, DeleteCount(b) \/ DeleteCredential(b) PROVE StoreTyped'
  BY <1>12, <1>1 DEF DeleteCount, DeleteCredential, DropCredential
<1>13. CASE \E a \in Admin, u \in User : RevokeEverywhere(a, u)
  BY <1>13, <1>1 DEF RevokeEverywhere
<1>14. ASSUME NEW a \in Admin, Kick(a) PROVE StoreTyped'
  BY <1>14 DEF Kick, store
<1>15. ASSUME NEW a \in Admin, Erase(a) PROVE StoreTyped'
  BY <1>15 DEF Erase, DeleteUser, store
<1>16. ASSUME NEW a \in Admin, Grant(a) \/ Revoke(a) \/ LockNext(a) PROVE StoreTyped'
  BY <1>16, <1>1 DEF Grant, Revoke, LockNext
<1>17. CASE \E a \in Admin, op \in {"grant", "revoke"}, s \in Sub, u \in User :
              AskGrant(a, op, s, u)
  BY <1>17, <1>1 DEF AskGrant
<1>18. CASE \E a \in Admin, s \in Sub : LockAll(a, s)
  BY <1>18, <1>1 DEF LockAll
<1>19. ASSUME NEW c \in Cred, AdminDeleteCredential(c) PROVE StoreTyped'
  BY <1>19 DEF AdminDeleteCredential, DropCredential
<1>20. CASE \E s \in Sub : Unlock(s)
  BY <1>20, <1>1 DEF Unlock
<1>21. CASE LoseMemory
  BY <1>21 DEF LoseMemory
<1>22. ASSUME NEW b \in Browser, LookUpOwner(b) PROVE StoreTyped'
  BY <1>22 DEF LookUpOwner
<1>23. ASSUME NEW b \in Browser, RollBack(b) PROVE StoreTyped'
  BY <1>23 DEF RollBack, DeleteUser, store
<1> QED
  BY <1>2, <1>3, <1>4, <1>5, <1>6, <1>7, <1>8, <1>9, <1>10, <1>11, <1>12, <1>13,
     <1>14, <1>15, <1>16, <1>17, <1>18, <1>19, <1>20, <1>21, <1>22, <1>23, Steps

LEMMA InvitesStep == AccessTypeOK /\ Next => InviteTyped'
<1> SUFFICES ASSUME AccessTypeOK, Next PROVE InviteTyped'
  OBVIOUS
<1> USE DEF AccessTypeOK, InviteTyped
<1>1. ASSUME UNCHANGED invitevars PROVE InviteTyped'
  BY <1>1 DEF invitevars
<1>2. ASSUME NEW t \in Token, Issue(t) \/ DeleteInvite(t) \/ Expire(t) PROVE InviteTyped'
  BY <1>2 DEF Issue, DeleteInvite, Expire
<1>3. ASSUME NEW b \in Browser, MarkConsumed(b) PROVE InviteTyped'
  BY <1>3, <1>1, Carries DEF MarkConsumed, At, Process
<1>4. CASE \/ \E b \in Browser, t \in Token : InviteBegin(b, t)
           \/ \E b \in Browser : InviteFinish(b) \/ EnrolInvitee(b) \/ RollBack(b)
  BY <1>4, <1>1 DEF InviteBegin, InviteFinish, EnrolInvitee, RollBack
<1>5. CASE \/ \E b \in Browser : AuthBegin(b) \/ LookUpOwner(b) \/ SignIn(b)
                                 \/ EndSession(b) \/ GiveUp(b)
           \/ \E b \in Browser, c \in Cred : AuthFinish(b, c) \/ DeleteAsk(b, c)
  BY <1>5, <1>1 DEF AuthBegin, LookUpOwner, SignIn, EndSession, GiveUp, AuthFinish, DeleteAsk
<1>6. CASE \E b \in Browser : RegisterBegin(b) \/ RegisterFinish(b) \/ VerifyRegistration(b)
                              \/ AddDevice(b) \/ DeleteCount(b) \/ DeleteCredential(b)
  BY <1>6, <1>1 DEF RegisterBegin, RegisterFinish, VerifyRegistration, AddDevice,
                    DeleteCount, DeleteCredential
<1>7. CASE \/ \E a \in Admin, u \in User : RevokeEverywhere(a, u)
           \/ \E a \in Admin : Kick(a) \/ Erase(a) \/ Grant(a) \/ Revoke(a) \/ LockNext(a)
           \/ \E a \in Admin, op \in {"grant", "revoke"}, s \in Sub, u \in User :
                AskGrant(a, op, s, u)
           \/ \E a \in Admin, s \in Sub : LockAll(a, s)
  BY <1>7, <1>1 DEF RevokeEverywhere, Kick, Erase, Grant, Revoke, LockNext, AskGrant, LockAll
<1>8. CASE \/ \E c \in Cred : AdminDeleteCredential(c)
           \/ \E s \in Sub : Unlock(s)
           \/ LoseMemory
  BY <1>8, <1>1 DEF AdminDeleteCredential, Unlock, LoseMemory
<1> QED
  BY <1>2, <1>3, <1>4, <1>5, <1>6, <1>7, <1>8, Steps

LEMMA LocksStep == AccessTypeOK /\ Next => LockTyped'
<1> SUFFICES ASSUME AccessTypeOK, Next PROVE LockTyped'
  OBVIOUS
<1> USE DEF AccessTypeOK, LockTyped
<1>1. ASSUME UNCHANGED lockvars PROVE LockTyped'
  BY <1>1 DEF lockvars
<1>2. ASSUME NEW s \in Sub, NEW u \in User, Allow(s, u) PROVE LockTyped'
  BY <1>2 DEF Allow
<1>3. ASSUME NEW a \in Admin, NEW u \in User, RevokeEverywhere(a, u) PROVE LockTyped'
  BY <1>3 DEF RevokeEverywhere
<1>4. ASSUME NEW a \in Admin, Grant(a) PROVE LockTyped'
  BY <1>4, <1>2, Carries DEF Grant, At, Process
<1>5. ASSUME NEW a \in Admin, LockNext(a) PROVE LockTyped'
  BY <1>5, <1>1, <1>2, Carries DEF LockNext, At, Process
<1>6. ASSUME NEW a \in Admin, Revoke(a) PROVE LockTyped'
  <2>1. req[a].on \in Sub
    BY <1>6, Carries DEF Revoke, At, Process
  <2> QED
    BY <1>6, <1>1, <2>1 DEF Revoke
<1>7. ASSUME NEW s \in Sub, Unlock(s) PROVE LockTyped'
  BY <1>7 DEF Unlock
<1>8. CASE \E t \in Token : Issue(t) \/ DeleteInvite(t) \/ Expire(t)
  BY <1>8, <1>1 DEF Issue, DeleteInvite, Expire
<1>9. CASE \/ \E b \in Browser, t \in Token : InviteBegin(b, t)
           \/ \E b \in Browser : InviteFinish(b) \/ EnrolInvitee(b) \/ RollBack(b)
                                 \/ MarkConsumed(b)
  BY <1>9, <1>1 DEF InviteBegin, InviteFinish, EnrolInvitee, RollBack, MarkConsumed
<1>10. CASE \/ \E b \in Browser : AuthBegin(b) \/ LookUpOwner(b) \/ SignIn(b)
                                  \/ EndSession(b) \/ GiveUp(b)
            \/ \E b \in Browser, c \in Cred : AuthFinish(b, c) \/ DeleteAsk(b, c)
  BY <1>10, <1>1 DEF AuthBegin, LookUpOwner, SignIn, EndSession, GiveUp, AuthFinish, DeleteAsk
<1>11. CASE \E b \in Browser : RegisterBegin(b) \/ RegisterFinish(b) \/ VerifyRegistration(b)
                               \/ AddDevice(b) \/ DeleteCount(b) \/ DeleteCredential(b)
  BY <1>11, <1>1 DEF RegisterBegin, RegisterFinish, VerifyRegistration, AddDevice,
                     DeleteCount, DeleteCredential
<1>12. CASE \/ \E a \in Admin : Kick(a) \/ Erase(a)
            \/ \E a \in Admin, op \in {"grant", "revoke"}, s \in Sub, u \in User :
                 AskGrant(a, op, s, u)
            \/ \E a \in Admin, s \in Sub : LockAll(a, s)
            \/ \E c \in Cred : AdminDeleteCredential(c)
            \/ LoseMemory
  BY <1>12, <1>1 DEF Kick, Erase, AskGrant, LockAll, AdminDeleteCredential, LoseMemory
<1> QED
  BY <1>3, <1>4, <1>5, <1>6, <1>7, <1>8, <1>9, <1>10, <1>11, <1>12, Steps
\* A request is only ever moved to a request that carries what it should.
LEMMA WorkStep == AccessTypeOK /\ Next => WorkTyped'
<1> SUFFICES ASSUME AccessTypeOK, Next PROVE WorkTyped'
  OBVIOUS
<1> USE DEF AccessTypeOK, WorkTyped
<1>1. ASSUME UNCHANGED <<req, todo>> PROVE WorkTyped'
  BY <1>1
<1>2. ASSUME NEW p \in Process, NEW r \in Requests, req' = [req EXCEPT ![p] = r],
             todo' \in [Admin -> SUBSET User]
      PROVE WorkTyped'
  BY <1>2, Moved
<1>3. ASSUME NEW p \in Process, Done(p), todo' \in [Admin -> SUBSET User] PROVE WorkTyped'
  BY <1>2, <1>3, IdleRequest DEF Done
<1>4. CASE \/ \E t \in Token : Issue(t) \/ DeleteInvite(t) \/ Expire(t)
           \/ \E c \in Cred : AdminDeleteCredential(c)
           \/ \E s \in Sub : Unlock(s)
           \/ \E b \in Browser : EndSession(b)
  BY <1>4, <1>1 DEF Issue, DeleteInvite, Expire, AdminDeleteCredential, Unlock, EndSession
<1>5. ASSUME NEW b \in Browser, NEW t \in Token, InviteBegin(b, t) PROVE WorkTyped'
  <2>1. PICK u \in User : Starts(b, "invited", u, t)
    BY <1>5 DEF InviteBegin, FreshUser
  <2>2. Request("invited", u, t) \in Requests
    BY DEF Request, Requests
  <2> QED
    BY <1>2, <1>5, <2>1, <2>2 DEF InviteBegin, Starts, Process
<1>6. ASSUME NEW b \in Browser, InviteFinish(b) PROVE WorkTyped'
  <2>1. Request("enrol", req[b].user, req[b].on) \in Requests
    BY <1>6, Carries DEF InviteFinish, At, Process, Request, Requests
  <2> QED
    BY <1>2, <1>6, <2>1 DEF InviteFinish, Continue, Process
<1>7. ASSUME NEW b \in Browser, EnrolInvitee(b) PROVE WorkTyped'
  <2>1. /\ Request("consume", req[b].user, req[b].on) \in Requests
        /\ Request("rollback", req[b].user, req[b].on) \in Requests
    BY <1>7, Carries DEF EnrolInvitee, At, Process, Request, Requests
  <2>2. PICK op \in {"consume", "rollback"} : Continue(b, op, req[b].user)
    BY <1>7 DEF EnrolInvitee
  <2> QED
    BY <1>2, <1>7, <2>1, <2>2 DEF EnrolInvitee, Continue, Process
<1>8. ASSUME NEW b \in Browser, MarkConsumed(b) PROVE WorkTyped'
  <2>1. Request("signin", req[b].user, req[b].on) \in Requests
    BY <1>8, Carries DEF MarkConsumed, At, Process, Request, Requests
  <2> QED
    BY <1>2, <1>3, <1>8, <2>1 DEF MarkConsumed, Continue, Process
<1>9. ASSUME NEW b \in Browser, \/ SignIn(b) \/ GiveUp(b) \/ AddDevice(b)
                                 \/ DeleteCredential(b) \/ RollBack(b)
      PROVE WorkTyped'
  BY <1>3, <1>9 DEF SignIn, GiveUp, AddDevice, DeleteCredential, RollBack, Process
<1>10. ASSUME NEW b \in Browser, AuthBegin(b) PROVE WorkTyped'
  <2>1. Request("login", None, None) \in Requests
    BY DEF Request, Requests
  <2> QED
    BY <1>2, <1>10, <2>1 DEF AuthBegin, Starts, Process
<1>11. ASSUME NEW b \in Browser, NEW c \in Cred, AuthFinish(b, c) PROVE WorkTyped'
  <2>1. Request("verified", owner[c], c) \in Requests
    BY <1>11 DEF AuthFinish, Request, Requests
  <2> QED
    BY <1>2, <1>11, <2>1 DEF AuthFinish, Process
<1>12. ASSUME NEW b \in Browser, LookUpOwner(b) PROVE WorkTyped'
  <2>1. req[b].on \in Cred
    BY <1>12, Carries DEF LookUpOwner, At, Process
  <2>2. Request("signin", owner[req[b].on], req[b].on) \in Requests
    BY <2>1 DEF Request, Requests
  <2> QED
    BY <1>2, <1>12, <2>2 DEF LookUpOwner, Continue, Process
<1>13. ASSUME NEW b \in Browser, RegisterBegin(b) PROVE WorkTyped'
  <2>1. Request("challenge", session[b], None) \in Requests
    BY <1>13 DEF RegisterBegin, Request, Requests
  <2> QED
    BY <1>2, <1>13, <2>1 DEF RegisterBegin, Starts, Process
<1>14. ASSUME NEW b \in Browser, RegisterFinish(b) PROVE WorkTyped'
  <2>1. Request("register", session[b], req[b].on) \in Requests
    BY <1>14, Carries DEF RegisterFinish, At, Process, Request, Requests
  <2> QED
    BY <1>2, <1>14, <2>1 DEF RegisterFinish, Continue, Process
<1>15. ASSUME NEW b \in Browser, VerifyRegistration(b) PROVE WorkTyped'
  <2>1. Request("add", req[b].user, req[b].on) \in Requests
    BY <1>15, Carries DEF VerifyRegistration, At, Process, Request, Requests
  <2> QED
    BY <1>2, <1>3, <1>15, <2>1 DEF VerifyRegistration, Continue, Process
<1>16. ASSUME NEW b \in Browser, NEW c \in Cred, DeleteAsk(b, c) PROVE WorkTyped'
  <2>1. Request("count", session[b], c) \in Requests
    BY <1>16 DEF DeleteAsk, Request, Requests
  <2> QED
    BY <1>2, <1>16, <2>1 DEF DeleteAsk, Starts, Process
<1>17. ASSUME NEW b \in Browser, DeleteCount(b) PROVE WorkTyped'
  <2>1. Request("delete", req[b].user, req[b].on) \in Requests
    BY <1>17, Carries DEF DeleteCount, At, Process, Request, Requests
  <2> QED
    BY <1>2, <1>3, <1>17, <2>1 DEF DeleteCount, Continue, Process
<1>18. ASSUME NEW a \in Admin, NEW u \in User, RevokeEverywhere(a, u) PROVE WorkTyped'
  <2>1. Request("kick", u, None) \in Requests
    BY DEF Request, Requests
  <2> QED
    BY <1>2, <1>18, <2>1 DEF RevokeEverywhere, Starts, Process
<1>19. ASSUME NEW a \in Admin, Kick(a) PROVE WorkTyped'
  <2>1. Request("erase", req[a].user, req[a].on) \in Requests
    BY <1>19, Carries DEF Kick, At, Process, Request, Requests
  <2> QED
    BY <1>2, <1>19, <2>1 DEF Kick, Continue, Process
<1>20. ASSUME NEW a \in Admin, Erase(a) \/ Grant(a) \/ Revoke(a) PROVE WorkTyped'
  BY <1>3, <1>20 DEF Erase, Grant, Revoke, Process
<1>21. ASSUME NEW a \in Admin, NEW op \in {"grant", "revoke"}, NEW s \in Sub, NEW u \in User,
              AskGrant(a, op, s, u)
       PROVE WorkTyped'
  <2>1. Request(op, u, s) \in Requests
    BY DEF Request, Requests
  <2> QED
    BY <1>2, <1>21, <2>1 DEF AskGrant, Starts, Process
<1>22. ASSUME NEW a \in Admin, NEW s \in Sub, LockAll(a, s) PROVE WorkTyped'
  <2>1. Request("lock", None, s) \in Requests
    BY DEF Request, Requests
  <2>2. todo' \in [Admin -> SUBSET User]
    BY <1>22 DEF LockAll
  <2> QED
    BY <1>2, <1>22, <2>1, <2>2 DEF LockAll, Starts, Process
<1>23. ASSUME NEW a \in Admin, LockNext(a) PROVE WorkTyped'
  <2>1. todo' \in [Admin -> SUBSET User]
    BY <1>23 DEF LockNext
  <2> QED
    BY <1>3, <1>23, <2>1 DEF LockNext, Process
<1>24. CASE LoseMemory
  BY <1>24, IdleRequest DEF LoseMemory
<1> QED
  BY <1>4, <1>5, <1>6, <1>7, <1>8, <1>9, <1>10, <1>11, <1>12, <1>13, <1>14, <1>15, <1>16,
     <1>17, <1>18, <1>19, <1>20, <1>21, <1>22, <1>23, <1>24, Steps

LEMMA HistoryStep == AccessTypeOK /\ Next => HistoryTyped'
<1> SUFFICES ASSUME AccessTypeOK, Next PROVE HistoryTyped'
  OBVIOUS
<1> USE DEF AccessTypeOK, HistoryTyped
<1>1. ASSUME UNCHANGED history PROVE HistoryTyped'
  BY <1>1 DEF history
<1>2. BeingDeleted \subseteq User
  BY Carries DEF BeingDeleted, Process
<1>3. ASSUME NEW us \in SUBSET User, NoteRace(us), UNCHANGED from PROVE HistoryTyped'
  BY <1>3 DEF NoteRace
<1>4. ASSUME NEW b \in Browser, InviteFinish(b) PROVE HistoryTyped'
  BY <1>4, Carries DEF InviteFinish, At, Process
<1>5. ASSUME NEW b \in Browser, NEW c \in Cred, AuthFinish(b, c) PROVE HistoryTyped'
  BY <1>5, <1>2, <1>3 DEF AuthFinish
<1>6. ASSUME NEW a \in Admin, NEW u \in User, RevokeEverywhere(a, u) PROVE HistoryTyped'
  BY <1>6, <1>3 DEF RevokeEverywhere
<1>7. ASSUME NEW a \in Admin, NEW op \in {"grant", "revoke"}, NEW s \in Sub, NEW u \in User,
             AskGrant(a, op, s, u)
      PROVE HistoryTyped'
  BY <1>7, <1>2, <1>3 DEF AskGrant
<1>8. ASSUME NEW a \in Admin, NEW s \in Sub, LockAll(a, s) PROVE HistoryTyped'
  BY <1>8, <1>2, <1>3 DEF LockAll
<1>9. CASE LoseMemory
  BY <1>9 DEF LoseMemory
<1>10. CASE \/ \E t \in Token : Issue(t) \/ DeleteInvite(t) \/ Expire(t)
            \/ \E b \in Browser, t \in Token : InviteBegin(b, t)
            \/ \E b \in Browser : EnrolInvitee(b) \/ MarkConsumed(b)
  BY <1>10, <1>1 DEF Issue, DeleteInvite, Expire, InviteBegin, EnrolInvitee, MarkConsumed
<1>11. CASE \/ \E b \in Browser : AuthBegin(b) \/ LookUpOwner(b) \/ SignIn(b)
                                  \/ EndSession(b) \/ GiveUp(b)
            \/ \E b \in Browser, c \in Cred : DeleteAsk(b, c)
  BY <1>11, <1>1 DEF AuthBegin, LookUpOwner, SignIn, EndSession, GiveUp, DeleteAsk
<1>12. CASE \E b \in Browser : RegisterBegin(b) \/ RegisterFinish(b) \/ VerifyRegistration(b)
                               \/ AddDevice(b) \/ DeleteCount(b) \/ DeleteCredential(b)
  BY <1>12, <1>1 DEF RegisterBegin, RegisterFinish, VerifyRegistration, AddDevice,
                     DeleteCount, DeleteCredential
<1>13. CASE \/ \E a \in Admin : Kick(a) \/ Grant(a) \/ Revoke(a) \/ LockNext(a)
            \/ \E c \in Cred : AdminDeleteCredential(c)
            \/ \E s \in Sub : Unlock(s)
  BY <1>13, <1>1 DEF Kick, Grant, Revoke, LockNext, AdminDeleteCredential, Unlock
<1>14. ASSUME NEW a \in Admin, Erase(a) PROVE HistoryTyped'
  BY <1>14, <1>1 DEF Erase
<1>15. ASSUME NEW b \in Browser, RollBack(b) PROVE HistoryTyped'
  <2>1. {req[b].user} \in SUBSET User
    BY <1>15, Carries DEF RollBack, At, Process
  <2> QED
    BY <1>15, <2>1, <1>3 DEF RollBack
<1> QED
  BY <1>4, <1>5, <1>6, <1>7, <1>8, <1>9, <1>10, <1>11, <1>12, <1>13, <1>14, <1>15, Steps

-----------------------------------------------------------------------------
\* AccessTypeOK, for every instance.
THEOREM AccessTypes == Spec => []AccessTypeOK
<1>1. AccessTypeOK /\ [Next]_vars => AccessTypeOK'
  <2> SUFFICES ASSUME AccessTypeOK, [Next]_vars PROVE AccessTypeOK'
    OBVIOUS
  <2>1. CASE Next
    BY <2>1, StoreStep, InvitesStep, LocksStep, WorkStep, HistoryStep
       DEF AccessTypeOK, StoreTyped, InviteTyped, LockTyped, WorkTyped, HistoryTyped
  <2>2. CASE UNCHANGED vars
    BY <2>2 DEF vars, store, invitevars, lockvars, history, AccessTypeOK
  <2> QED
    BY <2>1, <2>2
<1> QED
  BY <1>1, InitTyped, PTL DEF Spec
-----------------------------------------------------------------------------
(* Passkeys and their users                                                *)

LEMMA OwnedStep ==
  AccessTypeOK /\ CredentialsOwned /\ Next => CredentialsOwned'
<1> SUFFICES ASSUME AccessTypeOK, CredentialsOwned, Next PROVE CredentialsOwned'
  OBVIOUS
<1> USE DEF CredentialsOwned
<1>0. owner \in [Cred -> User \cup {None}] /\ None \notin User
  BY AccessAssumption DEF AccessTypeOK
<1>1. ASSUME UNCHANGED store PROVE CredentialsOwned'
  BY <1>1 DEF store
\* Passkeys are added under the lock that the user is looked for under ...
<1>2. ASSUME NEW u \in User, NEW c \in Cred, NEW saved, AddCredential(u, c, saved), users' = users
      PROVE CredentialsOwned'
  BY <1>0, <1>2 DEF AddCredential, Refused
<1>3. ASSUME NEW b \in Browser, EnrolInvitee(b) PROVE CredentialsOwned'
  <2>1. req[b].user \in User
    BY <1>3, Carries DEF EnrolInvitee, At, Process, AccessTypeOK
  <2> QED
    BY <1>2, <1>3, <2>1 DEF EnrolInvitee, Offered, FreshCred
<1>4. ASSUME NEW b \in Browser, AddDevice(b) PROVE CredentialsOwned'
  <2>1. req[b].user \in User
    BY <1>4, Carries DEF AddDevice, At, Process, AccessTypeOK
  <2> QED
    BY <1>2, <1>4, <2>1 DEF AddDevice, Offered, FreshCred
\* ... and leave with it.
<1>5. ASSUME NEW u, DeleteUser(u) PROVE CredentialsOwned'
  BY <1>0, <1>1, <1>5 DEF DeleteUser
<1>6. ASSUME NEW b \in Browser, InviteFinish(b) PROVE CredentialsOwned'
  BY <1>6 DEF InviteFinish
<1>7. ASSUME NEW c \in Cred, DropCredential(c), users' = users PROVE CredentialsOwned'
  BY <1>0, <1>7 DEF DropCredential
<1>8. ASSUME NEW b \in Browser, DeleteCredential(b) PROVE CredentialsOwned'
  <2>1. req[b].on \in Cred
    BY <1>8, Carries DEF DeleteCredential, At, Process, AccessTypeOK
  <2> QED
    BY <1>7, <1>8, <2>1 DEF DeleteCredential
<1>9. CASE \/ \E t \in Token : Issue(t) \/ DeleteInvite(t) \/ Expire(t)
           \/ \E b \in Browser, t \in Token : InviteBegin(b, t)
           \/ \E b \in Browser : MarkConsumed(b)
  BY <1>9, <1>1 DEF Issue, DeleteInvite, Expire, InviteBegin, MarkConsumed
<1>10. CASE \/ \E b \in Browser : AuthBegin(b) \/ SignIn(b) \/ EndSession(b) \/ GiveUp(b)
            \/ \E b \in Browser, c \in Cred : AuthFinish(b, c) \/ DeleteAsk(b, c)
  BY <1>10, <1>1 DEF AuthBegin, SignIn, EndSession, GiveUp, AuthFinish, DeleteAsk
<1>11. CASE \E b \in Browser : RegisterBegin(b) \/ RegisterFinish(b) \/ VerifyRegistration(b)
                               \/ DeleteCount(b)
  BY <1>11, <1>1 DEF RegisterBegin, RegisterFinish, VerifyRegistration, DeleteCount
<1>12. CASE \/ \E a \in Admin, u \in User : RevokeEverywhere(a, u)
            \/ \E a \in Admin : Kick(a) \/ Grant(a) \/ Revoke(a) \/ LockNext(a)
            \/ \E a \in Admin, op \in {"grant", "revoke"}, s \in Sub, u \in User :
                 AskGrant(a, op, s, u)
  BY <1>12, <1>1 DEF RevokeEverywhere, Kick, Grant, Revoke, LockNext, AskGrant
<1>13. CASE \/ \E a \in Admin, s \in Sub : LockAll(a, s)
            \/ \E s \in Sub : Unlock(s)
  BY <1>13, <1>1 DEF LockAll, Unlock
<1>14. CASE \/ \E b \in Browser : RollBack(b)
            \/ \E a \in Admin : Erase(a)
            \/ \E c \in Cred : AdminDeleteCredential(c)
  BY <1>5, <1>7, <1>14 DEF RollBack, Erase, AdminDeleteCredential
<1>15. CASE LoseMemory
  BY <1>0, <1>15 DEF LoseMemory
<1>16. ASSUME NEW b \in Browser, LookUpOwner(b) PROVE CredentialsOwned'
  BY <1>16 DEF LookUpOwner
<1> QED
  BY <1>3, <1>4, <1>6, <1>8, <1>9, <1>10, <1>11, <1>12, <1>13, <1>14, <1>15, <1>16, Steps

\* No stored passkey outlives its user.
THEOREM PasskeysHaveUsers == Spec => []CredentialsOwned
<1>1. Init => CredentialsOwned
  BY DEF Init, CredentialsOwned
<1>2. AccessTypeOK /\ CredentialsOwned /\ [Next]_vars => CredentialsOwned'
  <2> SUFFICES ASSUME AccessTypeOK, CredentialsOwned, [Next]_vars PROVE CredentialsOwned'
    OBVIOUS
  <2>1. CASE Next
    BY <2>1, OwnedStep
  <2>2. CASE UNCHANGED vars
    BY <2>2 DEF vars, store, CredentialsOwned
  <2> QED
    BY <2>1, <2>2
<1> QED
  BY <1>1, <1>2, AccessTypes, PTL DEF Spec

-----------------------------------------------------------------------------
(* One redeemer                                                            *)

\* An invite that names a redeemer can no longer be consumed, and whoever is
\* about to be signed in by an invite is the redeemer it names.
Redemptions ==
  /\ \A t \in Token : usedBy[t] # None => invite[t] \in {"consumed", "deleted"}
  /\ \A b \in Browser : At(b, "signin") /\ req[b].on \in Token =>
       usedBy[req[b].on] = req[b].user /\ req[b].user # None

\* What one step does to an invite's redeemer.
Redeem(t) ==
  /\ usedBy[t] # None => usedBy'[t] = usedBy[t]
  /\ \A b \in Browser :
       req'[b].op = "signin" /\ req'[b].on = t => usedBy'[t] = req'[b].user

LEMMA RedemptionsStep ==
  AccessTypeOK /\ Redemptions /\ Next => Redemptions' /\ \A t \in Token : Redeem(t)
<1> SUFFICES ASSUME AccessTypeOK, Redemptions, Next
             PROVE  Redemptions' /\ \A t \in Token : Redeem(t)
  OBVIOUS
<1> USE DEF Redemptions, Redeem
<1>0. /\ req \in [Process -> Requests]
      /\ invite \in [Token -> {"unissued", "open", "expired", "consumed", "deleted"}]
      /\ usedBy \in [Token -> User \cup {None}]
      /\ None \notin User \cup Token \cup Cred \cup Sub /\ Cred \cap Token = {}
      /\ Browser \subseteq Process /\ Browser \cap Admin = {}
  BY AccessAssumption DEF AccessTypeOK, Process
\* Steps that leave the invites alone and bring no browser to "signin".
<1>1. ASSUME UNCHANGED invitevars,
             \A b \in Browser : req'[b] = req[b] \/ req'[b].op # "signin"
      PROVE  Redemptions' /\ \A t \in Token : Redeem(t)
  BY <1>0, <1>1 DEF invitevars, At
<1>2. ASSUME NEW p \in Process, NEW op, NEW u, NEW on, op # "signin",
             req' = [req EXCEPT ![p] = Request(op, u, on)]
      PROVE  \A b \in Browser : req'[b] = req[b] \/ req'[b].op # "signin"
  BY <1>0, <1>2 DEF Request
<1>3. ASSUME NEW p \in Process, Done(p)
      PROVE  \A b \in Browser : req'[b] = req[b] \/ req'[b].op # "signin"
  BY <1>2, <1>3 DEF Done, Idle
<1>4. ASSUME NEW t \in Token, Issue(t) \/ DeleteInvite(t) \/ Expire(t)
      PROVE  Redemptions' /\ \A i \in Token : Redeem(i)
  BY <1>0, <1>4 DEF Issue, DeleteInvite, Expire, At
<1>5. ASSUME NEW b \in Browser, MarkConsumed(b)
      PROVE  Redemptions' /\ \A t \in Token : Redeem(t)
  <2>1. req[b].on \in Token /\ req[b].user \in User
    BY <1>0, <1>5, Carries DEF MarkConsumed, At
  <2>2. CASE invite[req[b].on] \in {"open", "expired"}
    <3>1. usedBy[req[b].on] = None
      BY <2>1, <2>2
    <3>2. /\ invite' = [invite EXCEPT ![req[b].on] = "consumed"]
          /\ usedBy' = [usedBy EXCEPT ![req[b].on] = req[b].user]
          /\ req' = [req EXCEPT ![b] = Request("signin", req[b].user, req[b].on)]
      BY <1>5, <2>2 DEF MarkConsumed, Continue
    <3>3. req'[b] = Request("signin", req[b].user, req[b].on)
          /\ \A d \in Browser : d # b => req'[d] = req[d]
      BY <1>0, <3>2
    <3> QED
      BY <1>0, <2>1, <3>1, <3>2, <3>3 DEF At, Request
  <2>3. CASE invite[req[b].on] \notin {"open", "expired"}
    BY <1>0, <1>1, <1>3, <1>5, <2>3 DEF MarkConsumed
  <2> QED
    BY <2>2, <2>3
<1>6. ASSUME NEW b \in Browser, LookUpOwner(b)
      PROVE  Redemptions' /\ \A t \in Token : Redeem(t)
  <2>1. req[b].on \in Cred
    BY <1>0, <1>6, Carries DEF LookUpOwner, At
  <2>2. /\ req'[b].on = req[b].on
        /\ \A d \in Browser : d # b => req'[d] = req[d]
    BY <1>0, <1>6 DEF LookUpOwner, Continue, Request
  <2> QED
    BY <1>0, <1>6, <2>1, <2>2 DEF LookUpOwner, invitevars, At
<1>7. ASSUME NEW b \in Browser, NEW t \in Token, InviteBegin(b, t)
      PROVE  Redemptions' /\ \A i \in Token : Redeem(i)
  <2>1. PICK u \in FreshUser : Starts(b, "invited", u, t)
    BY <1>7 DEF InviteBegin
  <2>2. /\ req'[b].op = "invited"
        /\ \A d \in Browser : d # b => req'[d] = req[d]
    BY <1>0, <2>1 DEF Starts, Request
  <2>3. UNCHANGED invitevars
    BY <1>7 DEF InviteBegin
  <2> QED
    BY <1>0, <1>1, <1>2, <1>7, <2>2, <2>3
<1>8. ASSUME NEW b \in Browser, InviteFinish(b) \/ EnrolInvitee(b) \/ RollBack(b)
      PROVE  Redemptions' /\ \A t \in Token : Redeem(t)
  <2>1. CASE InviteFinish(b) \/ RollBack(b)
    BY <1>0, <1>1, <1>2, <1>3, <2>1 DEF InviteFinish, RollBack, Continue
  <2>2. CASE EnrolInvitee(b)
    <3>1. PICK op \in {"consume", "rollback"} : Continue(b, op, req[b].user)
      BY <2>2 DEF EnrolInvitee
    <3>2. \A d \in Browser : req'[d] = req[d] \/ req'[d].op # "signin"
      BY <1>0, <1>2, <3>1 DEF Continue
    <3> QED
      BY <1>1, <2>2, <3>2 DEF EnrolInvitee
  <2> QED
    BY <1>8, <2>1, <2>2
<1>9. ASSUME NEW b \in Browser, AuthBegin(b) \/ SignIn(b) \/ GiveUp(b)
      PROVE  Redemptions' /\ \A t \in Token : Redeem(t)
  BY <1>0, <1>1, <1>2, <1>3, <1>9 DEF AuthBegin, SignIn, GiveUp, Starts
<1>10. ASSUME NEW b \in Browser, NEW c \in Cred, AuthFinish(b, c) \/ DeleteAsk(b, c)
       PROVE  Redemptions' /\ \A t \in Token : Redeem(t)
  BY <1>0, <1>1, <1>2, <1>10 DEF AuthFinish, DeleteAsk, Starts
<1>11. ASSUME NEW b \in Browser, RegisterBegin(b) \/ RegisterFinish(b) \/ VerifyRegistration(b)
       PROVE  Redemptions' /\ \A t \in Token : Redeem(t)
  BY <1>0, <1>1, <1>2, <1>3, <1>11
     DEF RegisterBegin, RegisterFinish, VerifyRegistration, Starts, Continue
<1>12. ASSUME NEW b \in Browser, AddDevice(b) \/ DeleteCount(b) \/ DeleteCredential(b)
       PROVE  Redemptions' /\ \A t \in Token : Redeem(t)
  BY <1>0, <1>1, <1>2, <1>3, <1>12 DEF AddDevice, DeleteCount, DeleteCredential, Continue
<1>13. ASSUME NEW a \in Admin, Kick(a) \/ Erase(a) \/ Grant(a) \/ Revoke(a) \/ LockNext(a)
       PROVE  Redemptions' /\ \A t \in Token : Redeem(t)
  BY <1>0, <1>1, <1>2, <1>3, <1>13
     DEF Kick, Erase, Grant, Revoke, LockNext, Continue, Process
<1>14. ASSUME NEW a \in Admin, NEW u \in User, RevokeEverywhere(a, u)
       PROVE  Redemptions' /\ \A t \in Token : Redeem(t)
  BY <1>0, <1>1, <1>2, <1>14 DEF RevokeEverywhere, Starts, Process
<1>15. ASSUME NEW a \in Admin, NEW op \in {"grant", "revoke"}, NEW s \in Sub, NEW u \in User,
              AskGrant(a, op, s, u)
       PROVE  Redemptions' /\ \A t \in Token : Redeem(t)
  BY <1>0, <1>1, <1>2, <1>15 DEF AskGrant, Starts, Process
<1>16. ASSUME NEW a \in Admin, NEW s \in Sub, LockAll(a, s)
       PROVE  Redemptions' /\ \A t \in Token : Redeem(t)
  BY <1>0, <1>1, <1>2, <1>16 DEF LockAll, Starts, Process
<1>17. CASE \/ \E b \in Browser : EndSession(b)
            \/ \E c \in Cred : AdminDeleteCredential(c)
            \/ \E s \in Sub : Unlock(s)
  BY <1>0, <1>1, <1>17 DEF EndSession, AdminDeleteCredential, Unlock
<1>18. CASE LoseMemory
  BY <1>0, <1>1, <1>18 DEF LoseMemory, Idle, Request
<1> QED
  BY <1>4, <1>5, <1>6, <1>7, <1>8, <1>9, <1>10, <1>11, <1>12, <1>13, <1>14, <1>15, <1>16,
     <1>17, <1>18, Steps

\* An invite records one redeemer, for good, and signs nobody else in.
THEOREM OneRedeemerOnly == Spec => OneRedeemer
<1>1. Init => Redemptions
  BY DEF Init, Redemptions, At, Idle, Request, Process
<1>2. AccessTypeOK /\ Redemptions /\ [Next]_vars => Redemptions'
  <2> SUFFICES ASSUME AccessTypeOK, Redemptions, [Next]_vars PROVE Redemptions'
    OBVIOUS
  <2>1. CASE Next
    BY <2>1, RedemptionsStep
  <2>2. CASE UNCHANGED vars
    BY <2>2 DEF vars, invitevars, Redemptions, At
  <2> QED
    BY <2>1, <2>2
<1>3. AccessTypeOK /\ Redemptions /\ [Next]_vars =>
        [\A t \in Token : Redeem(t)]_vars
  BY RedemptionsStep
<1>4. Spec => [][\A t \in Token : Redeem(t)]_vars
  BY <1>1, <1>2, <1>3, AccessTypes, PTL DEF Spec
<1> QED
  BY <1>4 DEF OneRedeemer, Redeem
-----------------------------------------------------------------------------
(* What a deletion leaves                                                  *)

Made == {u \in User : from[u] # None}
Erasing == {req[a].user : a \in {x \in Admin : At(x, "erase")}}

\* Every store and request but an invited one names users that were made.
Known ==
  /\ users \subseteq Made
  /\ \A b \in Browser : session[b] \in Made \cup {None}
  /\ \A s \in Sub : allowed[s] \subseteq Made
  /\ \A a \in Admin : todo[a] \subseteq Made
  /\ \A p \in Process : ~At(p, "invited") => req[p].user \in Made \cup {None}

\* An invited user is not made yet, and is one request's alone.
Invited ==
  \A p \in Process : At(p, "invited") =>
    /\ req[p].user \notin Made
    /\ \A q \in Process : q # p => req[q].user # req[p].user

\* A passkey that was verified is its user's, or has been deleted.
StillOwned ==
  \A b \in Browser : At(b, "verified") => owner[req[b].on] \in {req[b].user, None}

\* From the revocation on nothing grants a user anything more unless the
\* deletion was raced, and from the end of the kick there is no session.
Clear ==
  \A u \in User \ raced :
    /\ u \in Gone \cup BeingDeleted => ~AddsTo(u) /\ \A s \in Sub : u \notin allowed[s]
    /\ u \in Gone \cup Erasing => \A b \in Browser : session[b] # u

Forgetting == Known /\ Invited /\ StillOwned /\ Clear

\* What one request's move does to the deletions and to the requests that add.
LEMMA Moves ==
  ASSUME NEW p \in Process, NEW r, req \in [Process -> Requests],
         req' = [req EXCEPT ![p] = r], todo' = todo
  PROVE  /\ r.op \notin {"kick", "erase"} =>
              BeingDeleted' \subseteq BeingDeleted /\ Erasing' \subseteq Erasing
         /\ \A u : AddsTo(u)' => AddsTo(u) \/ (r.op \in Adding /\ u = r.user)
<1>1. req'[p] = r /\ \A q \in Process : q # p => req'[q] = req[q]
  OBVIOUS
<1>2. Admin \subseteq Process
  BY DEF Process
<1>3. ASSUME r.op \notin {"kick", "erase"}
      PROVE  BeingDeleted' \subseteq BeingDeleted /\ Erasing' \subseteq Erasing
  BY <1>1, <1>2, <1>3 DEF BeingDeleted, Erasing, At
<1>4. ASSUME NEW u, AddsTo(u)'
      PROVE  AddsTo(u) \/ (r.op \in Adding /\ u = r.user)
  BY <1>1, <1>4 DEF AddsTo
<1> QED
  BY <1>3, <1>4

\* The four parts, for a step that only moves a request on: to a user that was
\* made, and not to add for a user that is being deleted.
LEMMA MoveKeeps ==
  ASSUME Forgetting, NEW p \in Process, NEW r, req \in [Process -> Requests],
         req' = [req EXCEPT ![p] = r],
         UNCHANGED <<users, session, allowed, todo, from>>,
         r.op # "invited", r.user \in Made \cup {None}, None \notin User
  PROVE  /\ Known' /\ Invited'
         /\ r.op # "verified" /\ UNCHANGED owner => StillOwned'
         /\ /\ r.op \notin {"kick", "erase"}
            /\ raced \subseteq raced'
            /\ \A u \in User \ raced' :
                 r.op \in Adding /\ u = r.user /\ u \in Gone \cup BeingDeleted => AddsTo(u)
            => Clear'
<1>1. req'[p] = r /\ \A q \in Process : q # p => req'[q] = req[q]
  OBVIOUS
<1>2. Made' = Made /\ Gone' = Gone
  BY DEF Made, Gone
<1>3. Known'
  BY <1>1, <1>2 DEF Forgetting, Known, At
<1>4. Invited'
  <2> SUFFICES ASSUME NEW q \in Process, At(q, "invited")'
               PROVE  /\ req'[q].user \notin Made
                      /\ \A o \in Process : o # q => req'[o].user # req'[q].user
    BY <1>2 DEF Invited
  <2>1. q # p /\ req'[q] = req[q] /\ At(q, "invited")
    BY <1>1 DEF At
  <2>2. req[q].user \notin Made
    BY <2>1 DEF Forgetting, Invited
  <2>3. req[q].user # None
    BY <2>1, Carries DEF At
  <2> QED
    BY <1>1, <2>1, <2>2, <2>3 DEF Forgetting, Invited
<1>5. ASSUME r.op # "verified", UNCHANGED owner PROVE StillOwned'
  BY <1>1, <1>5 DEF Forgetting, StillOwned, At, Process
<1>6. ASSUME r.op \notin {"kick", "erase"}, raced \subseteq raced',
             \A u \in User \ raced' :
               r.op \in Adding /\ u = r.user /\ u \in Gone \cup BeingDeleted => AddsTo(u)
      PROVE  Clear'
  <2> SUFFICES ASSUME NEW u \in User \ raced'
               PROVE  /\ u \in Gone \cup BeingDeleted' =>
                           ~AddsTo(u)' /\ \A s \in Sub : u \notin allowed'[s]
                      /\ u \in Gone \cup Erasing' => \A b \in Browser : session'[b] # u
    BY <1>2 DEF Clear
  <2>1. BeingDeleted' \subseteq BeingDeleted /\ Erasing' \subseteq Erasing
    BY <1>6, Moves
  <2>2. u \in User \ raced
    BY <1>6
  <2>3. u \in Gone \cup BeingDeleted /\ AddsTo(u)' => AddsTo(u)
    BY <1>6, Moves
  <2>4. /\ u \in Gone \cup BeingDeleted => ~AddsTo(u) /\ \A s \in Sub : u \notin allowed[s]
        /\ u \in Gone \cup Erasing => \A b \in Browser : session[b] # u
    BY <2>2 DEF Forgetting, Clear
  <2> QED
    BY <2>1, <2>3, <2>4
<1> QED
  BY <1>3, <1>4, <1>5, <1>6

\* What the steps below need of the types.
LEMMA Forms ==
  ASSUME AccessTypeOK
  PROVE  /\ req \in [Process -> Requests]
         /\ owner \in [Cred -> User \cup {None}]
         /\ session \in [Browser -> User \cup {None}]
         /\ allowed \in [Sub -> SUBSET User]
         /\ todo \in [Admin -> SUBSET User]
         /\ from \in [User -> Token \cup {None}]
         /\ None \notin User \cup Token \cup Cred
         /\ Browser \subseteq Process /\ Admin \subseteq Process /\ Browser \cap Admin = {}
BY AccessAssumption DEF AccessTypeOK, Process

\* A request that is done carries nothing.
LEMMA IdleIs == Idle.op = "idle" /\ Idle.user = None /\ Idle.on = None
BY DEF Idle, Request

\* The invited users stay apart when requests move on to users that were made.
LEMMA InvitedKeeps ==
  ASSUME AccessTypeOK, Invited, UNCHANGED from,
         \A p \in Process :
           req'[p] = req[p] \/ (~At(p, "invited")' /\ req'[p].user \in Made \cup {None})
  PROVE  Invited'
<1> SUFFICES ASSUME NEW p \in Process, At(p, "invited")'
             PROVE  /\ req'[p].user \notin Made
                    /\ \A q \in Process : q # p => req'[q].user # req'[p].user
  BY DEF Invited, Made
<1>1. req'[p] = req[p] /\ At(p, "invited")
  BY DEF At
<1>2. req[p].user \notin Made \cup {None}
  BY <1>1, Carries, Forms DEF At, Invited
<1> QED
  BY <1>1, <1>2 DEF Invited

\* Passkeys come and go: a new one was in no request's hands.
LEMMA OwnerKeeps ==
  ASSUME AccessTypeOK, StillOwned, NEW c \in Cred, NEW u,
         u = None \/ c \in FreshCred, owner' = [owner EXCEPT ![c] = u],
         \A b \in Browser : At(b, "verified")' => req'[b] = req[b]
  PROVE  StillOwned'
<1> SUFFICES ASSUME NEW b \in Browser, At(b, "verified")'
             PROVE  owner'[req'[b].on] \in {req'[b].user, None}
  BY DEF StillOwned
<1>1. req'[b] = req[b] /\ At(b, "verified")
  BY DEF At
<1>2. req[b].on \in Cred /\ owner[req[b].on] \in {req[b].user, None}
  BY <1>1, Carries, Forms DEF StillOwned, At
<1>3. c \in FreshCred => c # req[b].on
  BY Forms DEF FreshCred
<1> QED
  BY <1>1, <1>2, <1>3, Forms

LEMMA InviteeKeeps ==
  ASSUME AccessTypeOK, Forgetting, NEW b \in Browser, InviteFinish(b)
  PROVE  Forgetting'
<1> DEFINE u == req[b].user
<1> DEFINE r == Request("enrol", req[b].user, req[b].on)
<1>1. u \in User /\ req[b].on \in Token /\ u \notin Made
      /\ \A q \in Process : q # b => req[q].user # u
  BY Carries, Forms DEF InviteFinish, At, Forgetting, Invited
<1>2. /\ req' = [req EXCEPT ![b] = r]
      /\ users' = users \cup {u}
      /\ from' = [from EXCEPT ![u] = req[b].on]
      /\ UNCHANGED <<owner, session, allowed, todo, raced>>
  BY DEF InviteFinish, Continue, lockvars
<1>3. r.op = "enrol" /\ r.user = u
  BY DEF Request
<1> HIDE DEF r
<1>4. req'[b] = r /\ \A q \in Process : q # b => req'[q] = req[q]
  BY <1>2, Forms
<1>5. Made' = Made \cup {u}
  BY <1>1, <1>2, Forms DEF Made
<1>6. Gone' = Gone
  BY <1>1, <1>2, <1>5 DEF Gone, Made
<1> HIDE DEF u
<1>7. Known'
  BY <1>2, <1>3, <1>4, <1>5 DEF Forgetting, Known, At
<1>8. Invited'
  <2> SUFFICES ASSUME NEW p \in Process, At(p, "invited")'
               PROVE  /\ req'[p].user \notin Made'
                      /\ \A q \in Process : q # p => req'[q].user # req'[p].user
    BY DEF Invited
  <2>1. p # b /\ req'[p] = req[p] /\ At(p, "invited")
    BY <1>3, <1>4 DEF At
  <2>2. req[p].user \notin Made /\ \A q \in Process : q # p => req[q].user # req[p].user
    BY <2>1 DEF Forgetting, Invited
  <2> QED
    BY <1>1, <1>3, <1>4, <1>5, <2>1, <2>2
<1>9. StillOwned'
  BY <1>2, <1>3, <1>4, Forms DEF Forgetting, StillOwned, At
<1>10. Clear'
  <2> SUFFICES ASSUME NEW v \in User \ raced'
               PROVE  /\ v \in Gone \cup BeingDeleted' =>
                           ~AddsTo(v)' /\ \A s \in Sub : v \notin allowed'[s]
                      /\ v \in Gone \cup Erasing' => \A d \in Browser : session'[d] # v
    BY <1>6 DEF Clear
  <2>1. BeingDeleted' \subseteq BeingDeleted /\ Erasing' \subseteq Erasing
    BY <1>2, <1>3, Moves, Forms
  <2>2. v = u => v \notin Gone \cup BeingDeleted
    BY <1>1, Forms DEF Gone, Made, BeingDeleted
  <2>3. v = u => v \notin Erasing
    BY <1>1, Forms DEF Erasing
  <2>4. v # u => (AddsTo(v)' => AddsTo(v))
    BY <1>2, <1>3, Moves, Forms
  <2>5. /\ v \in Gone \cup BeingDeleted => ~AddsTo(v) /\ \A s \in Sub : v \notin allowed[s]
        /\ v \in Gone \cup Erasing => \A d \in Browser : session[d] # v
    BY <1>2 DEF Forgetting, Clear
  <2> QED
    BY <1>2, <2>1, <2>2, <2>3, <2>4, <2>5
<1> QED
  BY <1>7, <1>8, <1>9, <1>10 DEF Forgetting

\* An invitation: the new id is nobody's and in no request.
LEMMA InvitationKeeps ==
  ASSUME AccessTypeOK, Forgetting, NEW b \in Browser, NEW t \in Token, InviteBegin(b, t)
  PROVE  Forgetting'
<1>1. PICK u \in FreshUser : Starts(b, "invited", u, t)
  BY DEF InviteBegin
<1> DEFINE r == Request("invited", u, t)
<1>2. /\ req' = [req EXCEPT ![b] = r]
      /\ UNCHANGED <<users, owner, session, allowed, todo, from, raced>>
  BY <1>1 DEF InviteBegin, Starts, store, lockvars, history
<1>3. r.op = "invited" /\ r.user = u
  BY DEF Request
<1>4. u \in User /\ u \notin Made /\ \A q \in Process : req[q].user # u
  BY DEF FreshUser, Gone, Made, Forgetting, Known
<1> HIDE DEF r
<1>5. req'[b] = r /\ \A q \in Process : q # b => req'[q] = req[q]
  BY <1>2, Forms
<1>6. Made' = Made /\ Gone' = Gone
  BY <1>2 DEF Made, Gone
<1>7. Known'
  BY <1>2, <1>3, <1>5, <1>6 DEF Forgetting, Known, At
<1>8. Invited'
  BY <1>3, <1>4, <1>5, <1>6 DEF Forgetting, Invited, At
<1>9. StillOwned'
  BY <1>2, <1>3, <1>5, Forms DEF Forgetting, StillOwned, At
<1>10. Clear'
  <2>1. BeingDeleted' \subseteq BeingDeleted /\ Erasing' \subseteq Erasing
    BY <1>2, <1>3, Moves, Forms
  <2>2. \A v \in User : AddsTo(v)' => AddsTo(v)
    BY <1>2, <1>3, Moves, Forms DEF Adding
  <2> QED
    BY <1>2, <1>6, <2>1, <2>2 DEF Forgetting, Clear
<1> QED
  BY <1>7, <1>8, <1>9, <1>10 DEF Forgetting

\* The revocation empties the lists; whoever adds to the user meanwhile races.
LEMMA RevocationKeeps ==
  ASSUME AccessTypeOK, Forgetting, NEW a \in Admin, NEW u \in User, RevokeEverywhere(a, u)
  PROVE  Forgetting'
<1> DEFINE r == Request("kick", u, None)
<1>1. /\ req' = [req EXCEPT ![a] = r]
      /\ u \in users
      /\ allowed' = [s \in Sub |-> allowed[s] \ {u}]
      /\ raced' = raced \cup {x \in {u} : AddsTo(x)}
      /\ UNCHANGED <<users, owner, session, todo, from>>
  BY DEF RevokeEverywhere, Starts, NoteRace, store
<1>2. r.op = "kick" /\ r.user = u
  BY DEF Request
<1> HIDE DEF r
<1>3. req'[a] = r /\ \A q \in Process : q # a => req'[q] = req[q]
  BY <1>1, Forms
<1>4. Made' = Made /\ Gone' = Gone
  BY <1>1 DEF Made, Gone
<1>5. u \in Made
  BY <1>1 DEF Forgetting, Known
<1>6. Known'
  BY <1>1, <1>2, <1>3, <1>4, <1>5, Forms DEF Forgetting, Known, At
<1>7. Invited'
  BY <1>1, <1>2, <1>3, <1>5, Forms, InvitedKeeps DEF Forgetting, At
<1>8. StillOwned'
  BY <1>1, <1>2, <1>3, Forms DEF Forgetting, StillOwned, At
<1>9. Clear'
  <2> SUFFICES ASSUME NEW v \in User \ raced'
               PROVE  /\ v \in Gone \cup BeingDeleted' =>
                           ~AddsTo(v)' /\ \A s \in Sub : v \notin allowed'[s]
                      /\ v \in Gone \cup Erasing' => \A d \in Browser : session'[d] # v
    BY <1>4 DEF Clear
  <2>1. BeingDeleted' \subseteq BeingDeleted \cup {u}
    BY <1>2, <1>3, Forms DEF BeingDeleted
  <2>2. Erasing' \subseteq Erasing
    BY <1>2, <1>3, Forms DEF Erasing, At
  <2>3. AddsTo(v)' => AddsTo(v)
    BY <1>1, <1>2, Moves, Forms DEF Adding
  <2>4. v = u => ~AddsTo(v)
    BY <1>1
  <2>5. \A s \in Sub : allowed'[s] = allowed[s] \ {u}
    BY <1>1
  <2>6. /\ v \in Gone \cup BeingDeleted => ~AddsTo(v) /\ \A s \in Sub : v \notin allowed[s]
        /\ v \in Gone \cup Erasing => \A d \in Browser : session[d] # v
    BY <1>1 DEF Forgetting, Clear
  <2> QED
    BY <1>1, <2>1, <2>2, <2>3, <2>4, <2>5, <2>6
<1> QED
  BY <1>6, <1>7, <1>8, <1>9 DEF Forgetting

\* The kick leaves no session, so that the user may be erased.
LEMMA KickKeeps ==
  ASSUME AccessTypeOK, Forgetting, NEW a \in Admin, Kick(a)
  PROVE  Forgetting'
<1> DEFINE u == req[a].user
<1> DEFINE r == Request("erase", req[a].user, req[a].on)
<1>1. /\ req' = [req EXCEPT ![a] = r]
      /\ session' = [b \in Browser |-> IF session[b] = u THEN None ELSE session[b]]
      /\ UNCHANGED <<users, owner, allowed, todo, from, raced>>
  BY DEF Kick, Continue, store, lockvars, history
<1>2. r.op = "erase" /\ r.user = u
  BY DEF Request
<1>3. u \in User /\ At(a, "kick")
  BY Carries, Forms DEF Kick, At
<1>4. u \in Made
  BY <1>3, Forms DEF Forgetting, Known, At
<1> HIDE DEF r, u
<1>5. req'[a] = r /\ \A q \in Process : q # a => req'[q] = req[q]
  BY <1>1, Forms
<1>6. Made' = Made /\ Gone' = Gone
  BY <1>1 DEF Made, Gone
<1>7. Known'
  BY <1>1, <1>2, <1>4, <1>5, <1>6 DEF Forgetting, Known, At
<1>8. Invited'
  BY <1>1, <1>2, <1>4, <1>5, Forms, InvitedKeeps DEF Forgetting, At
<1>9. StillOwned'
  BY <1>1, <1>2, <1>5, Forms DEF Forgetting, StillOwned, At
<1>10. Clear'
  <2> SUFFICES ASSUME NEW v \in User \ raced'
               PROVE  /\ v \in Gone \cup BeingDeleted' =>
                           ~AddsTo(v)' /\ \A s \in Sub : v \notin allowed'[s]
                      /\ v \in Gone \cup Erasing' => \A d \in Browser : session'[d] # v
    BY <1>6 DEF Clear
  <2>1. BeingDeleted' \subseteq BeingDeleted
    BY <1>2, <1>3, <1>5, Forms DEF BeingDeleted, At, u
  <2>2. Erasing' \subseteq Erasing \cup {u}
    BY <1>2, <1>5, Forms DEF Erasing, At
  <2>3. AddsTo(v)' => AddsTo(v)
    BY <1>1, <1>2, Moves, Forms DEF Adding
  <2>4. \A d \in Browser : session'[d] # u /\ session'[d] \in {None, session[d]}
    BY <1>1, <1>3, Forms
  <2>5. /\ v \in Gone \cup BeingDeleted => ~AddsTo(v) /\ \A s \in Sub : v \notin allowed[s]
        /\ v \in Gone \cup Erasing => \A d \in Browser : session[d] # v
    BY <1>1 DEF Forgetting, Clear
  <2> QED
    BY <1>1, <2>1, <2>2, <2>3, <2>4, <2>5, Forms
<1> QED
  BY <1>7, <1>8, <1>9, <1>10 DEF Forgetting

\* A user that goes at the end of a request, its passkeys with it, was either
\* cleared of sessions and grants before or has been raced.
LEMMA DeleteKeeps ==
  ASSUME AccessTypeOK, Forgetting, NEW p \in Process, NEW u \in User,
         DeleteUser(u), Done(p),
         UNCHANGED <<session, allowed, todo, from>>,
         raced \subseteq raced',
         u \in Erasing \cup raced'
  PROVE  Forgetting'
<1>1. /\ req' = [req EXCEPT ![p] = Idle]
      /\ users' \subseteq users /\ users \subseteq users' \cup {u}
      /\ \A c \in Cred : owner'[c] \in {owner[c], None}
  BY Forms DEF DeleteUser, Done, store
<1>2. Erasing \subseteq BeingDeleted
  BY DEF Erasing, BeingDeleted, At
<1>3. req'[p] = Idle /\ \A q \in Process : q # p => req'[q] = req[q]
  BY <1>1, Forms
<1>4. Made' = Made /\ Gone' \subseteq Gone \cup {u}
  BY <1>1 DEF Made, Gone
<1>5. Known'
  BY <1>1, <1>3, <1>4, IdleIs DEF Forgetting, Known, At
<1>6. Invited'
  BY <1>1, <1>3, IdleIs, Forms, InvitedKeeps DEF Forgetting, At
<1>7. StillOwned'
  <2> SUFFICES ASSUME NEW b \in Browser, At(b, "verified")'
               PROVE  owner'[req'[b].on] \in {req'[b].user, None}
    BY DEF StillOwned
  <2>1. req'[b] = req[b] /\ At(b, "verified")
    BY <1>3, IdleIs, Forms DEF At
  <2>2. req[b].on \in Cred
    BY <2>1, Carries, Forms DEF At
  <2> QED
    BY <1>1, <2>1, <2>2 DEF Forgetting, StillOwned
<1>8. Clear'
  <2> SUFFICES ASSUME NEW v \in User \ raced'
               PROVE  /\ v \in Gone' \cup BeingDeleted' =>
                           ~AddsTo(v)' /\ \A s \in Sub : v \notin allowed'[s]
                      /\ v \in Gone' \cup Erasing' => \A d \in Browser : session'[d] # v
    BY DEF Clear
  <2>1. BeingDeleted' \subseteq BeingDeleted /\ Erasing' \subseteq Erasing
    BY <1>1, IdleIs, Moves, Forms
  <2>2. AddsTo(v)' => AddsTo(v)
    BY <1>1, IdleIs, Moves, Forms DEF Adding
  <2>3. v \in Gone' => v \in Gone \cup Erasing
    BY <1>4
  <2>4. /\ v \in Gone \cup BeingDeleted => ~AddsTo(v) /\ \A s \in Sub : v \notin allowed[s]
        /\ v \in Gone \cup Erasing => \A d \in Browser : session[d] # v
    BY DEF Forgetting, Clear
  <2> QED
    BY <1>2, <2>1, <2>2, <2>3, <2>4
<1> QED
  BY <1>5, <1>6, <1>7, <1>8 DEF Forgetting

\* What was clear of the user while it was erased stays clear when it is gone.
LEMMA EraseKeeps ==
  ASSUME AccessTypeOK, Forgetting, NEW a \in Admin, Erase(a)
  PROVE  Forgetting'
<1>1. req[a].user \in User /\ req[a].user \in Erasing /\ a \in Process
  BY Carries, Forms DEF Erase, At, Erasing
<1>2. /\ DeleteUser(req[a].user) /\ Done(a)
      /\ UNCHANGED <<session, allowed, todo, from, raced>>
  BY DEF Erase, lockvars, history
<1> QED
  BY <1>1, <1>2, DeleteKeeps

\* A roll-back clears nothing: its user counts as raced.
LEMMA RollBackKeeps ==
  ASSUME AccessTypeOK, Forgetting, NEW b \in Browser, RollBack(b)
  PROVE  Forgetting'
<1>1. req[b].user \in User /\ b \in Process
  BY Carries, Forms DEF RollBack, At
<1>2. /\ DeleteUser(req[b].user) /\ Done(b)
      /\ UNCHANGED <<session, allowed, todo, from>>
      /\ raced' = raced \cup {req[b].user}
  BY DEF RollBack, NoteRace, lockvars
<1> QED
  BY <1>1, <1>2, DeleteKeeps

\* A restart ends every request and session and leaves the lists.
LEMMA RestartKeeps ==
  ASSUME AccessTypeOK, Forgetting, LoseMemory
  PROVE  Forgetting'
<1>1. /\ session' = [b \in Browser |-> None]
      /\ req' = [p \in Process |-> Idle]
      /\ todo' = [a \in Admin |-> {}]
      /\ raced' = raced \cap Gone
      /\ UNCHANGED <<users, allowed, from>>
  BY DEF LoseMemory, lockvars
<1>2. Made' = Made /\ Gone' = Gone
  BY <1>1 DEF Made, Gone
<1>3. Known' /\ Invited' /\ StillOwned'
  BY <1>1, <1>2, IdleIs, Forms DEF Forgetting, Known, Invited, StillOwned, At
<1>4. Clear'
  <2> SUFFICES ASSUME NEW u \in User \ raced'
               PROVE  /\ u \in Gone \cup BeingDeleted' =>
                           ~AddsTo(u)' /\ \A s \in Sub : u \notin allowed'[s]
                      /\ u \in Gone \cup Erasing' => \A b \in Browser : session'[b] # u
    BY <1>2 DEF Clear
  <2>1. BeingDeleted' = {} /\ Erasing' = {}
    BY <1>1, IdleIs, Forms DEF BeingDeleted, Erasing, At
  <2>2. ~AddsTo(u)'
    BY <1>1, IdleIs, Forms DEF AddsTo, Adding
  <2>3. u \in Gone => \A s \in Sub : u \notin allowed[s]
    BY <1>1 DEF Forgetting, Clear
  <2> QED
    BY <1>1, <2>1, <2>2, <2>3, Forms
<1> QED
  BY <1>3, <1>4 DEF Forgetting

\* Steps that move no request: nothing is granted, nobody deleted.
LEMMA StillKeeps ==
  ASSUME AccessTypeOK, Forgetting,
         UNCHANGED <<users, req, todo, from, raced>>,
         \/ UNCHANGED owner
         \/ \E c \in Cred : owner' = [owner EXCEPT ![c] = None],
         \A b \in Browser : session'[b] \in {session[b], None},
         \A s \in Sub : allowed'[s] \subseteq allowed[s]
  PROVE  Forgetting'
<1>1. Made' = Made /\ Gone' = Gone /\ BeingDeleted' = BeingDeleted /\ Erasing' = Erasing
      /\ \A u : AddsTo(u)' = AddsTo(u)
  BY DEF Made, Gone, BeingDeleted, Erasing, AddsTo, At
<1>2. Known'
  BY <1>1, Forms DEF Forgetting, Known, At
<1>3. Invited'
  BY <1>1 DEF Forgetting, Invited, At
<1>4. StillOwned'
  <2>1. CASE UNCHANGED owner
    BY <2>1 DEF Forgetting, StillOwned, At
  <2>2. ASSUME NEW c \in Cred, owner' = [owner EXCEPT ![c] = None] PROVE StillOwned'
    BY <2>2, OwnerKeeps DEF Forgetting
  <2> QED
    BY <2>1, <2>2
<1>5. Clear'
  BY <1>1, Forms DEF Forgetting, Clear
<1> QED
  BY <1>2, <1>3, <1>4, <1>5 DEF Forgetting

\* A grant is of a user that is not being deleted, or the deletion was raced.
LEMMA AllowKeeps ==
  ASSUME AccessTypeOK, Forgetting, NEW a \in Admin, NEW s \in Sub, NEW u \in User,
         Allow(s, u), u \in Made, AddsTo(u),
         UNCHANGED <<users, owner, session, from, raced>>,
         \/ req' = [req EXCEPT ![a] = Idle] /\ UNCHANGED todo
         \/ UNCHANGED req /\ todo' = [todo EXCEPT ![a] = @ \ {u}]
  PROVE  Forgetting'
<1>1. Made' = Made /\ Gone' = Gone
  BY DEF Made, Gone
<1>2. \A p \in Process : req'[p] = req[p] \/ req'[p] = Idle
  BY Forms
<1>3. \A x \in Admin : todo'[x] \subseteq todo[x]
  BY Forms
<1>4. \A i \in Sub : allowed'[i] \subseteq allowed[i] \cup {u}
  BY Forms DEF Allow
<1>5. Known'
  BY <1>1, <1>2, <1>3, <1>4, IdleIs, Forms DEF Forgetting, Known, At
<1>6. Invited'
  BY <1>2, IdleIs, Forms, InvitedKeeps DEF Forgetting, At
<1>7. StillOwned'
  BY <1>2, IdleIs, Forms DEF Forgetting, StillOwned, At
<1>8. Clear'
  <2> SUFFICES ASSUME NEW v \in User \ raced'
               PROVE  /\ v \in Gone \cup BeingDeleted' =>
                           ~AddsTo(v)' /\ \A i \in Sub : v \notin allowed'[i]
                      /\ v \in Gone \cup Erasing' => \A d \in Browser : session'[d] # v
    BY <1>1 DEF Clear
  <2>1. BeingDeleted' \subseteq BeingDeleted /\ Erasing' \subseteq Erasing
    BY <1>2, IdleIs, Forms DEF BeingDeleted, Erasing, At
  <2>2. AddsTo(v)' => AddsTo(v)
    BY <1>2, <1>3, IdleIs, Forms DEF AddsTo, Adding
  <2>3. /\ v \in Gone \cup BeingDeleted => ~AddsTo(v) /\ \A i \in Sub : v \notin allowed[i]
        /\ v \in Gone \cup Erasing => \A d \in Browser : session[d] # v
    BY DEF Forgetting, Clear
  <2> QED
    BY <1>4, <2>1, <2>2, <2>3
<1> QED
  BY <1>5, <1>6, <1>7, <1>8 DEF Forgetting

\* Locking for everyone: whoever is on the way out has been raced.
LEMMA LockAllKeeps ==
  ASSUME AccessTypeOK, Forgetting, NEW a \in Admin, NEW s \in Sub, LockAll(a, s)
  PROVE  Forgetting'
<1> DEFINE r == Request("lock", None, s)
<1>1. /\ req' = [req EXCEPT ![a] = r]
      /\ todo' = [todo EXCEPT ![a] = users]
      /\ raced' = raced \cup (users \cap BeingDeleted)
      /\ UNCHANGED <<users, owner, session, allowed, from>>
  BY DEF LockAll, Starts, NoteRace, store, lockvars
<1>2. r.op = "lock" /\ r.user = None
  BY DEF Request
<1> HIDE DEF r
<1>3. req'[a] = r /\ \A q \in Process : q # a => req'[q] = req[q]
  BY <1>1, Forms
<1>4. Made' = Made /\ Gone' = Gone
  BY <1>1 DEF Made, Gone
<1>5. Known'
  BY <1>1, <1>2, <1>3, <1>4, Forms DEF Forgetting, Known, At
<1>6. Invited'
  BY <1>1, <1>2, <1>3, Forms, InvitedKeeps DEF Forgetting, At
<1>7. StillOwned'
  BY <1>1, <1>2, <1>3, Forms DEF Forgetting, StillOwned, At
<1>8. Clear'
  <2> SUFFICES ASSUME NEW v \in User \ raced'
               PROVE  /\ v \in Gone \cup BeingDeleted' =>
                           ~AddsTo(v)' /\ \A i \in Sub : v \notin allowed'[i]
                      /\ v \in Gone \cup Erasing' => \A d \in Browser : session'[d] # v
    BY <1>4 DEF Clear
  <2>1. BeingDeleted' \subseteq BeingDeleted /\ Erasing' \subseteq Erasing
    BY <1>2, <1>3, Forms DEF BeingDeleted, Erasing, At
  <2>2. AddsTo(v)' => AddsTo(v) \/ v \in users
    BY <1>1, <1>2, <1>3, Forms DEF AddsTo, Adding
  <2>3. v \in users => v \notin Gone \cup BeingDeleted
    BY <1>1 DEF Gone
  <2>4. /\ v \in Gone \cup BeingDeleted => ~AddsTo(v) /\ \A i \in Sub : v \notin allowed[i]
        /\ v \in Gone \cup Erasing => \A d \in Browser : session[d] # v
    BY <1>1 DEF Forgetting, Clear
  <2> QED
    BY <1>1, <2>1, <2>2, <2>3, <2>4
<1> QED
  BY <1>5, <1>6, <1>7, <1>8 DEF Forgetting

\* A session is signed into by a request that adds for its user.
LEMMA SignInKeeps ==
  ASSUME AccessTypeOK, Forgetting, NEW b \in Browser, SignIn(b)
  PROVE  Forgetting'
<1> DEFINE u == req[b].user
<1>1. /\ req' = [req EXCEPT ![b] = Idle]
      /\ session' = [session EXCEPT ![b] = u]
      /\ UNCHANGED <<users, owner, allowed, todo, from, raced>>
  BY DEF SignIn, Done, store, lockvars, history
<1>2. AddsTo(u) /\ u \in Made \cup {None}
  BY Forms DEF SignIn, At, AddsTo, Adding, Forgetting, Known
<1> HIDE DEF u
<1>3. req'[b] = Idle /\ \A q \in Process : q # b => req'[q] = req[q]
  BY <1>1, Forms
<1>4. Made' = Made /\ Gone' = Gone
  BY <1>1 DEF Made, Gone
<1>5. Known'
  BY <1>1, <1>2, <1>3, <1>4, IdleIs, Forms DEF Forgetting, Known, At
<1>6. Invited'
  BY <1>1, <1>3, IdleIs, Forms, InvitedKeeps DEF Forgetting, At
<1>7. StillOwned'
  BY <1>1, <1>3, IdleIs, Forms DEF Forgetting, StillOwned, At
<1>8. Clear'
  <2> SUFFICES ASSUME NEW v \in User \ raced'
               PROVE  /\ v \in Gone \cup BeingDeleted' =>
                           ~AddsTo(v)' /\ \A s \in Sub : v \notin allowed'[s]
                      /\ v \in Gone \cup Erasing' => \A d \in Browser : session'[d] # v
    BY <1>4 DEF Clear
  <2>1. BeingDeleted' \subseteq BeingDeleted /\ Erasing' \subseteq Erasing
    BY <1>1, IdleIs, Moves, Forms
  <2>2. AddsTo(v)' => AddsTo(v)
    BY <1>1, IdleIs, Moves, Forms DEF Adding
  <2>3. Erasing \subseteq BeingDeleted
    BY DEF Erasing, BeingDeleted, At
  <2>4. \A d \in Browser : session'[d] = v => session[d] = v \/ v = u
    BY <1>1, Forms
  <2>5. /\ v \in Gone \cup BeingDeleted => ~AddsTo(v) /\ \A s \in Sub : v \notin allowed[s]
        /\ v \in Gone \cup Erasing => \A d \in Browser : session[d] # v
    BY <1>1 DEF Forgetting, Clear
  <2> QED
    BY <1>1, <1>2, <2>1, <2>2, <2>3, <2>4, <2>5
<1> QED
  BY <1>5, <1>6, <1>7, <1>8 DEF Forgetting

\* A list that loses somebody.
LEMMA RevokeKeeps ==
  ASSUME AccessTypeOK, Forgetting, NEW a \in Process, req' = [req EXCEPT ![a] = Idle],
         UNCHANGED <<users, owner, session, todo, from, raced>>,
         \A s \in Sub : allowed'[s] \subseteq allowed[s]
  PROVE  Forgetting'
<1>1. \A p \in Process : req'[p] = req[p] \/ req'[p] = Idle
  BY Forms
<1>2. Made' = Made /\ Gone' = Gone
  BY DEF Made, Gone
<1>3. Known'
  BY <1>1, <1>2, IdleIs, Forms DEF Forgetting, Known, At
<1>4. Invited'
  BY <1>1, IdleIs, Forms, InvitedKeeps DEF Forgetting, At
<1>5. StillOwned'
  BY <1>1, IdleIs, Forms DEF Forgetting, StillOwned, At
<1>6. Clear'
  <2>1. BeingDeleted' \subseteq BeingDeleted /\ Erasing' \subseteq Erasing
    BY IdleIs, Moves, Forms
  <2>2. \A u \in User : AddsTo(u)' => AddsTo(u)
    BY IdleIs, Moves, Forms DEF Adding
  <2> QED
    BY <1>2, <2>1, <2>2 DEF Forgetting, Clear
<1> QED
  BY <1>3, <1>4, <1>5, <1>6 DEF Forgetting

\* A move to a request that adds for nobody, or for the user it added for.
LEMMA PlainMove ==
  ASSUME AccessTypeOK, Forgetting, NEW p \in Process, NEW r,
         req' = [req EXCEPT ![p] = r],
         UNCHANGED <<users, session, allowed, todo, from, raced>>,
         r.op \notin {"invited", "verified", "kick", "erase"}, r.user \in Made \cup {None},
         r.op \in Adding /\ r.user # None => AddsTo(r.user),
         \/ UNCHANGED owner
         \/ \E c \in Cred, u \in User \cup {None} :
              owner' = [owner EXCEPT ![c] = u] /\ (u = None \/ c \in FreshCred)
  PROVE  Forgetting'
<1>1. req'[p] = r /\ \A q \in Process : q # p => req'[q] = req[q]
  BY Forms
<1>2. Known' /\ Invited' /\ Clear'
  <2>1. \A u \in User : r.op \in Adding /\ u = r.user => AddsTo(u)
    BY Forms
  <2>2. raced \subseteq raced' /\ User \ raced' \subseteq User
    OBVIOUS
  <2> QED
    BY <2>1, <2>2, MoveKeeps, Forms
<1>3. \A b \in Browser : At(b, "verified")' => req'[b] = req[b]
  BY <1>1, Forms DEF At
<1>4. StillOwned'
  <2>1. CASE UNCHANGED owner
    BY <1>3, <2>1 DEF Forgetting, StillOwned, At
  <2>2. ASSUME NEW c \in Cred, NEW u \in User \cup {None},
               owner' = [owner EXCEPT ![c] = u] /\ (u = None \/ c \in FreshCred)
        PROVE  StillOwned'
    BY <1>3, <2>2, OwnerKeeps DEF Forgetting
  <2> QED
    BY <2>1, <2>2
<1> QED
  BY <1>2, <1>4 DEF Forgetting

\* The end of a request, whatever it did to the passkeys.
LEMMA EndMove ==
  ASSUME AccessTypeOK, Forgetting, NEW p \in Process, Done(p),
         UNCHANGED <<users, session, allowed, todo, from, raced>>,
         \/ UNCHANGED owner
         \/ \E c \in Cred, u \in User \cup {None} :
              owner' = [owner EXCEPT ![c] = u] /\ (u = None \/ c \in FreshCred)
  PROVE  Forgetting'
BY PlainMove, IdleIs DEF Done, Adding

\* What AddCredential does to the passkeys: at most one new one is stored.
LEMMA Added ==
  ASSUME AccessTypeOK, NEW u \in User, NEW c \in Offered, NEW saved, AddCredential(u, c, saved)
  PROVE  \/ UNCHANGED owner
         \/ \E k \in Cred, v \in User \cup {None} :
              owner' = [owner EXCEPT ![k] = v] /\ (v = None \/ k \in FreshCred)
BY DEF AddCredential, Refused, Offered, FreshCred

LEMMA EnrolKeeps ==
  ASSUME AccessTypeOK, Forgetting, NEW b \in Browser, EnrolInvitee(b)
  PROVE  Forgetting'
<1>1. req[b].user \in User /\ AddsTo(req[b].user) /\ b \in Process
  BY Carries, Forms DEF EnrolInvitee, At, AddsTo, Adding
<1>2. req[b].user \in Made
  BY <1>1, Forms DEF EnrolInvitee, At, Forgetting, Known
<1>3. UNCHANGED <<users, session, allowed, todo, from, raced>>
  BY DEF EnrolInvitee, lockvars, history
<1>4. PICK c \in Offered, saved \in BOOLEAN :
        /\ AddCredential(req[b].user, c, saved)
        /\ \E op \in {"consume", "rollback"} : Continue(b, op, req[b].user)
  BY DEF EnrolInvitee
<1>5. PICK op \in {"consume", "rollback"} : Continue(b, op, req[b].user)
  BY <1>4
<1>6. \/ UNCHANGED owner
      \/ \E k \in Cred, v \in User \cup {None} :
           owner' = [owner EXCEPT ![k] = v] /\ (v = None \/ k \in FreshCred)
  BY <1>1, <1>4, Added
<1> DEFINE r == Request(op, req[b].user, req[b].on)
<1>7. /\ req' = [req EXCEPT ![b] = r]
      /\ r.op \in {"consume", "rollback"} /\ r.user = req[b].user
  BY <1>5 DEF Continue, Request
<1> HIDE DEF r
<1> QED
  BY <1>1, <1>2, <1>3, <1>6, <1>7, PlainMove

LEMMA ConsumeKeeps ==
  ASSUME AccessTypeOK, Forgetting, NEW b \in Browser, MarkConsumed(b)
  PROVE  Forgetting'
<1>1. req[b].user \in User /\ AddsTo(req[b].user) /\ b \in Process
  BY Carries, Forms DEF MarkConsumed, At, AddsTo, Adding
<1>2. req[b].user \in Made
  BY <1>1, Forms DEF MarkConsumed, At, Forgetting, Known
<1>3. UNCHANGED <<users, owner, session, allowed, todo, from, raced>>
  BY DEF MarkConsumed, store, lockvars, history
<1>4. CASE Done(b)
  BY <1>1, <1>3, <1>4, EndMove
<1>5. CASE Continue(b, "signin", req[b].user)
  <2> DEFINE r == Request("signin", req[b].user, req[b].on)
  <2>1. /\ req' = [req EXCEPT ![b] = r]
        /\ r.op = "signin" /\ r.user = req[b].user
    BY <1>5 DEF Continue, Request
  <2> HIDE DEF r
  <2> QED
    BY <1>1, <1>2, <1>3, <2>1, PlainMove
<1> QED
  BY <1>4, <1>5 DEF MarkConsumed

\* The second look at the passkey finds the same user or none.
LEMMA LookUpKeeps ==
  ASSUME AccessTypeOK, Forgetting, NEW b \in Browser, LookUpOwner(b)
  PROVE  Forgetting'
<1>1. req[b].user \in User /\ AddsTo(req[b].user) /\ b \in Process
  BY Carries, Forms DEF LookUpOwner, At, AddsTo, Adding
<1>2. req[b].user \in Made /\ owner[req[b].on] \in {req[b].user, None}
  BY <1>1, Forms DEF LookUpOwner, At, Forgetting, Known, StillOwned
<1>3. UNCHANGED <<users, owner, session, allowed, todo, from, raced>>
  BY DEF LookUpOwner, lockvars, history
<1> DEFINE r == Request("signin", owner[req[b].on], req[b].on)
<1>4. /\ req' = [req EXCEPT ![b] = r]
      /\ r.op = "signin" /\ r.user = owner[req[b].on]
  BY DEF LookUpOwner, Continue, Request
<1> HIDE DEF r
<1> QED
  BY <1>1, <1>2, <1>3, <1>4, PlainMove

\* A login verified while its user is on the way out is a race.
LEMMA LoginKeeps ==
  ASSUME AccessTypeOK, CredentialsOwned, Forgetting,
         NEW b \in Browser, NEW c \in Cred, AuthFinish(b, c)
  PROVE  Forgetting'
<1>1. owner[c] \in users /\ owner[c] \in Made /\ owner[c] \notin Gone /\ b \in Process
  BY Forms DEF AuthFinish, Forgetting, Known, Gone
<1>2. /\ UNCHANGED <<users, owner, session, allowed, todo, from>>
      /\ raced' = raced \cup ({owner[c]} \cap BeingDeleted)
  BY DEF AuthFinish, NoteRace, store, lockvars
<1> DEFINE r == Request("verified", owner[c], c)
<1>3. /\ req' = [req EXCEPT ![b] = r]
      /\ r.op = "verified" /\ r.user = owner[c] /\ r.on = c
  BY DEF AuthFinish, Request
<1> HIDE DEF r
<1>4. Known' /\ Invited' /\ Clear'
  BY <1>1, <1>2, <1>3, MoveKeeps, Forms
<1>5. StillOwned'
  BY <1>2, <1>3, Forms DEF Forgetting, StillOwned, At
<1> QED
  BY <1>4, <1>5 DEF Forgetting

\* A grant asked for while its user is on the way out is a race.
LEMMA AskKeeps ==
  ASSUME AccessTypeOK, Forgetting, NEW a \in Admin, NEW op \in {"grant", "revoke"},
         NEW s \in Sub, NEW u \in User, AskGrant(a, op, s, u)
  PROVE  Forgetting'
<1>1. u \in users /\ u \in Made /\ u \notin Gone /\ a \in Process
  BY Forms DEF AskGrant, Forgetting, Known, Gone
<1>2. /\ UNCHANGED <<users, owner, session, allowed, todo, from>>
      /\ raced' = raced \cup ({x \in {u} : op = "grant"} \cap BeingDeleted)
  BY DEF AskGrant, NoteRace, store, lockvars
<1> DEFINE r == Request(op, u, s)
<1>3. /\ req' = [req EXCEPT ![a] = r]
      /\ r.op = op /\ r.user = u
  BY DEF AskGrant, Starts, Request
<1> HIDE DEF r
<1>4. r.op = "grant" /\ u \in BeingDeleted => u \in raced'
  BY <1>2, <1>3
<1> QED
  BY <1>1, <1>2, <1>3, <1>4, MoveKeeps, Forms DEF Forgetting, Adding

\* The other moves of a browser add for nobody.
LEMMA OthersKeep ==
  ASSUME AccessTypeOK, Forgetting, NEW b \in Browser,
         \/ AuthBegin(b) \/ GiveUp(b) \/ RegisterBegin(b) \/ RegisterFinish(b)
         \/ VerifyRegistration(b) \/ AddDevice(b)
         \/ \E c \in Cred : DeleteAsk(b, c)
         \/ DeleteCount(b) \/ DeleteCredential(b)
  PROVE  Forgetting'
<1>0. b \in Process
  BY Forms
<1>1. ASSUME Done(b), UNCHANGED <<users, owner, session, allowed, todo, from, raced>>
      PROVE  Forgetting'
  BY <1>0, <1>1, EndMove
<1>2. ASSUME NEW op \in {"login", "challenge", "register", "add", "count", "delete"},
             NEW u \in Made \cup {None}, NEW on,
             req' = [req EXCEPT ![b] = Request(op, u, on)],
             UNCHANGED <<users, owner, session, allowed, todo, from, raced>>
      PROVE  Forgetting'
  <2> DEFINE r == Request(op, u, on)
  <2>1. req' = [req EXCEPT ![b] = r] /\ r.op = op /\ r.user = u
    BY <1>2 DEF Request
  <2> HIDE DEF r
  <2>2. r.op \notin Adding \cup {"invited", "verified", "kick", "erase"}
    BY <2>1 DEF Adding
  <2> QED
    BY <1>0, <1>2, <2>1, <2>2, PlainMove
<1>3. users \subseteq Made /\ \A d \in Browser : session[d] \in users => session[d] \in Made
  BY DEF Forgetting, Known
<1>4. CASE AuthBegin(b)
  BY <1>2, <1>4 DEF AuthBegin, Starts, store, lockvars, history
<1>5. CASE GiveUp(b)
  BY <1>1, <1>5 DEF GiveUp, store, lockvars, history
<1>6. CASE RegisterBegin(b)
  BY <1>2, <1>3, <1>6 DEF RegisterBegin, Starts, store, lockvars, history
<1>7. CASE RegisterFinish(b)
  BY <1>2, <1>3, <1>7 DEF RegisterFinish, Continue, store, lockvars, history
<1>8. CASE VerifyRegistration(b)
  BY <1>1, <1>2, <1>3, <1>8 DEF VerifyRegistration, Continue, store, lockvars, history
<1>9. CASE AddDevice(b)
  <2>1. req[b].user \in User
    BY <1>0, <1>9, Carries, Forms DEF AddDevice, At
  <2>2. PICK c \in Offered, saved \in BOOLEAN : AddCredential(req[b].user, c, saved)
    BY <1>9 DEF AddDevice
  <2>3. Done(b) /\ UNCHANGED <<users, session, allowed, todo, from, raced>>
    BY <1>9 DEF AddDevice, lockvars, history
  <2>4. \/ UNCHANGED owner
        \/ \E k \in Cred, u \in User \cup {None} :
             owner' = [owner EXCEPT ![k] = u] /\ (u = None \/ k \in FreshCred)
    BY <2>1, <2>2, Added
  <2> QED
    BY <1>0, <2>3, <2>4, EndMove
<1>10. ASSUME NEW c \in Cred, DeleteAsk(b, c) PROVE Forgetting'
  BY <1>2, <1>3, <1>10 DEF DeleteAsk, Starts, store, lockvars, history
<1>11. CASE DeleteCount(b)
  <2>1. req[b].user \in Made \cup {None}
    BY <1>0, <1>11 DEF DeleteCount, At, Forgetting, Known
  <2> QED
    BY <1>1, <1>2, <1>11, <2>1 DEF DeleteCount, Continue, store, lockvars, history
<1>12. CASE DeleteCredential(b)
  <2>1. req[b].on \in Cred
    BY <1>0, <1>12, Carries, Forms DEF DeleteCredential, At
  <2>2. /\ Done(b)
        /\ owner' = [owner EXCEPT ![req[b].on] = None] \/ UNCHANGED owner
        /\ UNCHANGED <<users, session, allowed, todo, from, raced>>
    BY <1>12 DEF DeleteCredential, DropCredential, lockvars, history
  <2> QED
    BY <1>0, <2>1, <2>2, EndMove
<1> QED
  BY <1>4, <1>5, <1>6, <1>7, <1>8, <1>9, <1>10, <1>11, <1>12

LEMMA ForgettingStep ==
  AccessTypeOK /\ CredentialsOwned /\ Forgetting /\ Next => Forgetting'
<1> SUFFICES ASSUME AccessTypeOK, CredentialsOwned, Forgetting, Next PROVE Forgetting'
  OBVIOUS
<1>1. CASE \E t \in Token : Issue(t) \/ DeleteInvite(t) \/ Expire(t)
  BY <1>1, StillKeeps DEF Issue, DeleteInvite, Expire, store, lockvars, history
<1>2. CASE \E b \in Browser, t \in Token : InviteBegin(b, t)
  BY <1>2, InvitationKeeps
<1>3. CASE \E b \in Browser : InviteFinish(b) \/ EnrolInvitee(b) \/ RollBack(b) \/ MarkConsumed(b)
  BY <1>3, InviteeKeeps, EnrolKeeps, RollBackKeeps, ConsumeKeeps
<1>4. ASSUME NEW b \in Browser, EndSession(b) PROVE Forgetting'
  <2>1. session' = [session EXCEPT ![b] = None]
        /\ UNCHANGED <<users, owner, req, allowed, todo, from, raced>>
    BY <1>4 DEF EndSession, store, lockvars, history
  <2>2. \A d \in Browser : session'[d] \in {session[d], None}
    BY <2>1, Forms
  <2> QED
    BY <2>1, <2>2, StillKeeps
<1>5. CASE \E b \in Browser : LookUpOwner(b) \/ SignIn(b)
  BY <1>5, LookUpKeeps, SignInKeeps
<1>6. CASE \/ \E b \in Browser : \/ AuthBegin(b) \/ GiveUp(b) \/ RegisterBegin(b)
                                 \/ RegisterFinish(b) \/ VerifyRegistration(b) \/ AddDevice(b)
                                 \/ DeleteCount(b) \/ DeleteCredential(b)
           \/ \E b \in Browser, c \in Cred : DeleteAsk(b, c)
  BY <1>6, OthersKeep
<1>7. CASE \E b \in Browser, c \in Cred : AuthFinish(b, c)
  BY <1>7, LoginKeeps
<1>8. CASE \E a \in Admin, u \in User : RevokeEverywhere(a, u)
  BY <1>8, RevocationKeeps
<1>9. CASE \E a \in Admin : Kick(a) \/ Erase(a)
  BY <1>9, KickKeeps, EraseKeeps
<1>10. ASSUME NEW a \in Admin, Grant(a) PROVE Forgetting'
  <2>1. req[a].user \in User /\ req[a].on \in Sub /\ AddsTo(req[a].user)
    BY <1>10, Carries, Forms DEF Grant, At, AddsTo, Adding
  <2>2. req[a].user \in Made
    BY <1>10, <2>1, Forms DEF Grant, At, Forgetting, Known
  <2> QED
    BY <1>10, <2>1, <2>2, AllowKeeps DEF Grant, Done, store, history
<1>11. ASSUME NEW a \in Admin, Revoke(a) PROVE Forgetting'
  <2>1. req[a].on \in Sub /\ a \in Process
    BY <1>11, Carries, Forms DEF Revoke, At
  <2>2. \A s \in Sub : allowed'[s] \subseteq allowed[s]
    BY <1>11, <2>1, Forms DEF Revoke, lockvars
  <2>3. /\ req' = [req EXCEPT ![a] = Idle]
        /\ UNCHANGED <<users, owner, session, todo, from, raced>>
    BY <1>11 DEF Revoke, Done, store, history
  <2> QED
    BY <2>1, <2>2, <2>3, RevokeKeeps
<1>12. ASSUME NEW a \in Admin, LockNext(a) PROVE Forgetting'
  <2>1. req[a].on \in Sub /\ a \in Process
    BY <1>12, Carries, Forms DEF LockNext, At
  <2>2. UNCHANGED <<users, owner, session, from, raced>>
    BY <1>12 DEF LockNext, store, history
  <2>3. ASSUME NEW u \in todo[a], Allow(req[a].on, u), todo' = [todo EXCEPT ![a] = @ \ {u}],
               UNCHANGED req
        PROVE  Forgetting'
    <3>1. u \in User /\ u \in Made /\ AddsTo(u)
      BY Forms DEF Forgetting, Known, AddsTo
    <3> QED
      BY <2>1, <2>2, <2>3, <3>1, AllowKeeps
  <2>4. CASE Done(a) /\ UNCHANGED <<lockvars, todo>>
    BY <2>1, <2>2, <2>4, EndMove DEF lockvars
  <2> QED
    BY <1>12, <2>3, <2>4 DEF LockNext
<1>13. CASE \E a \in Admin, op \in {"grant", "revoke"}, s \in Sub, u \in User :
              AskGrant(a, op, s, u)
  BY <1>13, AskKeeps
<1>14. CASE \E a \in Admin, s \in Sub : LockAll(a, s)
  BY <1>14, LockAllKeeps
<1>15. ASSUME NEW c \in Cred, AdminDeleteCredential(c) PROVE Forgetting'
  BY <1>15, StillKeeps DEF AdminDeleteCredential, DropCredential, lockvars, history
<1>16. ASSUME NEW s \in Sub, Unlock(s) PROVE Forgetting'
  <2>1. /\ allowed' = [allowed EXCEPT ![s] = {}]
        /\ UNCHANGED <<users, owner, session, req, todo, from, raced>>
    BY <1>16 DEF Unlock, store, history
  <2>2. \A i \in Sub : allowed'[i] \subseteq allowed[i]
    BY <2>1, Forms
  <2> QED
    BY <2>1, <2>2, StillKeeps
<1>17. CASE LoseMemory
  BY <1>17, RestartKeeps
<1> QED
  BY <1>1, <1>2, <1>3, <1>4, <1>5, <1>6, <1>7, <1>8, <1>9, <1>10, <1>11, <1>12, <1>13,
     <1>14, <1>15, <1>16, <1>17, Steps

\* A deletion that nothing overlapped is complete, however many admins and
\* browsers there are.
THEOREM DeletionsAreComplete == Spec => []DeletedIsForgotten
<1>1. Init => Forgetting
  <2> SUFFICES ASSUME Init PROVE Forgetting
    OBVIOUS
  <2>1. Made = {} /\ Gone = {} /\ BeingDeleted = {} /\ Erasing = {}
    BY IdleIs DEF Init, Made, Gone, BeingDeleted, Erasing, At, Process
  <2>2. Known /\ Invited /\ StillOwned
    BY <2>1, IdleIs DEF Init, Known, Invited, StillOwned, At, Process
  <2>3. Clear
    BY <2>1 DEF Clear
  <2> QED
    BY <2>2, <2>3 DEF Forgetting
<1>2. AccessTypeOK /\ CredentialsOwned /\ Forgetting /\ [Next]_vars => Forgetting'
  <2> SUFFICES ASSUME AccessTypeOK, CredentialsOwned, Forgetting, [Next]_vars
               PROVE  Forgetting'
    OBVIOUS
  <2>1. CASE Next
    BY <2>1, ForgettingStep
  <2>2. CASE UNCHANGED vars
    BY <2>2, StillKeeps DEF vars, store, invitevars, lockvars, history
  <2> QED
    BY <2>1, <2>2
<1>3. CredentialsOwned /\ Forgetting => DeletedIsForgotten
  BY AccessAssumption DEF CredentialsOwned, Forgetting, Clear, DeletedIsForgotten, CredsOf, Gone
<1> QED
  BY <1>1, <1>2, <1>3, AccessTypes, PasskeysHaveUsers, PTL DEF Spec
=============================================================================
