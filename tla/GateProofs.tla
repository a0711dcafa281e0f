----------------------------- MODULE GateProofs -----------------------------
(***************************************************************************)
(* Proofs about Gate, for any numbers of visitors, users, connections,     *)
(* names and addresses.                                                    *)
(***************************************************************************)
EXTENDS Gate, TLAPS

USE GateAssumption

\* What the directory's maps have to do with each other.
NamesHeld ==
  \A n \in Sub \cup Host :
    holder[n] # None => lease[holder[n]] # None /\ n \in Names(lease[holder[n]])

DirTyped ==
  /\ holder \in [Sub \cup Host -> Conn \cup {None}]
  /\ lease \in [Conn -> Lease \cup {None}] /\ live \subseteq Conn

StoresTyped ==
  /\ permits \subseteq Sub \X Ip
  /\ allowed \in [Sub -> (SUBSET User) \cup {None}] /\ keys \subseteq User
  /\ session \in [Visitor -> User \cup {None}]

Labels == {"idle", "hello", "route", "acl", "lock", "keys", "user", "list",
           "open", "evict", "in", "login"}

VisitorsTyped ==
  /\ gpc \in [Visitor -> Labels]
  /\ req \in [Visitor -> Request \cup {None}]
  /\ vtun \in [Visitor -> Conn \cup {None}]
  /\ vsub \in [Visitor -> Sub \cup {None}] /\ vuser \in [Visitor -> User \cup {None}]

Due == [sub : Sub \cup {None}, user : User \cup {None}, permitted : BOOLEAN, free : BOOLEAN]
DueTyped == due \in [Visitor -> Due]

LEMMA TypeParts ==
  GateTypeOK <=> DirTyped /\ StoresTyped /\ VisitorsTyped /\ DueTyped
BY DEF GateTypeOK, DirTyped, StoresTyped, VisitorsTyped, DueTyped, Labels, Due

-----------------------------------------------------------------------------
(* The registry                                                            *)

LEMMA DirStep ==
  ASSUME DirTyped, NamesHeld,
         \/ \E c \in Conn : Connect(c) \/ Die(c) \/ Drop(c)
         \/ \E c \in Conn, l \in Lease : Bind(c, l) \/ \E d \in Conn : TakeOver(c, d, l)
  PROVE  DirTyped' /\ NamesHeld'
<1> USE DEF DirTyped, NamesHeld
<1>1. ASSUME NEW c \in Conn, Connect(c) \/ Die(c) PROVE DirTyped' /\ NamesHeld'
  BY <1>1 DEF Connect, Die
<1>2. ASSUME NEW c \in Conn, Drop(c) PROVE DirTyped' /\ NamesHeld'
  BY <1>2 DEF Drop
<1>3. ASSUME NEW c \in Conn, NEW l \in Lease, Bind(c, l) PROVE DirTyped' /\ NamesHeld'
  BY <1>3 DEF Bind
<1>4. ASSUME NEW c \in Conn, NEW l \in Lease, NEW d \in Conn, TakeOver(c, d, l)
      PROVE  DirTyped' /\ NamesHeld'
  BY <1>4 DEF TakeOver
<1> QED
  BY <1>1, <1>2, <1>3, <1>4

\* A subdomain's holder has a lease on it: hostnames are no subdomains.
LEMMA LeaseOfHolder ==
  ASSUME DirTyped, NamesHeld, NEW n \in Sub \cup Host, holder[n] # None
  PROVE  /\ holder[n] \in Conn /\ lease[holder[n]] \in Lease
         /\ lease[holder[n]].sub \in Sub
         /\ n \in Sub => lease[holder[n]].sub = n
BY DEF DirTyped, NamesHeld, Names, Lease

-----------------------------------------------------------------------------
(* The history                                                             *)

\* While a request is decided its history keeps its subject, and what has been
\* said once stays said.
Kept(v) ==
  /\ due'[v].sub = due[v].sub /\ due'[v].user = due[v].user
  /\ due[v].permitted => due'[v].permitted
  /\ due[v].free => due'[v].free
  /\ due[v] = NotDue => due'[v] = NotDue

\* What the rules say to v now.
Permitted(v) == <<due[v].sub, IpOf[v]>> \in permits
Free(v) ==
  allowed[due[v].sub] = None \/ keys = {} \/ due[v].user \in Listed(due[v].sub)

LEMMA WatchKeeps ==
  ASSUME DueTyped, Watch
  PROVE  /\ DueTyped'
         /\ \A v \in Visitor : Kept(v)
         /\ \A v \in Visitor : due[v].sub # None /\ gpc[v] # "in" =>
              /\ Permitted(v) => due'[v].permitted
              /\ Free(v) => due'[v].free
<1> USE DEF DueTyped, Due
<1> DEFINE D(v) ==
      IF due[v].sub = None \/ gpc[v] = "in" THEN due[v]
      ELSE [due[v] EXCEPT
        !.permitted = @ \/ <<due[v].sub, IpOf[v]>> \in permits,
        !.free = @ \/ allowed[due[v].sub] = None \/ keys = {} \/ due[v].user \in Listed(due[v].sub)]
<1>1. due' = [v \in Visitor |-> D(v)]
  BY DEF Watch
<1>2. ASSUME NEW v \in Visitor
      PROVE  /\ D(v) \in Due /\ due'[v] = D(v) /\ Kept(v)
             /\ due[v].sub # None /\ gpc[v] # "in" =>
                  /\ Permitted(v) => due'[v].permitted
                  /\ Free(v) => due'[v].free
  <2>1. due'[v] = D(v)
    BY <1>1
  <2>2. due[v] \in Due
    OBVIOUS
  <2>3. CASE due[v].sub = None \/ gpc[v] = "in"
    BY <2>1, <2>2, <2>3 DEF Kept
  <2>4. CASE ~(due[v].sub = None \/ gpc[v] = "in")
    <3>1. D(v) = [due[v] EXCEPT !.permitted = @ \/ Permitted(v), !.free = @ \/ Free(v)]
      BY <2>4 DEF Permitted, Free
    <3> HIDE DEF D
    <3>2. D(v) = [sub |-> due[v].sub, user |-> due[v].user,
                  permitted |-> due[v].permitted \/ Permitted(v),
                  free |-> due[v].free \/ Free(v)]
      BY <3>1, <2>2
    <3>3. /\ due[v].sub \in Sub \cup {None} /\ due[v].user \in User \cup {None}
          /\ due[v].permitted \in BOOLEAN /\ due[v].free \in BOOLEAN
      BY <2>2
    <3>4. D(v) \in Due
      BY <3>2, <3>3
    <3>5. Kept(v)
      BY <2>1, <2>4, <3>2, <3>3 DEF Kept, NotDue
    <3>6. due'[v].permitted = (due[v].permitted \/ Permitted(v)) /\ due'[v].free = (due[v].free \/ Free(v))
      BY <2>1, <3>2
    <3> QED
      BY <2>1, <3>4, <3>5, <3>6
  <2> QED
    BY <2>3, <2>4
<1> HIDE DEF D
<1> QED
  BY <1>1, <1>2

-----------------------------------------------------------------------------
(* The invariant                                                           *)

Deciding == {"acl", "lock", "keys", "user", "list", "open", "in", "evict"}
PastLists == {"lock", "keys", "user", "list", "open", "in"}

\* What is known of a request for a tunnel, by how far it has come.
Cleared(v) ==
  /\ Cookie(v) \in {due[v].user, None}
  /\ gpc[v] \in PastLists => due[v].permitted
  /\ gpc[v] = "list" => vuser[v] \in User /\ vuser[v] = due[v].user
  /\ gpc[v] \in {"open", "in"} => due[v].free

VisitorOK(v) ==
  /\ gpc[v] # "idle" => req[v] \in Request
  /\ gpc[v] \in Deciding =>
       /\ vsub[v] \in Sub
       /\ due[v].sub = IF vtun[v] = None THEN None ELSE vsub[v]
       /\ vtun[v] # None => Cleared(v)
  /\ gpc[v] \in {"in", "evict"} => vtun[v] # None

GateInv ==
  /\ DirTyped /\ StoresTyped /\ VisitorsTyped /\ DueTyped
  /\ NamesHeld
  /\ \A v \in Visitor : VisitorOK(v)

LEMMA InitInv == GateInit => GateInv
<1> SUFFICES ASSUME GateInit PROVE GateInv
  OBVIOUS
<1>1. DirTyped /\ NamesHeld
  BY DEF GateInit, DirInit, DirTyped, NamesHeld
<1>2. StoresTyped /\ VisitorsTyped /\ DueTyped
  <2>1. StoresTyped
    BY DEF GateInit, StoresTyped
  <2>2. VisitorsTyped
    BY DEF GateInit, VisitorsTyped, Labels
  <2>3. DueTyped
    BY DEF GateInit, DueTyped, Due, NotDue
  <2> QED
    BY <2>1, <2>2, <2>3
<1>3. \A v \in Visitor : VisitorOK(v)
  BY DEF GateInit, VisitorOK, Deciding
<1> QED
  BY <1>1, <1>2, <1>3 DEF GateInv

\* A step that is not the visitor's own leaves it where it was; it may lose its
\* session, and its history may grow.
Bystander(v) ==
  /\ gpc'[v] = gpc[v] /\ req'[v] = req[v]
  /\ vtun'[v] = vtun[v] /\ vsub'[v] = vsub[v] /\ vuser'[v] = vuser[v]
  /\ session'[v] \in {session[v], None}
  /\ Kept(v)

LEMMA BystanderOK ==
  ASSUME NEW v \in Visitor, VisitorOK(v), Bystander(v)
  PROVE  VisitorOK(v)'
<1>1. Cookie(v)' \in {Cookie(v), None}
  BY DEF Bystander, Cookie
<1>2. Cleared(v) => Cleared(v)'
  BY <1>1 DEF Cleared, Bystander, Kept
<1> QED
  BY <1>2 DEF VisitorOK, Bystander, Kept

\* The connection ends in a page, a redirect or an error.
LEMMA ClosedInv ==
  ASSUME GateInv, NEW v \in Visitor, NEW label \in {"idle", "login"},
         gpc[v] # "idle", Closed(v, label), UNCHANGED stores, DirTyped', NamesHeld'
  PROVE  GateInv'
<1>1. StoresTyped'
  BY DEF GateInv, StoresTyped, stores
<1>2. VisitorsTyped' /\ DueTyped'
  BY DEF GateInv, VisitorsTyped, DueTyped, Closed, Goto, Labels, Due, NotDue
<1>3. ASSUME NEW w \in Visitor, w # v PROVE VisitorOK(w)'
  <2>1. Bystander(w)
    BY <1>3 DEF GateInv, VisitorsTyped, DueTyped, Closed, Goto, Bystander, Kept, stores
  <2> QED
    BY <2>1, BystanderOK DEF GateInv
<1>4. VisitorOK(v)'
  <2>1. gpc'[v] = label /\ (label = "login" => req'[v] = req[v])
    BY DEF GateInv, VisitorsTyped, Closed, Goto
  <2> QED
    BY <2>1 DEF GateInv, VisitorOK, Deciding
<1> QED
  BY <1>1, <1>2, <1>3, <1>4 DEF GateInv

LEMMA AnsweredInv ==
  ASSUME GateInv, NEW v \in Visitor, NEW label \in {"idle", "login"},
         gpc[v] # "idle", Answered(v, label)
  PROVE  GateInv'
<1>1. DirTyped' /\ NamesHeld'
  BY DEF GateInv, Answered, dirVars, DirTyped, NamesHeld
<1> QED
  BY <1>1, ClosedInv DEF Answered

\* Only the rules, the sessions or the registry change.
LEMMA RulesInv ==
  ASSUME GateInv, Watch, UNCHANGED <<gpc, req, locals>>, StoresTyped',
         DirTyped', NamesHeld',
         \A v \in Visitor : session'[v] \in {session[v], None}
  PROVE  GateInv'
<1>1. DueTyped' /\ \A v \in Visitor : Kept(v)
  BY WatchKeeps DEF GateInv
<1>2. VisitorsTyped'
  BY DEF GateInv, VisitorsTyped, locals
<1>3. ASSUME NEW v \in Visitor PROVE Bystander(v)
  BY <1>1 DEF Bystander, locals
<1> QED
  BY <1>1, <1>2, <1>3, BystanderOK DEF GateInv

\* On to the next question, with what is then known.
LEMMA ProceedInv ==
  ASSUME GateInv, NEW v \in Visitor, NEW label \in PastLists,
         gpc[v] \in Deciding \ {"in"}, Proceed(v, label), UNCHANGED <<vtun, vsub>>,
         NEW u \in User \cup {None}, vuser' = [vuser EXCEPT ![v] = u],
         label = "in" => vtun[v] # None,
         vtun[v] # None =>
           /\ due'[v].permitted
           /\ label = "list" => u \in User /\ u = due[v].user
           /\ label \in {"open", "in"} => due'[v].free
  PROVE  GateInv'
<1>1. DirTyped' /\ NamesHeld' /\ StoresTyped'
  BY DEF GateInv, Proceed, dirVars, stores, DirTyped, NamesHeld, StoresTyped
<1>2. DueTyped' /\ \A w \in Visitor : Kept(w)
  BY WatchKeeps DEF GateInv, Proceed
<1>3. VisitorsTyped'
  BY DEF GateInv, VisitorsTyped, Proceed, Goto, PastLists, Labels
<1>4. ASSUME NEW w \in Visitor, w # v PROVE VisitorOK(w)'
  <2>1. Bystander(w)
    BY <1>2, <1>4 DEF GateInv, VisitorsTyped, Proceed, Goto, Bystander, stores
  <2> QED
    BY <2>1, BystanderOK DEF GateInv
<1>5. VisitorOK(v)'
  <2>1. gpc'[v] = label /\ vuser'[v] = u /\ req' = req /\ session' = session
    BY DEF GateInv, VisitorsTyped, Proceed, Goto, stores
  <2>2. VisitorOK(v) /\ gpc[v] # "idle" /\ label # "evict"
    BY DEF GateInv, Deciding, PastLists
  <2>3. Cookie(v)' = Cookie(v)
    BY <2>1 DEF Cookie
  <2>4. vtun[v] # None => Cleared(v)'
    BY <1>2, <2>1, <2>2, <2>3 DEF Cleared, VisitorOK, Kept
  <2> QED
    BY <1>2, <2>1, <2>2, <2>4 DEF VisitorOK, Kept
<1> QED
  BY <1>1, <1>2, <1>3, <1>4, <1>5 DEF GateInv

-----------------------------------------------------------------------------
(* Steps                                                                   *)

\* Before it is routed nothing is known of a request.
LEMMA UnroutedInv ==
  ASSUME GateInv, NEW v \in Visitor, NEW label \in {"idle", "hello", "route"},
         Goto(v, label), NEW r \in Request \cup {None}, req' = [req EXCEPT ![v] = r],
         label # "idle" => r \in Request,
         NEW u \in User \cup {None}, session' = [session EXCEPT ![v] = u],
         UNCHANGED <<dirVars, permits, allowed, keys, locals, due>>
  PROVE  GateInv'
<1>1. DirTyped' /\ NamesHeld' /\ StoresTyped' /\ DueTyped'
  BY DEF GateInv, dirVars, DirTyped, NamesHeld, StoresTyped, DueTyped
<1>2. VisitorsTyped'
  BY DEF GateInv, VisitorsTyped, Goto, locals, Labels
<1>3. ASSUME NEW w \in Visitor, w # v PROVE VisitorOK(w)'
  <2>1. Bystander(w)
    BY <1>3 DEF GateInv, VisitorsTyped, StoresTyped, Goto, Bystander, Kept, locals
  <2> QED
    BY <2>1, BystanderOK DEF GateInv
<1>4. VisitorOK(v)'
  BY DEF GateInv, VisitorsTyped, Goto, VisitorOK, Deciding
<1> QED
  BY <1>1, <1>2, <1>3, <1>4 DEF GateInv

LEMMA ArrivalInv ==
  ASSUME GateInv, NEW v \in Visitor,
         \/ \E r \in Request : Ask(v, r)
         \/ Handshake(v) \/ Login(v)
  PROVE  GateInv'
<1>0. /\ req[v] \in Request \cup {None} /\ session[v] \in User \cup {None}
      /\ req = [req EXCEPT ![v] = req[v]] /\ session = [session EXCEPT ![v] = session[v]]
      /\ gpc[v] # "idle" => req[v] \in Request
  BY DEF GateInv, VisitorsTyped, StoresTyped, VisitorOK
<1>1. ASSUME NEW r \in Request, Ask(v, r) PROVE GateInv'
  <2>1. PICK label \in {"hello", "route"} : Goto(v, label)
    BY <1>1 DEF Ask, Dial
  <2> QED
    BY <1>0, <1>1, <2>1, UnroutedInv DEF Ask, stores
<1>2. CASE Handshake(v)
  <2>1. /\ Goto(v, "route") /\ req' = req /\ session' = session /\ req[v] \in Request
        /\ UNCHANGED <<dirVars, permits, allowed, keys, locals, due>>
    BY <1>0, <1>2 DEF Handshake, stores
  <2>2. req' = [req EXCEPT ![v] = req[v]] /\ session' = [session EXCEPT ![v] = session[v]]
    BY <1>0, <2>1
  <2> QED
    BY <1>0, <2>1, <2>2, UnroutedInv
<1>3. CASE Login(v)
  <2>1. UserOf[v] \in User \cup {None}
    OBVIOUS
  <2>2. gpc[v] # "idle"
    BY <1>3 DEF Login
  <2>3. CASE Goto(v, "hello") /\ UNCHANGED req
    BY <1>0, <1>3, <2>1, <2>2, <2>3, UnroutedInv DEF Login
  <2>4. CASE Goto(v, "idle") /\ req' = [req EXCEPT ![v] = None]
    BY <1>3, <2>1, <2>4, UnroutedInv DEF Login
  <2> QED
    BY <1>3, <2>3, <2>4 DEF Login
<1> QED
  BY <1>1, <1>2, <1>3

LEMMA RouteToInv ==
  ASSUME GateInv, NEW v \in Visitor, gpc[v] = "route",
         NEW t \in Conn \cup {None}, NEW s \in Sub, RouteTo(v, t, s),
         t # None => lease[t].sub = s
  PROVE  GateInv'
<1>1. DirTyped' /\ NamesHeld' /\ StoresTyped'
  BY DEF GateInv, RouteTo, dirVars, stores, DirTyped, NamesHeld, StoresTyped
<1>2. VisitorsTyped'
  BY DEF GateInv, VisitorsTyped, RouteTo, Goto, Labels
<1> DEFINE d == IF t = None THEN NotDue
                ELSE [sub |-> s, user |-> Cookie(v), permitted |-> FALSE, free |-> FALSE]
<1>3. due' = [due EXCEPT ![v] = d]
  BY DEF RouteTo
<1>4. Cookie(v) \in User \cup {None}
  BY DEF GateInv, StoresTyped, Cookie
<1>5. d \in Due
  BY <1>4 DEF Due, NotDue
<1>6. DueTyped' /\ due'[v] = d
  BY <1>3, <1>5 DEF GateInv, DueTyped
<1>7. ASSUME NEW w \in Visitor, w # v PROVE VisitorOK(w)'
  <2>1. due'[w] = due[w]
    BY <1>3, <1>7 DEF GateInv, DueTyped
  <2>2. Bystander(w)
    BY <1>7, <2>1 DEF GateInv, VisitorsTyped, RouteTo, Goto, Bystander, Kept, stores
  <2> QED
    BY <2>2, BystanderOK DEF GateInv
<1>8. VisitorOK(v)'
  <2>1. gpc'[v] = "acl" /\ vtun'[v] = t /\ vsub'[v] = s /\ req' = req /\ session' = session
    BY DEF GateInv, VisitorsTyped, RouteTo, Goto, stores
  <2>2. req[v] \in Request
    BY DEF GateInv, VisitorOK
  <2>3. Cookie(v)' = Cookie(v)
    BY <2>1 DEF Cookie
  <2>4. t # None => Cleared(v)'
    BY <1>6, <2>1, <2>3 DEF Cleared, PastLists
  <2>5. due'[v].sub = IF t = None THEN None ELSE s
    BY <1>6 DEF NotDue
  <2> QED
    BY <2>1, <2>2, <2>4, <2>5 DEF VisitorOK
<1> QED
  BY <1>1, <1>2, <1>6, <1>7, <1>8 DEF GateInv

LEMMA RouteInv ==
  ASSUME GateInv, NEW v \in Visitor, RouteBySub(v) \/ RouteByHost(v)
  PROVE  GateInv'
<1> DEFINE n == req[v].name
           t == holder[n]
<1>1. DirTyped /\ NamesHeld
  BY DEF GateInv
<1>2. gpc[v] = "route" /\ n \in Sub \cup Host
  BY DEF RouteBySub, RouteByHost
<1>3. t \in Conn \cup {None}
  BY <1>1, <1>2 DEF DirTyped
<1>4. t # None => lease[t].sub \in Sub /\ (n \in Sub => lease[t].sub = n)
  BY <1>1, <1>2, LeaseOfHolder
<1>5. CASE Answered(v, "idle")
  BY <1>2, <1>5, AnsweredInv
<1>6. CASE RouteBySub(v) /\ RouteTo(v, t, n)
  BY <1>2, <1>3, <1>4, <1>6, RouteToInv DEF RouteBySub
<1>7. CASE t # None /\ RouteTo(v, t, lease[t].sub)
  BY <1>2, <1>3, <1>4, <1>7, RouteToInv
<1> QED
  BY <1>5, <1>6, <1>7 DEF RouteBySub, RouteByHost

\* The questions, in their order.
LEMMA QuestionInv ==
  ASSUME GateInv, NEW v \in Visitor,
         CheckAddress(v) \/ CheckLock(v) \/ CheckKeys(v) \/ CheckSession(v) \/ CheckList(v) \/ Open(v)
  PROVE  GateInv'
<1> USE DEF Deciding, PastLists
<1>0. /\ vuser[v] \in User \cup {None} /\ vuser = [vuser EXCEPT ![v] = vuser[v]]
      /\ VisitorOK(v) /\ DueTyped
  BY DEF GateInv, VisitorsTyped
<1>1. gpc[v] \in {"acl", "lock", "keys", "user", "list", "open"}
  BY DEF CheckAddress, CheckLock, CheckKeys, CheckSession, CheckList, Open
<1>2. ASSUME vtun[v] # None
      PROVE  due[v].sub = vsub[v] /\ due[v].sub # None /\ Cleared(v)
  BY <1>0, <1>1, <1>2 DEF VisitorOK
<1>3. ASSUME NEW label \in {"idle", "login"}, Answered(v, label) PROVE GateInv'
  BY <1>1, <1>3, AnsweredInv
<1>4. ASSUME NEW label \in PastLists, Proceed(v, label), UNCHANGED locals, label # "list",
             label = "in" => vtun[v] # None,
             vtun[v] # None => due'[v].permitted /\ (label \in {"open", "in"} => due'[v].free)
      PROVE  GateInv'
  BY <1>0, <1>1, <1>4, ProceedInv DEF locals
<1>5. ASSUME NEW label \in PastLists, Proceed(v, label), vtun[v] # None
      PROVE  /\ due[v].permitted \/ Permitted(v) => due'[v].permitted
             /\ due[v].free \/ Free(v) => due'[v].free
  BY <1>0, <1>1, <1>2, <1>5, WatchKeeps DEF Proceed, Kept
<1>6. CASE CheckAddress(v)
  <2>1. CASE Proceed(v, "lock") /\ UNCHANGED locals /\ <<vsub[v], IpOf[v]>> \in permits
    BY <1>2, <1>4, <1>5, <2>1 DEF Permitted
  <2> QED
    BY <1>3, <1>6, <2>1 DEF CheckAddress
<1>7. CASE CheckLock(v)
  <2>1. CASE allowed[vsub[v]] = None
    BY <1>2, <1>4, <1>5, <1>7, <2>1 DEF CheckLock, Cleared, Free
  <2>2. CASE allowed[vsub[v]] # None
    BY <1>2, <1>4, <1>5, <1>7, <2>2 DEF CheckLock, Cleared
  <2> QED
    BY <2>1, <2>2
<1>8. CASE CheckKeys(v)
  <2>1. CASE keys = {}
    BY <1>2, <1>4, <1>5, <1>8, <2>1 DEF CheckKeys, Cleared, Free
  <2>2. CASE keys # {}
    BY <1>2, <1>4, <1>5, <1>8, <2>2 DEF CheckKeys, Cleared
  <2> QED
    BY <2>1, <2>2
<1>9. CASE CheckSession(v)
  <2>1. CASE Cookie(v) # None /\ Proceed(v, "list") /\ vuser' = [vuser EXCEPT ![v] = Cookie(v)]
             /\ UNCHANGED <<vtun, vsub>>
    <3>1. Cookie(v) \in User
      BY <2>1 DEF GateInv, StoresTyped, Cookie
    <3>2. vtun[v] # None => due'[v].permitted /\ Cookie(v) = due[v].user
      BY <1>2, <1>5, <1>9, <2>1 DEF CheckSession, Cleared
    <3> QED
      BY <1>1, <2>1, <3>1, <3>2, ProceedInv
  <2> QED
    BY <1>3, <1>9, <2>1 DEF CheckSession
<1>10. CASE CheckList(v)
  <2>1. CASE vuser[v] \in Listed(vsub[v]) /\ Proceed(v, "open") /\ UNCHANGED locals
    BY <1>2, <1>4, <1>5, <1>10, <2>1 DEF CheckList, Cleared, Free
  <2> QED
    BY <1>3, <1>10, <2>1 DEF CheckList
<1>11. CASE Open(v)
  <2>1. vtun[v] # None
    BY <1>11 DEF Open, GateInv, DirTyped
  <2> QED
    BY <1>2, <1>4, <1>5, <1>11, <2>1 DEF Open, Cleared
<1> QED
  BY <1>6, <1>7, <1>8, <1>9, <1>10, <1>11

LEMMA FailureInv ==
  ASSUME GateInv, NEW v \in Visitor, OpenFails(v) \/ Evict(v)
  PROVE  GateInv'
<1>1. CASE OpenFails(v)
  <2>1. DirTyped' /\ NamesHeld' /\ StoresTyped'
    BY <1>1 DEF OpenFails, GateInv, DirTyped, NamesHeld, StoresTyped, stores
  <2>2. DueTyped' /\ \A w \in Visitor : Kept(w)
    BY <1>1, WatchKeeps DEF GateInv, OpenFails
  <2>3. VisitorsTyped'
    BY <1>1 DEF GateInv, VisitorsTyped, OpenFails, Goto, locals, Labels
  <2>4. ASSUME NEW w \in Visitor, w # v PROVE VisitorOK(w)'
    <3>1. Bystander(w)
      BY <1>1, <2>2, <2>4 DEF GateInv, VisitorsTyped, OpenFails, Goto, Bystander, stores, locals
    <3> QED
      BY <3>1, BystanderOK DEF GateInv
  <2>5. VisitorOK(v)'
    <3>1. gpc'[v] = "evict" /\ UNCHANGED <<req, session, vtun, vsub>>
          /\ gpc[v] = "open" /\ vtun[v] # None
      BY <1>1 DEF GateInv, VisitorsTyped, OpenFails, Goto, stores, locals
    <3>2. Cookie(v)' = Cookie(v) /\ VisitorOK(v)
      BY <3>1 DEF Cookie, GateInv
    <3> QED
      BY <2>2, <3>1, <3>2 DEF VisitorOK, Cleared, Kept, Deciding, PastLists
  <2> QED
    BY <2>1, <2>2, <2>3, <2>4, <2>5 DEF GateInv
<1>2. CASE Evict(v)
  <2>1. vtun[v] \in Conn
    BY <1>2 DEF Evict, GateInv, VisitorsTyped, VisitorOK
  <2>2. DirTyped' /\ NamesHeld'
    BY <1>2, <2>1, DirStep DEF Evict, GateInv, DirTyped, NamesHeld, dirVars
  <2> QED
    BY <1>2, <2>2, ClosedInv DEF Evict
<1> QED
  BY <1>1, <1>2

LEMMA WorldInv ==
  ASSUME GateInv,
         \/ \E v \in Visitor : SessionEnds(v)
         \/ ListsChange \/ DirectoryChange
         \/ \E s \in Sub, u \in User : Grant(s, u) \/ Revoke(s, u)
         \/ \E s \in Sub : Unlock(s)
         \/ \E u \in User : KeysChange(u)
  PROVE  GateInv'
<1>0. DirTyped /\ NamesHeld /\ StoresTyped
  BY DEF GateInv
<1>1. ASSUME UNCHANGED dirVars PROVE DirTyped' /\ NamesHeld'
  BY <1>0, <1>1 DEF dirVars, DirTyped, NamesHeld
<1>2. ASSUME RulesChange, StoresTyped', UNCHANGED session PROVE GateInv'
  BY <1>0, <1>1, <1>2, RulesInv DEF RulesChange, StoresTyped
<1>3. ASSUME NEW v \in Visitor, SessionEnds(v) PROVE GateInv'
  <2>1. StoresTyped' /\ \A w \in Visitor : session'[w] \in {session[w], None}
    BY <1>0, <1>3 DEF SessionEnds, StoresTyped
  <2> QED
    BY <1>1, <1>3, <2>1, RulesInv DEF SessionEnds, RulesChange
<1>4. CASE ListsChange
  BY <1>0, <1>2, <1>4 DEF ListsChange, StoresTyped
<1>5. ASSUME NEW s \in Sub, NEW u \in User, Grant(s, u) PROVE GateInv'
  <2>1. Listed(s) \cup {u} \in SUBSET User
    BY <1>0 DEF Listed, StoresTyped
  <2>2. StoresTyped'
    BY <1>0, <1>5, <2>1 DEF Grant, StoresTyped
  <2> QED
    BY <1>2, <1>5, <2>2 DEF Grant
<1>6. ASSUME NEW s \in Sub, NEW u \in User, Revoke(s, u) PROVE GateInv'
  <2>1. allowed[s] \in SUBSET User
    BY <1>0, <1>6 DEF Revoke, Listed, StoresTyped
  <2>2. StoresTyped'
    BY <1>0, <1>6, <2>1 DEF Revoke, StoresTyped
  <2> QED
    BY <1>2, <1>6, <2>2 DEF Revoke
<1>7. ASSUME NEW s \in Sub, Unlock(s) PROVE GateInv'
  <2>1. StoresTyped'
    BY <1>0, <1>7 DEF Unlock, StoresTyped
  <2> QED
    BY <1>2, <1>7, <2>1 DEF Unlock
<1>8. ASSUME NEW u \in User, KeysChange(u) PROVE GateInv'
  <2>1. StoresTyped'
    BY <1>0, <1>8 DEF KeysChange, StoresTyped
  <2> QED
    BY <1>2, <1>8, <2>1 DEF KeysChange
<1>9. CASE DirectoryChange
  <2>1. DirTyped' /\ NamesHeld'
    BY <1>0, <1>9, DirStep DEF DirectoryChange
  <2>2. StoresTyped' /\ \A w \in Visitor : session'[w] \in {session[w], None}
    BY <1>0, <1>9 DEF DirectoryChange, StoresTyped, stores
  <2> QED
    BY <1>9, <2>1, <2>2, RulesInv DEF DirectoryChange
<1> QED
  BY <1>3, <1>4, <1>5, <1>6, <1>7, <1>8, <1>9

LEMMA StepInv == GateInv /\ [GateNext]_gateVars => GateInv'
<1> SUFFICES ASSUME GateInv, [GateNext]_gateVars PROVE GateInv'
  OBVIOUS
<1>1. ASSUME NEW v \in Visitor, NEW label \in {"idle", "login"}, gpc[v] # "idle", Answered(v, label)
      PROVE  GateInv'
  BY <1>1, AnsweredInv
<1>2. ASSUME NEW v \in Visitor,
             \/ NoCertificate(v) \/ Manage(v) \/ Offline(v) \/ Stranger(v) \/ Leave(v)
      PROVE  GateInv'
  BY <1>1, <1>2 DEF NoCertificate, Manage, Offline, Stranger, Leave
<1>3. ASSUME NEW v \in Visitor, HandlerStep(v) PROVE GateInv'
  BY <1>2, <1>3, ArrivalInv, RouteInv, QuestionInv, FailureInv DEF HandlerStep
<1>4. ASSUME NEW v \in Visitor,
             (\E r \in Request : Ask(v, r)) \/ Login(v) \/ Stranger(v) \/ Leave(v)
      PROVE  GateInv'
  BY <1>2, <1>4, ArrivalInv
<1>5. CASE UNCHANGED gateVars
  <2>1. UNCHANGED dirVars /\ UNCHANGED stores /\ UNCHANGED <<gpc, req, due>> /\ UNCHANGED locals
    BY <1>5 DEF gateVars
  <2>2. DirTyped' /\ NamesHeld' /\ StoresTyped' /\ VisitorsTyped' /\ DueTyped'
    BY <2>1 DEF GateInv, dirVars, stores, locals, DirTyped, NamesHeld, StoresTyped,
                VisitorsTyped, DueTyped
  <2>3. ASSUME NEW v \in Visitor PROVE Bystander(v)
    BY <2>1 DEF Bystander, Kept, stores, locals
  <2> QED
    BY <2>2, <2>3, BystanderOK DEF GateInv
<1> QED
  BY <1>3, <1>4, <1>5, WorldInv DEF GateNext

THEOREM GateInvariance == GateSpec => []GateInv
<1>1. GateInv /\ [GateNext]_gateVars => GateInv'
  BY StepInv
<1> QED
  BY InitInv, <1>1, PTL DEF GateSpec

\* The values stay of their kinds: a request is never decided under another
\* name than a subdomain, by whichever of a tunnel's names it came in.
THEOREM GateTypes == GateSpec => []GateTypeOK
<1>1. GateInv => GateTypeOK
  BY TypeParts DEF GateInv
<1> QED
  BY <1>1, GateInvariance, PTL

\* Nobody reaches a client whom the rules of its tunnel shut out all the while,
\* whatever visitors, tunnels, users and administrators there are.
THEOREM NobodyEverUnchecked == GateSpec => []NobodyUnchecked
<1>1. GateInv => NobodyUnchecked
  BY DEF GateInv, VisitorOK, Cleared, NobodyUnchecked, Deciding, PastLists
<1> QED
  BY <1>1, GateInvariance, PTL
=============================================================================
