------------------------- MODULE TunnelServerProofs -------------------------
(***************************************************************************)
(* TunnelServer for every set of connections, visitors, subdomains,        *)
(* hostnames and client ids: the safety properties its runs check, from    *)
(* one inductive invariant; that it implements NameDirectory; and that     *)
(* LAN-direct on top of it keeps both the registry and, while handlers     *)
(* follow one another and no DNS call fails, the record of a subdomain.    *)
(***************************************************************************)
EXTENDS LanDirect, TLAPS

(* The parts of the inductive invariant beyond TypeOK and HostsAgree.      *)

\* A handler has its hello from Accept until it returns.
HandlerHello ==
  \A c \in Conn : hello[c] = None <=> pc[c] = "gone"

\* A registered tunnel sits under the subdomain of its own hello, and its
\* handler has neither to claim yet nor returned.
RegisteredOwner ==
  \A s \in Sub :
    tunnels[s] # None => /\ hello[tunnels[s]] # None
                         /\ hello[tunnels[s]].sub = s
                         /\ pc[tunnels[s]] # "claim"

\* A handler on its way out has closed its session.
ClosedOnExit ==
  \A c \in Conn : pc[c] \in {"release", "gone"} => sess[c] = "closed"

\* A request past routing holds a tunnel and a subdomain, and one that is
\* about to evict has closed that tunnel's session.
VisitorHolds ==
  \A v \in Visitor :
    /\ vpc[v] # "idle" => vtun[v] \in Conn /\ vsub[v] \in Sub
    /\ vpc[v] = "evict" => sess[vtun[v]] = "closed"

\* NoOrphan, from the moment the claim is granted.
ReachableOrClosing ==
  \A c \in Conn :
    pc[c] \in {"reply", "serving"} /\ sess[c] = "open" =>
      tunnels[hello[c].sub] = c \/ c \in closing

IInv ==
  /\ TypeOK
  /\ HostsAgree
  /\ HandlerHello
  /\ RegisteredOwner
  /\ ClosedOnExit
  /\ VisitorHolds
  /\ ReachableOrClosing

-----------------------------------------------------------------------------
LEMMA InitIInv == Init => IInv
  BY NamesAssumption
  DEF Init, IInv, TypeOK, HostsAgree, HandlerHello, RegisteredOwner,
      ClosedOnExit, VisitorHolds, ReachableOrClosing

\* A hello is a record, never the null value.
LEMMA HelloFields ==
  ASSUME TypeOK, NEW c \in Conn, hello[c] # None
  PROVE  /\ hello[c].sub \in Sub
         /\ hello[c].client \in ClientId
         /\ hello[c].hosts \subseteq Host
  BY DEF TypeOK, Hello

\* release keeps the two maps well typed and in agreement.
LEMMA ReleaseKeeps ==
  ASSUME IInv, NEW s \in Sub, NEW c \in Conn, release(s, c)
  PROVE  /\ tunnels' \in [Sub -> Conn \cup {None}]
         /\ customHosts' \in [Host -> Sub \cup {None}]
         /\ \A h \in Host, r \in Sub :
              customHosts'[h] = r <=> tunnels'[r] # None /\ h \in hello[tunnels'[r]].hosts
         /\ \A r \in Sub : tunnels'[r] = tunnels[r] \/ tunnels'[r] = None
         /\ \A r \in Sub : tunnels'[r] # tunnels[r] => r = s /\ tunnels[r] = c
  <1>1. CASE tunnels[s] # c
    BY <1>1 DEF release, regVars, IInv, TypeOK, HostsAgree
  <1>2. CASE tunnels[s] = c
    <2>1. /\ tunnels' = [tunnels EXCEPT ![s] = None]
          /\ customHosts' = [h \in Host |->
                               IF h \in hello[c].hosts THEN None ELSE customHosts[h]]
      BY <1>2 DEF release
    <2>2. TypeOK /\ HostsAgree
      BY DEF IInv
    <2>3. c # None
      BY NamesAssumption
    <2>4. ASSUME NEW h \in Host, NEW r \in Sub
          PROVE  customHosts'[h] = r <=>
                   tunnels'[r] # None /\ h \in hello[tunnels'[r]].hosts
      <3>1. CASE r = s
        <4>1. customHosts[h] = s => h \in hello[c].hosts
          BY <1>2, <2>2 DEF HostsAgree
        <4>2. customHosts'[h] # s
          BY <4>1, <2>1, NamesAssumption
        <4>3. tunnels'[s] = None
          BY <2>1, <2>2 DEF TypeOK
        <4>4. QED
          BY <3>1, <4>2, <4>3
      <3>2. CASE r # s
        <4>1. tunnels'[r] = tunnels[r]
          BY <2>1, <2>2, <3>2 DEF TypeOK
        <4>2. h \in hello[c].hosts => customHosts[h] = s
          BY <1>2, <2>2, <2>3 DEF HostsAgree
        <4>3. customHosts'[h] = r <=> customHosts[h] = r
          BY <2>1, <3>2, <4>2, NamesAssumption
        <4>4. QED
          BY <4>1, <4>3, <2>2 DEF HostsAgree
      <3>3. QED
        BY <3>1, <3>2
    <2>5. QED
      BY <1>2, <2>1, <2>2, <2>4 DEF TypeOK
  <1>3. QED
    BY <1>1, <1>2

-----------------------------------------------------------------------------
(* Each action preserves the invariant.                                    *)

LEMMA AcceptStep ==
  ASSUME IInv, NEW c \in Conn, NEW m \in Hello, Accept(c, m)
  PROVE  IInv'
  <1> USE DEF Accept, Goto, IInv
  <1>0. m # None
    BY NamesAssumption
  <1>1. \A s \in Sub : tunnels[s] # c
    BY NamesAssumption DEF TypeOK, RegisteredOwner, HandlerHello
  <1>2. TypeOK'
    BY DEF TypeOK
  <1>3. HostsAgree'
    BY <1>1 DEF TypeOK, HostsAgree
  <1>4. HandlerHello'
    BY <1>0 DEF TypeOK, HandlerHello
  <1>5. RegisteredOwner'
    BY <1>1 DEF TypeOK, RegisteredOwner
  <1>6. ClosedOnExit'
    BY DEF TypeOK, ClosedOnExit
  <1>7. VisitorHolds'
    BY DEF TypeOK, VisitorHolds
  <1>8. ReachableOrClosing'
    BY DEF TypeOK, ReachableOrClosing
  <1>9. QED
    BY <1>2, <1>3, <1>4, <1>5, <1>6, <1>7, <1>8

LEMMA ClaimRefusedStep ==
  ASSUME IInv, NEW c \in Conn, ClaimRefused(c)
  PROVE  IInv'
  <1> USE DEF ClaimRefused, CloseSession, Goto, IInv
  <1>1. \A s \in Sub : tunnels[s] # c
    BY NamesAssumption DEF TypeOK, RegisteredOwner, HandlerHello
  <1>2. TypeOK'
    BY DEF TypeOK
  <1>3. HostsAgree'
    BY <1>1 DEF TypeOK, HostsAgree
  <1>4. HandlerHello'
    BY DEF TypeOK, HandlerHello
  <1>5. RegisteredOwner'
    BY <1>1 DEF TypeOK, RegisteredOwner
  <1>6. ClosedOnExit'
    BY DEF TypeOK, ClosedOnExit
  <1>7. VisitorHolds'
    BY DEF TypeOK, VisitorHolds
  <1>8. ReachableOrClosing'
    BY DEF TypeOK, ReachableOrClosing
  <1>9. QED
    BY <1>2, <1>3, <1>4, <1>5, <1>6, <1>7, <1>8

LEMMA ClaimGrantedStep ==
  ASSUME IInv, NEW c \in Conn, ClaimGranted(c)
  PROVE  IInv'
  <1> USE DEF ClaimGranted, claim, Goto, IInv
  <1> DEFINE s == hello[c].sub
             p == tunnels[s]
  <1>0. /\ hello[c] # None /\ s \in Sub /\ hello[c].hosts \subseteq Host
        /\ p \in Conn \cup {None}
        /\ c # None
    BY HelloFields, NamesAssumption DEF HandlerHello, TypeOK
  <1>1. p # None => hello[p] # None /\ hello[p].hosts \subseteq Host
    BY <1>0, HelloFields DEF TypeOK, RegisteredOwner
  <1>2. \A r \in Sub : tunnels[r] # c
    BY <1>0 DEF TypeOK, RegisteredOwner
  <1>3. TypeOK'
    BY <1>0 DEF TypeOK
  <1>4. HostsAgree'
    <2> SUFFICES ASSUME NEW h \in Host, NEW r \in Sub
                 PROVE  (customHosts[h] = r <=> tunnels[r] # None
                           /\ h \in hello[tunnels[r]].hosts)'
      BY DEF HostsAgree
    <2>1. hello' = hello
      OBVIOUS
    <2>2. customHosts[h] = r <=> tunnels[r] # None /\ h \in hello[tunnels[r]].hosts
      BY DEF HostsAgree
    <2>3. CASE r = s
      <3>1. tunnels'[r] = c
        BY <2>3, <1>0 DEF TypeOK
      <3>2. h \notin hello[c].hosts => customHosts'[h] # s
        <4>1. customHosts[h] = s => p # None /\ h \in hello[p].hosts
          BY <2>2, <2>3
        <4>2. QED
          BY <4>1, <1>0, NamesAssumption DEF HostsOf
      <3>3. h \in hello[c].hosts => customHosts'[h] = s
        OBVIOUS
      <3>4. QED
        BY <2>1, <2>3, <3>1, <3>2, <3>3, <1>0
    <2>4. CASE r # s
      <3>1. tunnels'[r] = tunnels[r]
        BY <2>4, <1>0 DEF TypeOK
      <3>2. CASE h \in hello[c].hosts
        <4>1. customHosts[h] \in {None, s}
          BY <3>2 DEF HostTaken
        <4>2. customHosts[h] # r /\ customHosts'[h] # r
          BY <4>1, <3>2, <2>4, NamesAssumption
        <4>3. QED
          BY <4>2, <2>1, <2>2, <3>1
      <3>3. CASE h \notin hello[c].hosts /\ h \in HostsOf(p)
        <4>1. customHosts[h] = s
          BY <3>3, <1>0 DEF HostsOf, HostsAgree
        <4>2. customHosts[h] # r /\ customHosts'[h] # r
          BY <4>1, <3>3, <2>4, NamesAssumption
        <4>3. QED
          BY <4>2, <2>1, <2>2, <3>1
      <3>4. CASE h \notin hello[c].hosts /\ h \notin HostsOf(p)
        <4>1. customHosts'[h] = customHosts[h]
          BY <3>4
        <4>2. QED
          BY <4>1, <2>1, <2>2, <3>1
      <3>5. QED
        BY <3>2, <3>3, <3>4
    <2>5. QED
      BY <2>3, <2>4
  <1>5. HandlerHello'
    BY DEF TypeOK, HandlerHello
  <1>6. RegisteredOwner'
    BY <1>0, <1>2 DEF TypeOK, RegisteredOwner
  <1>7. ClosedOnExit'
    BY DEF TypeOK, ClosedOnExit
  <1>8. VisitorHolds'
    BY DEF TypeOK, VisitorHolds
  <1>9. ReachableOrClosing'
    <2> SUFFICES ASSUME NEW d \in Conn,
                        pc'[d] \in {"reply", "serving"}, sess'[d] = "open"
                 PROVE  tunnels'[hello'[d].sub] = d \/ d \in closing'
      BY DEF ReachableOrClosing
    <2>1. CASE d = c
      BY <2>1, <1>0 DEF TypeOK
    <2>2. CASE d # c
      <3>1. pc[d] \in {"reply", "serving"} /\ sess[d] = "open"
        BY <2>2 DEF TypeOK
      <3>2. tunnels[hello[d].sub] = d \/ d \in closing
        BY <3>1 DEF ReachableOrClosing
      <3>3. hello[d].sub \in Sub
        BY <3>1, HelloFields DEF HandlerHello
      <3>4. d # None
        BY NamesAssumption
      <3>5. QED
        BY <3>2, <3>3, <3>4, <1>0 DEF TypeOK
    <2>3. QED
      BY <2>1, <2>2
  <1>10. QED
    BY <1>3, <1>4, <1>5, <1>6, <1>7, <1>8, <1>9

LEMMA HandlerMoveStep ==
  ASSUME IInv, NEW c \in Conn, Reply(c) \/ Down(c) \/ DeferredClose(c)
  PROVE  IInv'
  <1> USE DEF Reply, Down, DeferredClose, CloseSession, Goto, IInv
  <1>1. TypeOK'
    BY DEF TypeOK
  <1>2. HostsAgree'
    BY DEF HostsAgree
  <1>3. HandlerHello'
    BY DEF TypeOK, HandlerHello
  <1>4. RegisteredOwner'
    BY DEF TypeOK, RegisteredOwner
  <1>5. ClosedOnExit'
    BY DEF TypeOK, ClosedOnExit
  <1>6. VisitorHolds'
    BY DEF TypeOK, VisitorHolds
  <1>7. ReachableOrClosing'
    BY DEF TypeOK, ReachableOrClosing
  <1>8. QED
    BY <1>1, <1>2, <1>3, <1>4, <1>5, <1>6, <1>7

LEMMA DeferredReleaseStep ==
  ASSUME IInv, NEW c \in Conn, DeferredRelease(c)
  PROVE  IInv'
  <1> USE DEF DeferredRelease, Goto, IInv
  <1> DEFINE s == hello[c].sub
  <1>0. hello[c] # None /\ s \in Sub /\ c # None
    BY HelloFields, NamesAssumption DEF HandlerHello
  <1>1. /\ tunnels' \in [Sub -> Conn \cup {None}]
        /\ customHosts' \in [Host -> Sub \cup {None}]
        /\ \A h \in Host, r \in Sub :
             customHosts'[h] = r <=> tunnels'[r] # None /\ h \in hello[tunnels'[r]].hosts
        /\ \A r \in Sub : tunnels'[r] = tunnels[r] \/ tunnels'[r] = None
        /\ \A r \in Sub : tunnels'[r] # tunnels[r] => r = s /\ tunnels[r] = c
    BY <1>0, ReleaseKeeps
  <1>2. \A r \in Sub : tunnels'[r] # c
    <2> SUFFICES ASSUME NEW r \in Sub, tunnels'[r] = c PROVE FALSE
      OBVIOUS
    <2>1. tunnels[r] = c
      BY <1>0, <1>1
    <2>2. r = s
      BY <2>1, <1>0 DEF RegisteredOwner
    <2>3. tunnels'[s] = None
      BY <2>1, <2>2, <1>0 DEF release, TypeOK
    <2>4. QED
      BY <2>2, <2>3, <1>0
  <1>3. TypeOK'
    BY <1>1 DEF TypeOK
  <1>4. HostsAgree'
    BY <1>1, <1>2 DEF TypeOK, HostsAgree
  <1>5. HandlerHello'
    BY DEF TypeOK, HandlerHello
  <1>6. RegisteredOwner'
    BY <1>1, <1>2 DEF TypeOK, RegisteredOwner
  <1>7. ClosedOnExit'
    BY DEF TypeOK, ClosedOnExit
  <1>8. VisitorHolds'
    BY DEF TypeOK, VisitorHolds
  <1>9. ReachableOrClosing'
    <2> SUFFICES ASSUME NEW d \in Conn,
                        pc'[d] \in {"reply", "serving"}, sess'[d] = "open"
                 PROVE  tunnels'[hello'[d].sub] = d \/ d \in closing'
      BY DEF ReachableOrClosing
    <2>1. d # c /\ pc[d] \in {"reply", "serving"} /\ sess[d] = "open"
      BY DEF TypeOK
    <2>2. tunnels[hello[d].sub] = d \/ d \in closing
      BY <2>1 DEF ReachableOrClosing
    <2>3. hello[d].sub \in Sub /\ hello'[d] = hello[d]
      BY <2>1, HelloFields DEF HandlerHello, TypeOK
    <2>4. QED
      BY <2>1, <2>2, <2>3, <1>1
  <1>10. QED
    BY <1>3, <1>4, <1>5, <1>6, <1>7, <1>8, <1>9

LEMMA SessionStep ==
  ASSUME IInv, NEW c \in Conn, PreemptedClose(c) \/ SessionDies(c)
  PROVE  IInv'
  <1> USE DEF PreemptedClose, SessionDies, CloseSession, IInv
  <1>1. TypeOK'
    BY DEF TypeOK
  <1>2. HostsAgree' /\ HandlerHello' /\ RegisteredOwner'
    BY DEF HostsAgree, HandlerHello, RegisteredOwner
  <1>3. ClosedOnExit'
    BY DEF TypeOK, ClosedOnExit
  <1>4. VisitorHolds'
    BY DEF TypeOK, VisitorHolds
  <1>5. ReachableOrClosing'
    BY DEF TypeOK, ReachableOrClosing
  <1>6. QED
    BY <1>1, <1>2, <1>3, <1>4, <1>5

LEMMA RouteStep ==
  ASSUME IInv, NEW v \in Visitor,
         \/ \E s \in Sub : RouteBySub(v, s)
         \/ \E h \in Host : RouteByHost(v, h)
  PROVE  IInv'
  <1> USE DEF RouteBySub, RouteByHost, Routed, IInv
  <1>1. PICK t \in Conn, s \in Sub :
          /\ Routed(v, t, s)
          /\ UNCHANGED <<tunnels, customHosts, sess, pc, hello, closing>>
    <2>1. CASE \E s \in Sub : RouteBySub(v, s)
      <3>1. PICK s \in Sub : RouteBySub(v, s)
        BY <2>1
      <3>2. tunnels[s] \in Conn
        BY <3>1 DEF TypeOK
      <3>3. QED
        BY <3>1, <3>2
    <2>2. CASE \E h \in Host : RouteByHost(v, h)
      <3>1. PICK h \in Host : RouteByHost(v, h)
        BY <2>2
      <3>2. customHosts[h] \in Sub
        BY <3>1 DEF TypeOK
      <3>3. tunnels[customHosts[h]] \in Conn
        BY <3>1, <3>2 DEF TypeOK
      <3>4. hello[tunnels[customHosts[h]]].sub = customHosts[h]
        BY <3>1, <3>2 DEF RegisteredOwner
      <3>5. QED
        BY <3>1, <3>2, <3>3, <3>4
    <2>3. QED
      BY <2>1, <2>2
  <1>2. TypeOK'
    BY <1>1 DEF TypeOK
  <1>3. VisitorHolds'
    BY <1>1 DEF TypeOK, VisitorHolds
  <1>4. /\ HostsAgree' /\ HandlerHello' /\ RegisteredOwner'
        /\ ClosedOnExit' /\ ReachableOrClosing'
    BY <1>1 DEF HostsAgree, HandlerHello, RegisteredOwner, ClosedOnExit,
                ReachableOrClosing
  <1>5. QED
    BY <1>2, <1>3, <1>4

LEMMA AnsweredStep ==
  ASSUME IInv, NEW v \in Visitor, TurnedAway(v) \/ OpenStream(v)
  PROVE  IInv'
  <1> USE DEF TurnedAway, OpenStream, Answered, IInv
  <1>1. TypeOK'
    BY DEF TypeOK
  <1>2. VisitorHolds'
    BY DEF TypeOK, VisitorHolds
  <1>3. /\ HostsAgree' /\ HandlerHello' /\ RegisteredOwner'
        /\ ClosedOnExit' /\ ReachableOrClosing'
    BY DEF HostsAgree, HandlerHello, RegisteredOwner, ClosedOnExit,
           ReachableOrClosing
  <1>4. QED
    BY <1>1, <1>2, <1>3

LEMMA OpenFailsStep ==
  ASSUME IInv, NEW v \in Visitor, OpenFails(v)
  PROVE  IInv'
  <1> USE DEF OpenFails, CloseSession, IInv
  <1>0. vtun[v] \in Conn
    BY DEF VisitorHolds
  <1>1. TypeOK'
    BY <1>0 DEF TypeOK
  <1>2. VisitorHolds'
    BY <1>0 DEF TypeOK, VisitorHolds
  <1>3. ClosedOnExit' /\ ReachableOrClosing'
    BY <1>0 DEF TypeOK, ClosedOnExit, ReachableOrClosing
  <1>4. HostsAgree' /\ HandlerHello' /\ RegisteredOwner'
    BY DEF HostsAgree, HandlerHello, RegisteredOwner
  <1>5. QED
    BY <1>1, <1>2, <1>3, <1>4

LEMMA EvictStep ==
  ASSUME IInv, NEW v \in Visitor, Evict(v)
  PROVE  IInv'
  <1> USE DEF Evict, Answered, IInv
  <1> DEFINE c == vtun[v]
  <1>0. c \in Conn /\ vsub[v] \in Sub /\ sess[c] = "closed"
    BY DEF VisitorHolds
  <1>1. /\ tunnels' \in [Sub -> Conn \cup {None}]
        /\ customHosts' \in [Host -> Sub \cup {None}]
        /\ \A h \in Host, r \in Sub :
             customHosts'[h] = r <=> tunnels'[r] # None /\ h \in hello[tunnels'[r]].hosts
        /\ \A r \in Sub : tunnels'[r] = tunnels[r] \/ tunnels'[r] = None
        /\ \A r \in Sub : tunnels'[r] # tunnels[r] => r = vsub[v] /\ tunnels[r] = c
    BY <1>0, ReleaseKeeps
  <1>2. TypeOK'
    BY <1>1 DEF TypeOK
  <1>3. HostsAgree'
    BY <1>1 DEF HostsAgree
  <1>4. HandlerHello' /\ ClosedOnExit'
    BY DEF HandlerHello, ClosedOnExit
  <1>5. RegisteredOwner'
    BY <1>1 DEF RegisteredOwner
  <1>6. VisitorHolds'
    BY DEF TypeOK, VisitorHolds
  <1>7. ReachableOrClosing'
    <2> SUFFICES ASSUME NEW d \in Conn,
                        pc[d] \in {"reply", "serving"}, sess[d] = "open"
                 PROVE  tunnels'[hello[d].sub] = d \/ d \in closing
      BY DEF ReachableOrClosing
    <2>1. tunnels[hello[d].sub] = d \/ d \in closing
      BY DEF ReachableOrClosing
    <2>2. hello[d].sub \in Sub
      BY HelloFields DEF HandlerHello
    <2>3. d # c
      BY <1>0
    <2>4. QED
      BY <2>1, <2>2, <2>3, <1>1
  <1>8. QED
    BY <1>2, <1>3, <1>4, <1>5, <1>6, <1>7

LEMMA NextIInv == IInv /\ [Next]_vars => IInv'
  <1> SUFFICES ASSUME IInv, [Next]_vars
               PROVE  IInv'
    OBVIOUS
  <1>1. ASSUME NEW c \in Conn, NEW m \in Hello, Accept(c, m)
        PROVE  IInv'
    BY <1>1, AcceptStep
  <1>2. ASSUME NEW c \in Conn, HandlerStep(c) \/ PreemptedClose(c) \/ SessionDies(c)
        PROVE  IInv'
    BY <1>2, ClaimRefusedStep, ClaimGrantedStep, HandlerMoveStep,
       DeferredReleaseStep, SessionStep DEF HandlerStep
  <1>3. ASSUME NEW v \in Visitor,
               \/ \E s \in Sub : RouteBySub(v, s)
               \/ \E h \in Host : RouteByHost(v, h)
        PROVE  IInv'
    BY <1>3, RouteStep
  <1>4. ASSUME NEW v \in Visitor, VisitorStep(v)
        PROVE  IInv'
    BY <1>4, AnsweredStep, OpenFailsStep, EvictStep DEF VisitorStep
  <1>5. CASE UNCHANGED vars
    BY <1>5
    DEF vars, IInv, TypeOK, HostsAgree, HandlerHello, RegisteredOwner,
        ClosedOnExit, VisitorHolds, ReachableOrClosing
  <1>6. QED
    BY <1>1, <1>2, <1>3, <1>4, <1>5 DEF Next

\* The inductive invariant holds of every run.
THEOREM Invariance == Spec => []IInv
  BY InitIInv, NextIInv, PTL DEF Spec

\* Every variable keeps its type.
THEOREM TypeCorrect == Spec => []TypeOK
  <1>1. IInv => TypeOK
    BY DEF IInv
  <1>2. QED
    BY <1>1, Invariance, PTL

\* The two maps of the registry never disagree, whoever claims, is taken
\* over, is evicted or leaves (registry.claim and registry.release).
THEOREM RegistryAgrees == Spec => []HostsAgree
  <1>1. IInv => HostsAgree
    BY DEF IInv
  <1>2. QED
    BY <1>1, Invariance, PTL

\* No name routes to a connection whose handler has returned.
THEOREM NoCorpseEver == Spec => []NoCorpse
  <1>1. IInv => NoCorpse
    BY DEF IInv, TypeOK, HandlerHello, RegisteredOwner, NoCorpse
  <1>2. QED
    BY <1>1, Invariance, PTL

\* A client told "OK" whose session is open is reachable or about to be cut.
THEOREM NoOrphanEver == Spec => []NoOrphan
  <1>1. IInv => NoOrphan
    BY DEF IInv, ReachableOrClosing, NoOrphan
  <1>2. QED
    BY <1>1, Invariance, PTL

-----------------------------------------------------------------------------
(* Fencing                                                                 *)

\* A release of c under any subdomain takes a name only from c itself.
LEMMA ReleaseFenced ==
  ASSUME IInv, NEW c \in Conn, NEW s \in Sub, sess[c] = "closed", release(s, c),
         NEW r \in Sub, tunnels[r] # None, tunnels'[r] # tunnels[r]
  PROVE  tunnels'[r] = None /\ sess[tunnels[r]] = "closed"
  BY ReleaseKeeps

LEMMA LawfulStep == IInv /\ [Next]_vars => [LawfulLoss]_vars
  <1> SUFFICES ASSUME IInv, [Next]_vars,
                      NEW s \in Sub, tunnels[s] # None, tunnels'[s] # tunnels[s]
               PROVE  IF tunnels'[s] = None
                      THEN sess[tunnels[s]] = "closed"
                      ELSE /\ hello[tunnels[s]].client # Anonymous
                           /\ hello'[tunnels'[s]].client = hello[tunnels[s]].client
    BY DEF LawfulLoss
  <1>1. ASSUME NEW c \in Conn, ClaimGranted(c)
        PROVE  /\ tunnels'[s] = c /\ c # None
               /\ hello[tunnels[s]].client # Anonymous
               /\ hello'[c].client = hello[tunnels[s]].client
    <2>1. hello[c].sub \in Sub /\ c # None
      BY <1>1, HelloFields, NamesAssumption DEF ClaimGranted, IInv, HandlerHello
    <2>2. hello[c].sub = s /\ tunnels'[s] = c
      BY <1>1, <2>1 DEF ClaimGranted, claim, IInv, TypeOK
    <2>3. hello' = hello
      BY <1>1 DEF ClaimGranted
    <2>4. hello[c].client # Anonymous /\ hello[tunnels[s]].client = hello[c].client
      BY <1>1, <2>2 DEF ClaimGranted, SubTaken
    <2>5. QED
      BY <2>1, <2>2, <2>3, <2>4
  <1>2. ASSUME NEW c \in Conn, DeferredRelease(c)
        PROVE  tunnels'[s] = None /\ sess[tunnels[s]] = "closed"
    <2>1. hello[c].sub \in Sub /\ sess[c] = "closed" /\ release(hello[c].sub, c)
      BY <1>2, HelloFields DEF DeferredRelease, IInv, HandlerHello, ClosedOnExit
    <2>2. QED
      BY <2>1, ReleaseFenced
  <1>3. ASSUME NEW v \in Visitor, Evict(v)
        PROVE  tunnels'[s] = None /\ sess[tunnels[s]] = "closed"
    <2>1. /\ vtun[v] \in Conn /\ vsub[v] \in Sub
          /\ sess[vtun[v]] = "closed" /\ release(vsub[v], vtun[v])
      BY <1>3 DEF Evict, IInv, VisitorHolds
    <2>2. QED
      BY <2>1, ReleaseFenced
  <1>4. \/ \E c \in Conn : ClaimGranted(c) \/ DeferredRelease(c)
        \/ \E v \in Visitor : Evict(v)
    <2>1. \/ UNCHANGED tunnels
          \/ \E c \in Conn : ClaimGranted(c) \/ DeferredRelease(c)
          \/ \E v \in Visitor : Evict(v)
      BY DEF Next, HandlerStep, VisitorStep, Accept, ClaimRefused, Reply, Down,
             DeferredClose, PreemptedClose, SessionDies, RouteBySub, RouteByHost,
             TurnedAway, OpenStream, OpenFails, vars
    <2>2. QED
      BY <2>1
  <1>5. QED
    BY <1>1, <1>2, <1>3, <1>4

\* Nobody but the same client process takes a live tunnel's name: neither a
\* pre-empted handler's deferred release nor a visitor's stale eviction.
THEOREM LawfulLossOnly == Spec => OnlyLawfulLoss
  BY LawfulStep, Invariance, PTL DEF Spec, OnlyLawfulLoss

-----------------------------------------------------------------------------
(* The tunnel server implements NameDirectory: each step of a goroutine is *)
(* a step of the directory or none.                                        *)

LEMMA InitRefines == Init => Directory!DirInit
  <1> SUFFICES ASSUME Init PROVE Directory!DirInit
    OBVIOUS
  <1>1. Holder = [n \in Sub \cup Host |-> None]
    BY DEF Init, Holder
  <1>2. \A c \in Conn : ~Registered(c)
    BY NamesAssumption DEF Init, Registered
  <1>3. LeaseOf = [c \in Conn |-> None]
    BY <1>2 DEF LeaseOf
  <1>4. Live = {}
    BY DEF Init, Live
  <1>5. QED
    BY <1>1, <1>3, <1>4 DEF Directory!DirInit

\* The mapped variables depend on nothing but the registry, the sessions and
\* the hellos of registered tunnels.
LEMMA MapUnchanged ==
  ASSUME UNCHANGED <<tunnels, customHosts>>,
         \A c \in Conn : Registered(c) => hello'[c] = hello[c]
  PROVE  Holder' = Holder /\ LeaseOf' = LeaseOf
  BY DEF Holder, LeaseOf, Registered

LEMMA ClosedDies ==
  ASSUME IInv, NEW c \in Conn, CloseSession(c), Holder' = Holder, LeaseOf' = LeaseOf
  PROVE  Directory!Die(c)
  <1>1. Live' = Live \ {c}
    BY DEF CloseSession, Live, IInv, TypeOK
  <1>2. QED
    BY <1>1 DEF Directory!Die

\* A released connection is dropped, or was not there to be released.
LEMMA ReleaseRefines ==
  ASSUME IInv, NEW c \in Conn, NEW s \in Sub, sess[c] = "closed", release(s, c),
         sess' = sess, \A d \in Conn : d # c => hello'[d] = hello[d],
         hello'[c] = hello[c] \/ s = hello[c].sub
  PROVE  Directory!Drop(c) \/ UNCHANGED <<Holder, LeaseOf, Live>>
  <1>0. c # None /\ c \notin Live /\ Live' = Live
    BY NamesAssumption DEF Live
  <1>1. CASE tunnels[s] # c
    <2>1. UNCHANGED <<tunnels, customHosts>>
      BY <1>1 DEF release, regVars
    <2>2. \A d \in Conn : Registered(d) => hello'[d] = hello[d]
      BY <1>0, <1>1 DEF Registered, IInv, RegisteredOwner
    <2>3. QED
      BY <2>1, <2>2, <1>0, MapUnchanged
  <1>2. CASE tunnels[s] = c
    <2>1. /\ tunnels' = [tunnels EXCEPT ![s] = None]
          /\ customHosts' = [h \in Host |->
                               IF h \in hello[c].hosts THEN None ELSE customHosts[h]]
      BY <1>2 DEF release
    <2>2. TypeOK /\ HostsAgree /\ RegisteredOwner
      BY DEF IInv
    <2>3. \A r \in Sub : tunnels[r] = c => r = s
      BY <1>0, <1>2, <2>2 DEF RegisteredOwner
    <2>4. Registered(c) /\ ~Registered(c)' /\ hello[c] # None
      BY <1>0, <1>2, <2>1, <2>2, <2>3 DEF Registered, TypeOK, RegisteredOwner
    <2>5. \A d \in Conn : d # c => Registered(d)' = Registered(d)
      <3>1. ASSUME NEW d \in Conn, d # c
            PROVE  Registered(d)' <=> Registered(d)
        BY <3>1, <1>2, <2>1, <2>2, NamesAssumption DEF Registered, TypeOK
      <3>2. QED
        BY <3>1 DEF Registered
    <2>6. LeaseOf[c] # None /\ LeaseOf' = [LeaseOf EXCEPT ![c] = None]
      BY <2>4, <2>5 DEF LeaseOf
    <2>7. ASSUME NEW n \in Sub \cup Host
          PROVE  Holder'[n] = IF Holder[n] = c THEN None ELSE Holder[n]
      <3>1. CASE n \in Sub
        BY <3>1, <1>2, <2>1, <2>2, <2>3 DEF Holder, TypeOK
      <3>2. CASE n \notin Sub /\ n \in hello[c].hosts
        <4>1. n \in Host /\ customHosts[n] = s /\ customHosts'[n] = None
          BY <3>2, <1>0, <1>2, <2>1, <2>2 DEF HostsAgree
        <4>2. Holder[n] = c /\ Holder'[n] = None
          BY <3>2, <4>1, <1>2, NamesAssumption DEF Holder
        <4>3. QED
          BY <4>2
      <3>3. CASE n \notin Sub /\ n \notin hello[c].hosts
        <4>1. n \in Host /\ customHosts'[n] = customHosts[n]
          BY <3>3, <2>1
        <4>2. customHosts[n] # s
          BY <3>3, <4>1, <1>2, <2>2 DEF HostsAgree
        <4>3. CASE customHosts[n] = None
          BY <3>3, <4>1, <4>3, <1>0 DEF Holder
        <4>4. CASE customHosts[n] # None
          <5>1. customHosts[n] \in Sub
            BY <4>1, <4>4, <2>2 DEF TypeOK
          <5>2. tunnels'[customHosts[n]] = tunnels[customHosts[n]]
            BY <5>1, <4>2, <2>1, <2>2 DEF TypeOK
          <5>3. tunnels[customHosts[n]] # c
            BY <5>1, <4>2, <2>3
          <5>4. QED
            BY <3>3, <4>1, <4>4, <5>1, <5>2, <5>3 DEF Holder
        <4>5. QED
          BY <4>3, <4>4
      <3>4. QED
        BY <3>1, <3>2, <3>3
    <2>8. Holder' = [n \in Sub \cup Host |->
                       IF Holder[n] = c THEN None ELSE Holder[n]]
      BY <2>7 DEF Holder
    <2>9. QED
      BY <1>0, <2>6, <2>8 DEF Directory!Drop
  <1>3. QED
    BY <1>1, <1>2

\* A granted claim binds all of its names, or takes them over.
LEMMA ClaimRefines ==
  ASSUME IInv, NEW c \in Conn, ClaimGranted(c)
  PROVE  \/ Directory!Bind(c, hello[c])
         \/ \E d \in Conn : Directory!TakeOver(c, d, hello[c])
  <1> DEFINE l == hello[c]
             s == hello[c].sub
             p == tunnels[s]
  <1>1. TypeOK /\ HostsAgree /\ RegisteredOwner
    BY DEF IInv
  <1>2. /\ l # None /\ s \in Sub /\ l.hosts \subseteq Host
        /\ p \in Conn \cup {None} /\ c # None
    BY <1>1, HelloFields, NamesAssumption
    DEF ClaimGranted, IInv, HandlerHello, TypeOK
  <1>3. /\ tunnels' = [tunnels EXCEPT ![s] = c]
        /\ customHosts' = [h \in Host |->
                             IF h \in l.hosts THEN s
                             ELSE IF h \in HostsOf(p) THEN None
                             ELSE customHosts[h]]
        /\ hello' = hello /\ sess' = sess
    BY DEF ClaimGranted, claim
  <1>4. \A r \in Sub : tunnels[r] # c
    BY <1>1, <1>2 DEF ClaimGranted, RegisteredOwner
  <1>5. \A h \in l.hosts : customHosts[h] \in {None, s}
    BY DEF ClaimGranted, HostTaken
  <1>6. \A r \in Sub : p # None /\ tunnels[r] = p => r = s
    BY <1>1, <1>2 DEF RegisteredOwner
  <1>7. UNCHANGED Live /\ LeaseOf[c] = None
    BY <1>3, <1>4 DEF Live, LeaseOf, Registered
  <1>8. \A n \in Directory!Names(l) : Holder[n] \in {None, p}
    <2> SUFFICES ASSUME NEW n \in Directory!Names(l)
                 PROVE  Holder[n] \in {None, p}
      OBVIOUS
    <2>1. CASE n = s
      BY <2>1, <1>2 DEF Holder
    <2>2. CASE n # s
      <3>1. n \in Host /\ n \notin Sub /\ n \in l.hosts
        BY <2>2, <1>2, NamesAssumption DEF Directory!Names
      <3>2. QED
        BY <3>1, <1>2, <1>5 DEF Holder
    <2>3. QED
      BY <2>1, <2>2
  <1>9. ASSUME NEW n \in Sub \cup Host
        PROVE  Holder'[n] = CASE n \in Directory!Names(l) -> c
                              [] n \notin Directory!Names(l) /\ p # None /\ Holder[n] = p -> None
                              [] OTHER -> Holder[n]
    <2>1. CASE n = s
      BY <2>1, <1>1, <1>2, <1>3 DEF Holder, TypeOK, Directory!Names
    <2>2. CASE n \in Sub /\ n # s
      <3>1. n \notin Directory!Names(l)
        BY <2>2, <1>2, NamesAssumption DEF Directory!Names
      <3>2. Holder'[n] = Holder[n]
        BY <2>2, <1>1, <1>2, <1>3 DEF Holder, TypeOK
      <3>3. p # None => Holder[n] # p
        BY <2>2, <1>6 DEF Holder
      <3>4. QED
        BY <3>1, <3>2, <3>3
    <2>3. CASE n \notin Sub /\ n \in l.hosts
      BY <2>3, <1>1, <1>2, <1>3, NamesAssumption DEF Holder, TypeOK, Directory!Names
    <2>4. CASE n \notin Sub /\ n \notin l.hosts
      <3>1. n \in Host /\ n \notin Directory!Names(l)
        BY <2>4, <1>2 DEF Directory!Names
      <3>2. p # None => (n \in hello[p].hosts <=> customHosts[n] = s)
        BY <3>1, <1>1, <1>2 DEF HostsAgree
      <3>3. p = None => customHosts[n] # s
        BY <3>1, <1>1, <1>2 DEF HostsAgree
      <3>4. CASE p # None /\ n \in hello[p].hosts
        <4>1. Holder[n] = p
          BY <2>4, <3>1, <3>2, <3>4, <1>2, NamesAssumption DEF Holder
        <4>2. customHosts'[n] = None
          BY <2>4, <3>1, <3>4, <1>3 DEF HostsOf
        <4>3. Holder'[n] = None
          BY <4>2, <2>4, <3>1 DEF Holder
        <4>4. QED
          BY <3>1, <3>4, <4>1, <4>3
      <3>5. CASE ~(p # None /\ n \in hello[p].hosts)
        <4>1. customHosts'[n] = customHosts[n] /\ customHosts[n] # s
          BY <2>4, <3>1, <3>2, <3>3, <3>5, <1>3 DEF HostsOf
        <4>2. customHosts[n] \in Sub \cup {None}
          BY <3>1, <1>1 DEF TypeOK
        <4>3. customHosts[n] # None => tunnels'[customHosts[n]] = tunnels[customHosts[n]]
          BY <4>1, <4>2, <1>1, <1>3 DEF TypeOK
        <4>4. Holder'[n] = Holder[n]
          BY <2>4, <3>1, <4>1, <4>3 DEF Holder
        <4>5. p # None => Holder[n] # p
          BY <2>4, <3>1, <4>1, <4>2, <1>6, <1>2 DEF Holder
        <4>6. QED
          BY <3>1, <4>4, <4>5
      <3>6. QED
        BY <3>4, <3>5
    <2>5. QED
      BY <2>1, <2>2, <2>3, <2>4
  <1>10. Registered(c)' /\ \A d \in Conn \ {c} : Registered(d)' <=> Registered(d) /\ d # p
    <2>1. Registered(c)'
      BY <1>1, <1>2, <1>3 DEF Registered, TypeOK
    <2>2. ASSUME NEW d \in Conn \ {c}
          PROVE  Registered(d)' <=> Registered(d) /\ d # p
      BY <1>1, <1>2, <1>3, <1>6, NamesAssumption DEF Registered, TypeOK
    <2>3. QED
      BY <2>1, <2>2
  <1>11. CASE p = None
    <2>1. \A n \in Directory!Names(l) : Holder[n] = None
      BY <1>8, <1>11
    <2>2. Holder' = [n \in Sub \cup Host |->
                       IF n \in Directory!Names(l) THEN c ELSE Holder[n]]
      BY <1>9, <1>11 DEF Holder
    <2>3. LeaseOf' = [LeaseOf EXCEPT ![c] = l]
      BY <1>3, <1>10, <1>11, NamesAssumption DEF LeaseOf
    <2>4. QED
      BY <1>7, <2>1, <2>2, <2>3 DEF Directory!Bind
  <1>12. CASE p # None
    <2>1. p \in Conn /\ p # c /\ Registered(p) /\ hello[p] # None /\ hello[p].sub = s
      BY <1>1, <1>2, <1>4, <1>12 DEF Registered, RegisteredOwner
    <2>2. LeaseOf[p] = hello[p]
      BY <2>1 DEF LeaseOf
    <2>3. l.client # Anonymous /\ hello[p].client = l.client
      BY <1>12 DEF ClaimGranted, SubTaken
    <2>4. Holder' = [n \in Sub \cup Host |->
                       CASE n \in Directory!Names(l)                     -> c
                         [] n \notin Directory!Names(l) /\ Holder[n] = p -> None
                         [] OTHER                                        -> Holder[n]]
      BY <1>9, <1>12 DEF Holder
    <2>5. LeaseOf' = [LeaseOf EXCEPT ![c] = l, ![p] = None]
      BY <1>3, <1>10, <2>1 DEF LeaseOf
    <2>6. Directory!TakeOver(c, p, l)
      BY <1>7, <1>8, <2>1, <2>2, <2>3, <2>4, <2>5 DEF Directory!TakeOver
    <2>7. QED
      BY <2>1, <2>6
  <1>13. QED
    BY <1>11, <1>12

LEMMA AcceptRefines ==
  ASSUME IInv, NEW c \in Conn, NEW m \in Hello, Accept(c, m)
  PROVE  Directory!Connect(c)
  <1>1. ~Registered(c)
    BY NamesAssumption
    DEF Accept, IInv, TypeOK, HandlerHello, RegisteredOwner, Registered
  <1>2. Holder' = Holder /\ LeaseOf' = LeaseOf
    BY <1>1, MapUnchanged DEF Accept, IInv, TypeOK
  <1>3. Live' = Live \cup {c}
    BY DEF Accept, Live, IInv, TypeOK
  <1>4. QED
    BY <1>1, <1>2, <1>3 DEF Directory!Connect, LeaseOf

LEMMA StepRefines == IInv /\ [Next]_vars => [Directory!DirNext]_(Directory!dirVars)
  <1> SUFFICES ASSUME IInv, [Next]_vars
               PROVE  \/ Directory!DirNext
                      \/ UNCHANGED <<Holder, LeaseOf, Live>>
    BY DEF Directory!dirVars
  <1>1. ASSUME NEW c \in Conn, NEW m \in Hello, Accept(c, m)
        PROVE  Directory!DirNext
    BY <1>1, AcceptRefines DEF Directory!DirNext
  <1>2. ASSUME NEW c \in Conn, ClaimRefused(c)
        PROVE  Directory!DirNext
    <2>1. ~Registered(c)
      BY <1>2, NamesAssumption
      DEF ClaimRefused, IInv, TypeOK, RegisteredOwner, Registered
    <2>2. Holder' = Holder /\ LeaseOf' = LeaseOf
      BY <1>2, <2>1, MapUnchanged DEF ClaimRefused, IInv, TypeOK
    <2>3. QED
      BY <1>2, <2>2, ClosedDies DEF ClaimRefused, Directory!DirNext
  <1>3. ASSUME NEW c \in Conn, ClaimGranted(c)
        PROVE  Directory!DirNext
    <2>1. hello[c] \in Directory!Lease
      BY <1>3, NamesAssumption
      DEF ClaimGranted, IInv, TypeOK, HandlerHello, Hello, Directory!Lease
    <2>2. QED
      BY <1>3, <2>1, ClaimRefines DEF Directory!DirNext
  <1>4. ASSUME NEW c \in Conn, Reply(c) \/ Down(c)
        PROVE  UNCHANGED <<Holder, LeaseOf, Live>>
    BY <1>4 DEF Reply, Down, Holder, LeaseOf, Live, Registered
  <1>5. ASSUME NEW c \in Conn, DeferredClose(c) \/ PreemptedClose(c) \/ SessionDies(c)
        PROVE  Directory!DirNext
    <2>1. Holder' = Holder /\ LeaseOf' = LeaseOf
      BY <1>5, MapUnchanged DEF DeferredClose, PreemptedClose, SessionDies
    <2>2. QED
      BY <1>5, <2>1, ClosedDies
      DEF DeferredClose, PreemptedClose, SessionDies, Directory!DirNext
  <1>6. ASSUME NEW c \in Conn, DeferredRelease(c)
        PROVE  Directory!DirNext \/ UNCHANGED <<Holder, LeaseOf, Live>>
    <2>1. /\ hello[c].sub \in Sub /\ sess[c] = "closed"
          /\ release(hello[c].sub, c) /\ sess' = sess
          /\ \A d \in Conn : d # c => hello'[d] = hello[d]
      BY <1>6, HelloFields
      DEF DeferredRelease, IInv, TypeOK, HandlerHello, ClosedOnExit
    <2>2. QED
      BY <2>1, ReleaseRefines DEF Directory!DirNext
  <1>7. ASSUME NEW v \in Visitor,
               \/ \E s \in Sub : RouteBySub(v, s)
               \/ \E h \in Host : RouteByHost(v, h)
               \/ TurnedAway(v) \/ OpenStream(v)
        PROVE  UNCHANGED <<Holder, LeaseOf, Live>>
    BY <1>7 DEF RouteBySub, RouteByHost, TurnedAway, OpenStream,
                Holder, LeaseOf, Live, Registered
  <1>8. ASSUME NEW v \in Visitor, OpenFails(v)
        PROVE  Directory!DirNext
    <2>1. vtun[v] \in Conn /\ Holder' = Holder /\ LeaseOf' = LeaseOf
      BY <1>8, MapUnchanged DEF OpenFails, IInv, VisitorHolds
    <2>2. QED
      BY <1>8, <2>1, ClosedDies DEF OpenFails, Directory!DirNext
  <1>9. ASSUME NEW v \in Visitor, Evict(v)
        PROVE  Directory!DirNext \/ UNCHANGED <<Holder, LeaseOf, Live>>
    <2>1. /\ vtun[v] \in Conn /\ vsub[v] \in Sub /\ sess[vtun[v]] = "closed"
          /\ release(vsub[v], vtun[v]) /\ sess' = sess /\ hello' = hello
      BY <1>9 DEF Evict, IInv, VisitorHolds
    <2>2. QED
      BY <2>1, ReleaseRefines DEF Directory!DirNext
  <1>10. CASE UNCHANGED vars
    BY <1>10 DEF vars, Holder, LeaseOf, Live, Registered
  <1>11. QED
    BY <1>1, <1>2, <1>3, <1>4, <1>5, <1>6, <1>7, <1>8, <1>9, <1>10
    DEF Next, HandlerStep, VisitorStep

\* The registry with all its goroutines implements the directory of names:
\* leases begin, are taken over and end atomically, hostnames included.
THEOREM Refinement == Spec => ImplementsDirectory
  BY InitRefines, StepRefines, Invariance, PTL
  DEF Spec, ImplementsDirectory, Directory!DirSpec

-----------------------------------------------------------------------------
(* LAN-direct                                                              *)

\* DNS work is done by a handler before its reply, or as it unwinds; only a
\* handler with an address writes a record; and what the handler remembers of
\* its hello agrees with it until the record is written.
LanPhases ==
  \A c \in Conn :
    /\ lpc[c] \in {"predelete", "predeleting", "upsert", "written", "undo", "undoing"} =>
         pc[c] = "reply"
    /\ lpc[c] \in {"check", "teardown", "tearing"} => pc[c] = "unwind"
    /\ lpc[c] \in {"upsert", "written"} => lan[c] # None
    /\ pc[c] = "claim" \/ lpc[c] \in {"predelete", "predeleting", "upsert", "written"} =>
         lanOn[c] = (lan[c] # None)

LanBase == IInv /\ LanTypeOK /\ LanPhases

\* No address in the zone or in active; the handler's own in both.
Bare(s) == dns[s] = None /\ active[s] = None
Shown(s, a) == a # None /\ dns[s] = a /\ active[s] = a

\* What the record of s is while its one handler c is where it is.
Tracks(s, c) ==
  /\ lpc[c] \notin {"predelete", "predeleting"}
  /\ lpc[c] = "written" => dns[s] = lan[c]
  /\ lpc[c] \in {"undo", "teardown"} => Shown(s, lan[c])
  /\ lpc[c] \in {"undoing", "tearing"} => active[s] = None /\ dns[s] = doomed[c]
  /\ lpc[c] \in {"undo", "undoing"} => lanOn[c] = FALSE
  /\ lpc[c] = "check" \/ (lpc[c] = "ready" /\ pc[c] \in {"reply", "serving"}) =>
       IF lanOn[c] THEN Shown(s, lan[c]) ELSE Bare(s)
  /\ lpc[c] = "ready" /\ pc[c] \in {"unwind", "release"} => Bare(s)

LoneHandler == \A s \in alone : \A c, d \in HandlersOf(s) : c = d

Tracked ==
  \A s \in alone \cap calm :
    /\ HandlersOf(s) = {} => Bare(s)
    /\ \A c \in HandlersOf(s) : Tracks(s, c)

LanSure == LanBase /\ LoneHandler /\ Tracked

\* LAN-direct takes nothing from the tunnel server: each of its steps is one of
\* the server's, or none, or the restart.
LEMMA LanStepIs ==
  ASSUME LanNext
  PROVE  Next \/ UNCHANGED vars \/ Restart
  <1>1. ASSUME NEW c \in Conn, NEW m \in Hello, NEW l, LanAccept(c, m, l) PROVE Next
    BY <1>1 DEF LanAccept, Next
  <1>2. ASSUME NEW c \in Conn, LanHandlerStep(c) PROVE Next \/ UNCHANGED vars
    BY <1>2
       DEF LanHandlerStep, LanClaimRefused, LanClaimGranted, LanReply, LanDown,
           LanDeferredClose, LanDeferredRelease, DropPreempted, SetRecords, RecordActive,
           UndoPublish, TeardownCheck, TeardownDelete, Forget, DeleteRecords,
           Next, HandlerStep
  <1>3. ASSUME NEW v \in Visitor, LanRedirect(v) PROVE Next
    BY <1>3 DEF LanRedirect, Next, VisitorStep, TurnedAway
  <1>4. ASSUME Elsewhere PROVE Next
    BY <1>4 DEF Elsewhere, Next
  <1>5. QED
    BY <1>1, <1>2, <1>3, <1>4 DEF LanNext

LEMMA RestartIInv ==
  ASSUME Restart
  PROVE  IInv'
  <1> USE NamesAssumption DEF Restart
  <1>1. TypeOK'
    BY DEF TypeOK
  <1>2. HostsAgree' /\ HandlerHello' /\ RegisteredOwner' /\ ClosedOnExit'
    BY DEF HostsAgree, HandlerHello, RegisteredOwner, ClosedOnExit
  <1>3. VisitorHolds' /\ ReachableOrClosing'
    BY DEF VisitorHolds, ReachableOrClosing
  <1>4. QED
    BY <1>1, <1>2, <1>3 DEF IInv

LEMMA LanIInv == IInv /\ [LanNext]_allVars => IInv'
  BY LanStepIs, RestartIInv, NextIInv DEF allVars

\* LAN-direct with its DNS calls is the tunnel server, which may be restarted.
THEOREM LanIsTheServer == LanSpec => Init /\ [][Next \/ Restart]_vars
  <1>1. LanInit => Init
    BY DEF LanInit
  <1>2. [LanNext]_allVars => [Next \/ Restart]_vars
    BY LanStepIs DEF allVars
  <1>3. QED
    BY <1>1, <1>2, PTL DEF LanSpec

\* What makes the tunnel server correct survives LAN-direct and restarts.
THEOREM LanKeepsRegistry == LanSpec => [](HostsAgree /\ NoCorpse /\ NoOrphan)
  <1>1. LanInit => IInv
    BY InitIInv DEF LanInit
  <1>2. IInv => HostsAgree /\ NoCorpse /\ NoOrphan
    BY DEF IInv, NoCorpse, NoOrphan, TypeOK, HandlerHello, RegisteredOwner, ReachableOrClosing
  <1>3. QED
    BY <1>1, <1>2, LanIInv, PTL DEF LanSpec

LPhase == {"ready", "predelete", "predeleting", "upsert", "written",
           "undo", "undoing", "check", "teardown", "tearing"}

LEMMA LanKinds ==
  LanTypeOK <=>
    /\ lan \in [Conn -> IP \cup {None}]
    /\ lanOn \in [Conn -> BOOLEAN]
    /\ lpc \in [Conn -> LPhase]
    /\ doomed \in [Conn -> IP \cup {None}]
    /\ \A c \in Conn :
         doomed[c] # None <=> lpc[c] \in {"predeleting", "undoing", "tearing"}
    /\ active \in [Sub -> IP \cup {None}]
    /\ dns \in [Sub -> IP \cup {None}]
    /\ alone \subseteq Sub
    /\ calm \subseteq Sub
  BY DEF LanTypeOK, LPhase

LEMMA HandlerAtWork ==
  ASSUME LanBase, NEW c \in Conn, lpc[c] # "ready"
  PROVE  pc[c] \in {"reply", "unwind"} /\ hello[c] # None /\ hello[c].sub \in Sub
  <1>1. lpc[c] \in LPhase
    BY LanKinds DEF LanBase
  <1>2. pc[c] \in {"reply", "unwind"}
    BY <1>1 DEF LanBase, LanPhases, LPhase
  <1>3. hello[c] # None
    BY <1>2 DEF LanBase, IInv, HandlerHello
  <1>4. QED
    BY <1>2, <1>3, HelloFields DEF LanBase, IInv

LEMMA LanAcceptBase ==
  ASSUME LanBase, NEW c \in Conn, NEW m \in Hello, NEW l \in IP \cup {None},
         LanAccept(c, m, l)
  PROVE  LanTypeOK' /\ LanPhases'
  <1>1. /\ pc[c] = "gone" /\ pc' = [pc EXCEPT ![c] = "claim"]
        /\ lan' = [lan EXCEPT ![c] = l] /\ lanOn' = [lanOn EXCEPT ![c] = (l # None)]
        /\ lpc' = [lpc EXCEPT ![c] = "ready"]
        /\ UNCHANGED <<doomed, active, dns, alone, calm>>
    BY DEF LanAccept, Accept, Goto, LGoto
  <1>2. lpc[c] = "ready"
    BY <1>1, HandlerAtWork
  <1>3. lpc' = lpc /\ lan' \in [Conn -> IP \cup {None}]
    BY <1>1, <1>2, LanKinds DEF LanBase
  <1>4. lanOn' \in [Conn -> BOOLEAN]
    BY <1>1, LanKinds DEF LanBase
  <1>5. LanTypeOK'
    BY <1>1, <1>3, <1>4 DEF LanTypeOK, LanBase
  <1>6. ASSUME NEW d \in Conn
        PROVE  pc'[d] = "claim" \/ lpc'[d] \in {"predelete", "predeleting", "upsert", "written"}
                 => lanOn'[d] = (lan'[d] # None)
    <2>1. CASE d = c
      BY <1>1, <2>1, LanKinds DEF LanBase
    <2>2. CASE d # c
      <3>1. /\ pc'[d] = pc[d] /\ lpc'[d] = lpc[d] /\ lanOn'[d] = lanOn[d]
            /\ lan'[d] = lan[d]
        BY <1>1, <2>2, LanKinds DEF LanBase, IInv, TypeOK
      <3>2. QED
        BY <3>1 DEF LanBase, LanPhases
    <2>3. QED
      BY <2>1, <2>2
  <1>7. LanPhases'
    BY <1>1, <1>2, <1>3, <1>6, LanKinds DEF LanPhases, LanBase, IInv, TypeOK
  <1>8. QED
    BY <1>5, <1>7

\* A handler that returns takes its hello with it.
LEMMA LanReturnBase ==
  ASSUME LanBase, NEW c \in Conn, LanClaimRefused(c) \/ LanDeferredRelease(c)
  PROVE  LanTypeOK' /\ LanPhases'
  <1>1. /\ pc[c] \in {"claim", "release"} /\ pc' = [pc EXCEPT ![c] = "gone"]
        /\ lan' = [lan EXCEPT ![c] = None] /\ lanOn' = [lanOn EXCEPT ![c] = FALSE]
        /\ UNCHANGED <<lpc, doomed, active, dns, alone, calm>>
    BY DEF LanClaimRefused, LanDeferredRelease, ClaimRefused, DeferredRelease, Goto
  <1>2. lpc[c] = "ready"
    BY <1>1, HandlerAtWork
  <1>3. lan' \in [Conn -> IP \cup {None}] /\ lanOn' \in [Conn -> BOOLEAN]
    BY <1>1, LanKinds DEF LanBase
  <1>4. LanTypeOK'
    BY <1>1, <1>3 DEF LanTypeOK, LanBase
  <1>5. pc \in [Conn -> {"gone", "claim", "reply", "serving", "unwind", "release"}]
    BY DEF LanBase, IInv, TypeOK
  <1>6. ASSUME NEW d \in Conn, d # c
        PROVE  pc'[d] = pc[d] /\ lan'[d] = lan[d] /\ lanOn'[d] = lanOn[d]
    BY <1>1, <1>5, <1>6, LanKinds DEF LanBase
  <1>7. pc'[c] = "gone"
    BY <1>1, <1>5
  <1>8. LanPhases'
    <2>1. ASSUME NEW d \in Conn
          PROVE  /\ lpc'[d] \in {"predelete", "predeleting", "upsert", "written", "undo",
                                 "undoing"} => pc'[d] = "reply"
                 /\ lpc'[d] \in {"check", "teardown", "tearing"} => pc'[d] = "unwind"
                 /\ lpc'[d] \in {"upsert", "written"} => lan'[d] # None
                 /\ pc'[d] = "claim"
                      \/ lpc'[d] \in {"predelete", "predeleting", "upsert", "written"} =>
                    lanOn'[d] = (lan'[d] # None)
      <3>1. CASE d = c
        BY <1>1, <1>2, <1>7, <3>1
      <3>2. CASE d # c
        BY <1>1, <1>6, <3>2 DEF LanBase, LanPhases
      <3>3. QED
        BY <3>1, <3>2
    <2>2. QED
      BY <2>1 DEF LanPhases
  <1>9. QED
    BY <1>4, <1>8

\* A handler that is where it is, or goes on, with the same hello.
LEMMA LanGoesOn ==
  ASSUME LanBase, NEW c \in Conn, NEW phase \in LPhase,
         lpc' = [lpc EXCEPT ![c] = phase],
         doomed' \in [Conn -> IP \cup {None}],
         \A d \in Conn : d # c => doomed'[d] = doomed[d] /\ pc'[d] = pc[d],
         doomed'[c] # None <=> phase \in {"predeleting", "undoing", "tearing"},
         active' \in [Sub -> IP \cup {None}], dns' \in [Sub -> IP \cup {None}],
         alone' \subseteq Sub, calm' \subseteq Sub,
         lan' = lan,
         \/ lanOn' = lanOn
         \/ phase = "undo" /\ lanOn' = [lanOn EXCEPT ![c] = FALSE],
         phase \in {"predelete", "predeleting", "upsert", "written", "undo", "undoing"} =>
           pc'[c] = "reply",
         phase \in {"check", "teardown", "tearing"} => pc'[c] = "unwind",
         phase \in {"upsert", "written"} => lan[c] # None,
         pc'[c] # "claim",
         phase \in {"predelete", "predeleting", "upsert", "written"} =>
           pc[c] = "claim" \/ lpc[c] \in {"predelete", "predeleting", "upsert", "written"}
  PROVE  LanTypeOK' /\ LanPhases'
  <1>1. lpc' \in [Conn -> LPhase] /\ lpc'[c] = phase
        /\ \A d \in Conn : d # c => lpc'[d] = lpc[d]
    BY LanKinds DEF LanBase
  <1>2. lanOn' \in [Conn -> BOOLEAN]
    BY LanKinds DEF LanBase
  <1>3. LanTypeOK'
    <2>1. \A d \in Conn :
            doomed'[d] # None <=> lpc'[d] \in {"predeleting", "undoing", "tearing"}
      BY <1>1, LanKinds DEF LanBase
    <2>2. lan \in [Conn -> IP \cup {None}]
      BY LanKinds DEF LanBase
    <2>3. QED
      BY <1>1, <1>2, <2>1, <2>2 DEF LanTypeOK, LPhase
  <1>4. \A d \in Conn : d # c => lanOn'[d] = lanOn[d]
    BY LanKinds DEF LanBase
  <1>5. phase # "undo" => lanOn'[c] = lanOn[c]
    OBVIOUS
  <1>6. ASSUME NEW d \in Conn
        PROVE  /\ lpc'[d] \in {"predelete", "predeleting", "upsert", "written", "undo",
                               "undoing"} => pc'[d] = "reply"
               /\ lpc'[d] \in {"check", "teardown", "tearing"} => pc'[d] = "unwind"
               /\ lpc'[d] \in {"upsert", "written"} => lan[d] # None
               /\ pc'[d] = "claim"
                    \/ lpc'[d] \in {"predelete", "predeleting", "upsert", "written"} =>
                  lanOn'[d] = (lan[d] # None)
    <2>1. CASE d = c
      <3>1. lpc'[c] = phase
        BY <1>1
      <3>2. phase \in {"predelete", "predeleting", "upsert", "written"} =>
              lanOn'[c] = (lan[c] # None)
        BY <1>5 DEF LanBase, LanPhases
      <3>3. QED
        BY <2>1, <3>1, <3>2
    <2>2. CASE d # c
      BY <1>1, <1>4, <2>2 DEF LanBase, LanPhases
    <2>3. QED
      BY <2>1, <2>2
  <1>7. LanPhases'
    BY <1>6 DEF LanPhases
  <1>8. QED
    BY <1>3, <1>7

\* DeleteA, wherever it is called.
LEMMA ForgetBase ==
  ASSUME LanBase, NEW c \in Conn, NEW at \in LPhase \ {"ready"}, NEW during, NEW next,
         \/ at = "predelete" /\ during = "predeleting" /\ next = AfterPredelete(c)
         \/ at = "undo" /\ during = "undoing" /\ next = "ready"
         \/ at = "teardown" /\ during = "tearing" /\ next = "ready",
         \/ Forget(c, at, during, next)
         \/ DeleteRecords(c, during, next)
  PROVE  LanTypeOK' /\ LanPhases'
  <1> DEFINE s == hello[c].sub
  <1>1. lpc[c] \in {at, during} /\ lpc[c] # "ready" /\ UNCHANGED <<vars, lan, lanOn, alone>>
    BY DEF Forget, DeleteRecords
  <1>2. s \in Sub
    BY <1>1, HandlerAtWork
  <1>3. /\ next \in {"ready", "upsert"} /\ next \notin {during, "predeleting", "undoing", "tearing"}
        /\ next = "upsert" => lan[c] # None /\ lpc[c] \in {"predelete", "predeleting"}
    BY <1>1 DEF AfterPredelete
  <1>4. /\ pc[c] # "claim"
        /\ lpc[c] \in {"predelete", "predeleting", "undo", "undoing"} => pc[c] = "reply"
        /\ lpc[c] \in {"teardown", "tearing"} => pc[c] = "unwind"
    BY <1>1, HandlerAtWork DEF LanBase, LanPhases
  <1>5. /\ active \in [Sub -> IP \cup {None}] /\ dns \in [Sub -> IP \cup {None}]
        /\ doomed \in [Conn -> IP \cup {None}] /\ lpc \in [Conn -> LPhase]
        /\ alone \subseteq Sub /\ calm \subseteq Sub
    BY LanKinds DEF LanBase
  <1>6. pc' = pc /\ lan' = lan /\ lanOn' = lanOn /\ alone' \subseteq Sub
    BY <1>1, <1>5 DEF vars
  <1>7. CASE Forget(c, at, during, next)
    <2>1. /\ lpc' = [lpc EXCEPT ![c] = IF active[s] = None THEN next ELSE during]
          /\ doomed' = [doomed EXCEPT ![c] = active[s]]
          /\ active' = [active EXCEPT ![s] = None]
          /\ UNCHANGED <<dns, calm>>
          /\ lpc[c] = at
      BY <1>7 DEF Forget, LGoto
    <2> DEFINE phase == IF active[s] = None THEN next ELSE during
    <2>2. phase \in LPhase /\ lpc' = [lpc EXCEPT ![c] = phase]
      BY <1>3, <2>1 DEF LPhase
    <2>3. doomed'[c] # None <=> phase \in {"predeleting", "undoing", "tearing"}
      BY <1>2, <1>3, <1>5, <2>1
    <2>4. /\ doomed' \in [Conn -> IP \cup {None}] /\ active' \in [Sub -> IP \cup {None}]
          /\ \A d \in Conn : d # c => doomed'[d] = doomed[d]
      BY <1>2, <1>5, <2>1
    <2>5. /\ phase \in {"predelete", "predeleting", "upsert", "written", "undo", "undoing"} =>
               pc[c] = "reply"
          /\ phase \in {"check", "teardown", "tearing"} => pc[c] = "unwind"
          /\ phase \in {"upsert", "written"} => lan[c] # None
          /\ phase # "undo"
          /\ phase \in {"predelete", "predeleting", "upsert", "written"} =>
               lpc[c] \in {"predelete", "predeleting", "upsert", "written"}
      BY <1>3, <1>4, <2>1
    <2> HIDE DEF phase
    <2>6. dns' \in [Sub -> IP \cup {None}] /\ calm' \subseteq Sub
      BY <1>5, <2>1
    <2>7. QED
      BY <1>4, <1>6, <2>2, <2>3, <2>4, <2>5, <2>6, LanGoesOn
  <1>8. CASE DeleteRecords(c, during, next)
    <2>1. /\ lpc' = [lpc EXCEPT ![c] = next] /\ lpc[c] = during
          /\ doomed' = [doomed EXCEPT ![c] = None]
          /\ UNCHANGED active
          /\ calm' = calm \/ calm' = calm \ {s}
      BY <1>8 DEF DeleteRecords, LGoto
    <2>2. dns' \in [Sub -> IP \cup {None}]
      <3>1. \/ dns' = [dns EXCEPT ![s] = IF @ = doomed[c] THEN None ELSE @]
            \/ dns' = dns
        BY <1>8 DEF DeleteRecords
      <3>2. QED
        BY <1>2, <1>5, <3>1
    <2>3. next \in LPhase
      BY <1>3 DEF LPhase
    <2>4. /\ doomed' \in [Conn -> IP \cup {None}] /\ doomed'[c] = None
          /\ \A d \in Conn : d # c => doomed'[d] = doomed[d]
      BY <1>5, <2>1
    <2>5. next \in {"ready", "upsert"} /\ next = "upsert" =>
            lan[c] # None /\ lpc[c] \in {"predelete", "predeleting"} /\ pc[c] = "reply"
      BY <1>3, <1>4
    <2>6. active' \in [Sub -> IP \cup {None}] /\ calm' \subseteq Sub
      BY <1>5, <2>1
    <2>7. QED
      BY <1>3, <1>4, <1>6, <2>1, <2>2, <2>3, <2>4, <2>5, <2>6, LanGoesOn
  <1>9. QED
    BY <1>7, <1>8

LEMMA UpsertBase ==
  ASSUME LanBase, NEW c \in Conn, SetRecords(c) \/ RecordActive(c)
  PROVE  LanTypeOK' /\ LanPhases'
  <1> DEFINE s == hello[c].sub
  <1>1. /\ lpc[c] \in {"upsert", "written"}
        /\ UNCHANGED <<vars, lan, doomed, alone>>
    BY DEF SetRecords, RecordActive
  <1>2. s \in Sub /\ pc[c] = "reply" /\ lan[c] # None
    BY <1>1, HandlerAtWork DEF LanBase, LanPhases
  <1>3. /\ active \in [Sub -> IP \cup {None}] /\ dns \in [Sub -> IP \cup {None}]
        /\ doomed \in [Conn -> IP \cup {None}] /\ lpc \in [Conn -> LPhase]
        /\ alone \subseteq Sub /\ calm \subseteq Sub /\ lan \in [Conn -> IP \cup {None}]
        /\ doomed[c] = None
    BY <1>1, LanKinds DEF LanBase
  <1>4. /\ pc' = pc /\ lan' = lan /\ alone' \subseteq Sub /\ doomed' = doomed
    BY <1>1, <1>3 DEF vars
  <1>5. PICK phase \in {"ready", "written", "undo"} :
          /\ lpc' = [lpc EXCEPT ![c] = phase]
          /\ phase = "written" => lpc[c] = "upsert"
          /\ \/ lanOn' = lanOn
             \/ phase = "undo" /\ lanOn' = [lanOn EXCEPT ![c] = FALSE]
    BY DEF SetRecords, RecordActive, LGoto
  <1>6. /\ active' = active \/ active' = [active EXCEPT ![s] = lan[c]]
        /\ dns' = dns \/ dns' = [dns EXCEPT ![s] = lan[c]]
        /\ calm' = calm \/ calm' = calm \ {s}
    BY DEF SetRecords, RecordActive
  <1>7. /\ active' \in [Sub -> IP \cup {None}] /\ dns' \in [Sub -> IP \cup {None}]
        /\ calm' \subseteq Sub /\ phase \in LPhase
    BY <1>2, <1>3, <1>6 DEF LPhase
  <1>8. QED
    BY <1>1, <1>2, <1>3, <1>4, <1>5, <1>7, LanGoesOn

LEMMA CheckBase ==
  ASSUME LanBase, NEW c \in Conn, TeardownCheck(c)
  PROVE  LanTypeOK' /\ LanPhases'
  <1>1. /\ lpc[c] = "check"
        /\ UNCHANGED <<vars, lan, lanOn, doomed, active, dns, alone, calm>>
    BY DEF TeardownCheck
  <1>2. pc[c] = "unwind"
    BY <1>1 DEF LanBase, LanPhases
  <1>3. /\ active \in [Sub -> IP \cup {None}] /\ dns \in [Sub -> IP \cup {None}]
        /\ doomed \in [Conn -> IP \cup {None}]
        /\ alone \subseteq Sub /\ calm \subseteq Sub /\ doomed[c] = None
    BY <1>1, LanKinds DEF LanBase
  <1>4. PICK phase \in {"ready", "teardown"} : lpc' = [lpc EXCEPT ![c] = phase]
    BY DEF TeardownCheck, LGoto
  <1>5. phase \in LPhase /\ pc' = pc
    BY <1>1 DEF LPhase, vars
  <1>6. QED
    BY <1>1, <1>2, <1>3, <1>4, <1>5, LanGoesOn

LEMMA GrantedBase ==
  ASSUME LanBase, NEW c \in Conn, LanClaimGranted(c)
  PROVE  LanTypeOK' /\ LanPhases'
  <1> DEFINE s == hello[c].sub
  <1>1. /\ pc[c] = "claim" /\ pc' = [pc EXCEPT ![c] = "reply"]
        /\ UNCHANGED <<lan, lanOn, doomed, active, dns>>
        /\ alone' \in {alone \cup {s}, alone, alone \ {s}}
        /\ calm' \in {calm \cup {s}, calm}
    BY DEF LanClaimGranted, ClaimGranted, Goto
  <1>2. lpc[c] = "ready"
    BY <1>1, HandlerAtWork
  <1>3. hello[c].sub \in Sub
    BY <1>1, HelloFields DEF LanBase, IInv, HandlerHello
  <1>4. /\ active \in [Sub -> IP \cup {None}] /\ dns \in [Sub -> IP \cup {None}]
        /\ doomed \in [Conn -> IP \cup {None}] /\ doomed[c] = None
        /\ alone' \subseteq Sub /\ calm' \subseteq Sub
    BY <1>1, <1>2, <1>3, LanKinds DEF LanBase
  <1>5. PICK phase \in {"predelete", "upsert", "ready"} :
          lpc' = [lpc EXCEPT ![c] = phase] /\ (phase = "upsert" => lan[c] # None)
    BY DEF LanClaimGranted, LGoto
  <1>6. phase \in LPhase /\ pc'[c] = "reply" /\ \A d \in Conn : d # c => pc'[d] = pc[d]
    BY <1>1 DEF LPhase, LanBase, IInv, TypeOK
  <1>7. QED
    BY <1>1, <1>4, <1>5, <1>6, LanGoesOn

LEMMA MovesBase ==
  ASSUME LanBase, NEW c \in Conn, LanReply(c) \/ LanDown(c) \/ LanDeferredClose(c)
  PROVE  LanTypeOK' /\ LanPhases'
  <1>1. /\ pc[c] \in {"reply", "serving", "unwind"}
        /\ UNCHANGED <<lan, lanOn, doomed, active, dns, alone, calm>>
    BY DEF LanReply, LanDown, LanDeferredClose, Reply, Down, DeferredClose, lanVars
  <1>2. lpc[c] = "ready"
    BY HandlerAtWork DEF LanReply, LanDown, LanDeferredClose, Down
  <1>3. /\ active \in [Sub -> IP \cup {None}] /\ dns \in [Sub -> IP \cup {None}]
        /\ doomed \in [Conn -> IP \cup {None}] /\ doomed[c] = None
        /\ alone \subseteq Sub /\ calm \subseteq Sub /\ lpc \in [Conn -> LPhase]
        /\ pc \in [Conn -> {"gone", "claim", "reply", "serving", "unwind", "release"}]
    BY <1>2, LanKinds DEF LanBase, IInv, TypeOK
  <1>4. PICK at \in {"serving", "unwind", "release"} : pc' = [pc EXCEPT ![c] = at]
    BY DEF LanReply, LanDown, LanDeferredClose, Reply, Down, DeferredClose, Goto
  <1>5. pc'[c] = at
    BY <1>3, <1>4
  <1>6. PICK phase \in {"ready", "check"} :
          lpc' = [lpc EXCEPT ![c] = phase] /\ (phase = "check" => at = "unwind")
    <2>1. CASE LanReply(c)
      BY <1>5, <2>1 DEF LanReply, LGoto
    <2>2. CASE LanDown(c)
      BY <1>3, <1>5, <2>2 DEF LanDown, Down, Goto, LGoto
    <2>3. CASE LanDeferredClose(c)
      <3>1. lpc' = [lpc EXCEPT ![c] = "ready"]
        BY <1>2, <1>3, <2>3 DEF LanDeferredClose, lanVars
      <3>2. QED
        BY <3>1
    <2>4. QED
      BY <2>1, <2>2, <2>3
  <1>7. phase \in LPhase /\ \A d \in Conn : d # c => pc'[d] = pc[d]
    BY <1>3, <1>4 DEF LPhase
  <1>8. QED
    BY <1>1, <1>3, <1>4, <1>5, <1>6, <1>7, LanGoesOn

LEMMA RestartBase ==
  ASSUME LanBase, Restart
  PROVE  LanTypeOK' /\ LanPhases'
  <1>1. /\ \A c \in Conn : /\ pc'[c] = "gone" /\ lan'[c] = None /\ lanOn'[c] = FALSE
                           /\ lpc'[c] = "ready" /\ doomed'[c] = None
        /\ lan' \in [Conn -> IP \cup {None}] /\ lanOn' \in [Conn -> BOOLEAN]
        /\ lpc' \in [Conn -> LPhase] /\ doomed' \in [Conn -> IP \cup {None}]
        /\ active' \in [Sub -> IP \cup {None}]
        /\ alone' = Sub /\ calm' = {} /\ dns' = dns
    BY DEF Restart, LPhase
  <1>2. LanPhases'
    BY <1>1 DEF LanPhases
  <1>3. LanTypeOK'
    BY <1>1 DEF LanTypeOK, LanBase, LPhase
  <1>4. QED
    BY <1>2, <1>3

LEMMA ElsewhereKeeps ==
  ASSUME LanNext, Elsewhere \/ \E v \in Visitor : LanRedirect(v)
  PROVE  UNCHANGED <<pc, hello>> /\ UNCHANGED lanVars
  BY DEF Elsewhere, LanRedirect, PreemptedClose, SessionDies, RouteBySub, RouteByHost,
         VisitorStep, TurnedAway, OpenStream, OpenFails, Evict

LEMMA LanStepBase == LanBase /\ [LanNext]_allVars => LanBase'
  <1> SUFFICES ASSUME LanBase, [LanNext]_allVars PROVE LanTypeOK' /\ LanPhases'
    BY LanIInv DEF LanBase
  <1>1. ASSUME NEW c \in Conn, LanHandlerStep(c) PROVE LanTypeOK' /\ LanPhases'
    <2>1. CASE DropPreempted(c)
      BY <2>1, ForgetBase DEF DropPreempted, LPhase
    <2>2. CASE UndoPublish(c)
      BY <2>2, ForgetBase DEF UndoPublish, LPhase
    <2>3. CASE TeardownDelete(c)
      BY <2>3, ForgetBase DEF TeardownDelete, LPhase
    <2>4. QED
      BY <1>1, <2>1, <2>2, <2>3, LanReturnBase, UpsertBase, CheckBase, GrantedBase, MovesBase
         DEF LanHandlerStep
  <1>2. CASE UNCHANGED <<pc, lanVars>>
    BY <1>2 DEF lanVars, LanBase, LanTypeOK, LanPhases
  <1>3. CASE LanNext
    <2>1. CASE Elsewhere \/ \E v \in Visitor : LanRedirect(v)
      BY <1>2, <1>3, <2>1, ElsewhereKeeps
    <2>2. QED
      BY <1>1, <1>3, <2>1, LanAcceptBase, RestartBase DEF LanNext
  <1>4. QED
    BY <1>2, <1>3 DEF allVars, vars

LEMMA InitLanBase == LanInit => LanBase
  <1> SUFFICES ASSUME LanInit PROVE LanBase
    OBVIOUS
  <1>1. \A c \in Conn : pc[c] = "gone" /\ lpc[c] = "ready" /\ doomed[c] = None
    BY DEF LanInit, Init
  <1>2. IInv
    BY InitIInv DEF LanInit
  <1>3. LanTypeOK /\ LanPhases
    BY <1>1 DEF LanInit, LanTypeOK, LanPhases
  <1>4. QED
    BY <1>2, <1>3 DEF LanBase

\* The kinds of LAN-direct's values; a DeleteA in progress has its address.
THEOREM LanTypes == LanSpec => []LanTypeOK
  <1>1. LanBase => LanTypeOK
    BY DEF LanBase
  <1>2. QED
    BY <1>1, InitLanBase, LanStepBase, PTL DEF LanSpec

(* The record of a lone tunnel.                                            *)

\* The handlers and what is known of each are as they were.
LEMMA NobodyMoves ==
  ASSUME LoneHandler, Tracked, alone' \subseteq alone, calm' \subseteq calm,
         \A s \in Sub : HandlersOf(s)' = HandlersOf(s),
         UNCHANGED <<dns, active>>,
         alone \subseteq Sub,
         \A s \in Sub : \A d \in HandlersOf(s) :
           /\ lpc'[d] = lpc[d] /\ lan'[d] = lan[d] /\ lanOn'[d] = lanOn[d]
           /\ doomed'[d] = doomed[d] /\ pc'[d] = pc[d]
  PROVE  LoneHandler' /\ Tracked'
  <1>1. LoneHandler'
    BY DEF LoneHandler
  <1>2. ASSUME NEW s \in (alone \cap calm)'
        PROVE  /\ HandlersOf(s)' = {} => Bare(s)'
               /\ \A d \in HandlersOf(s)' : Tracks(s, d)'
    <2>1. s \in alone \cap calm /\ s \in Sub
      BY <1>2
    <2>2. HandlersOf(s)' = {} => Bare(s)'
      BY <2>1 DEF Tracked, Bare
    <2>3. ASSUME NEW d \in HandlersOf(s)' PROVE Tracks(s, d)'
      <3>1. Tracks(s, d) /\ d \in HandlersOf(s)
        BY <2>1, <2>3 DEF Tracked
      <3>2. QED
        BY <2>1, <3>1 DEF Tracks, Shown, Bare
    <2>4. QED
      BY <2>2, <2>3
  <1>3. QED
    BY <1>1, <1>2 DEF Tracked

\* A handler does something about the record of its own subdomain, or moves on.
LEMMA OneMoves ==
  ASSUME LanSure, NEW c \in Conn, NEW s \in Sub, c \in HandlersOf(s),
         \A r \in Sub : HandlersOf(r)' = HandlersOf(r),
         alone' = alone, calm' \subseteq calm,
         \A r \in Sub : r # s => dns'[r] = dns[r] /\ active'[r] = active[r],
         \A d \in Conn : d # c =>
           /\ lpc'[d] = lpc[d] /\ lan'[d] = lan[d] /\ lanOn'[d] = lanOn[d]
           /\ doomed'[d] = doomed[d] /\ pc'[d] = pc[d],
         s \in alone /\ s \in calm' /\ Tracks(s, c) => Tracks(s, c)'
  PROVE  LoneHandler' /\ Tracked'
  <1>1. LoneHandler /\ Tracked /\ alone \subseteq Sub
    BY LanKinds DEF LanSure, LanBase
  <1>2. LoneHandler'
    BY <1>1 DEF LoneHandler
  <1>3. c \notin HandlersOf(s) \/ \A r \in Sub : r # s => c \notin HandlersOf(r)
    BY DEF HandlersOf
  <1>4. ASSUME NEW r \in (alone \cap calm)'
        PROVE  /\ HandlersOf(r)' = {} => Bare(r)'
               /\ \A d \in HandlersOf(r)' : Tracks(r, d)'
    <2>1. r \in alone \cap calm /\ r \in Sub /\ r \in calm'
      BY <1>1, <1>4
    <2>2. CASE r = s
      <3>1. \A d \in HandlersOf(s) : d = c
        BY <1>1, <2>1, <2>2 DEF LoneHandler
      <3>2. Tracks(s, c)
        BY <1>1, <2>1, <2>2 DEF Tracked
      <3>3. QED
        BY <2>1, <2>2, <3>1, <3>2
    <2>3. CASE r # s
      <3>1. HandlersOf(r)' = {} => Bare(r)'
        BY <1>1, <2>1, <2>3 DEF Tracked, Bare
      <3>2. ASSUME NEW d \in HandlersOf(r)' PROVE Tracks(r, d)'
        <4>1. Tracks(r, d) /\ d \in HandlersOf(r) /\ d # c /\ d \in Conn
          BY <1>1, <1>3, <2>1, <2>3, <3>2 DEF Tracked, HandlersOf
        <4>2. QED
          BY <2>1, <2>3, <4>1 DEF Tracks, Shown, Bare
      <3>3. QED
        BY <3>1, <3>2
    <2>4. QED
      BY <2>2, <2>3
  <1>5. QED
    BY <1>2, <1>4 DEF Tracked

LEMMA LanAcceptSure ==
  ASSUME LanSure, NEW c \in Conn, NEW m \in Hello, NEW l, LanAccept(c, m, l)
  PROVE  LoneHandler' /\ Tracked'
  <1>1. /\ pc \in [Conn -> {"gone", "claim", "reply", "serving", "unwind", "release"}]
        /\ hello \in [Conn -> Hello \cup {None}]
        /\ lan \in [Conn -> IP \cup {None}] /\ lanOn \in [Conn -> BOOLEAN]
        /\ lpc \in [Conn -> LPhase] /\ alone \subseteq Sub
    BY LanKinds DEF LanSure, LanBase, IInv, TypeOK
  <1>2. /\ pc[c] = "gone" /\ pc' = [pc EXCEPT ![c] = "claim"]
        /\ hello' = [hello EXCEPT ![c] = m]
        /\ lan' = [lan EXCEPT ![c] = l] /\ lanOn' = [lanOn EXCEPT ![c] = (l # None)]
        /\ lpc' = [lpc EXCEPT ![c] = "ready"]
        /\ UNCHANGED <<doomed, active, dns, alone, calm>>
    BY DEF LanAccept, Accept, Goto, LGoto
  <1>3. \A s \in Sub : HandlersOf(s)' = HandlersOf(s) /\ c \notin HandlersOf(s)
    BY <1>1, <1>2 DEF HandlersOf
  <1>4. ASSUME NEW s \in Sub, NEW d \in HandlersOf(s)
        PROVE  /\ lpc'[d] = lpc[d] /\ lan'[d] = lan[d] /\ lanOn'[d] = lanOn[d]
               /\ doomed'[d] = doomed[d] /\ pc'[d] = pc[d]
    <2>1. d \in Conn /\ d # c
      BY <1>3, <1>4 DEF HandlersOf
    <2>2. QED
      BY <1>1, <1>2, <2>1
  <1>5. QED
    BY <1>1, <1>2, <1>3, <1>4, NobodyMoves DEF LanSure

LEMMA LanReturnSure ==
  ASSUME LanSure, NEW c \in Conn, LanClaimRefused(c) \/ LanDeferredRelease(c)
  PROVE  LoneHandler' /\ Tracked'
  <1>1. /\ pc \in [Conn -> {"gone", "claim", "reply", "serving", "unwind", "release"}]
        /\ hello \in [Conn -> Hello \cup {None}]
        /\ lan \in [Conn -> IP \cup {None}] /\ lanOn \in [Conn -> BOOLEAN]
        /\ alone \subseteq Sub /\ LoneHandler /\ Tracked
    BY LanKinds DEF LanSure, LanBase, IInv, TypeOK
  <1>2. /\ pc[c] \in {"claim", "release"} /\ pc' = [pc EXCEPT ![c] = "gone"]
        /\ hello' = [hello EXCEPT ![c] = None]
        /\ lan' = [lan EXCEPT ![c] = None] /\ lanOn' = [lanOn EXCEPT ![c] = FALSE]
        /\ UNCHANGED <<lpc, doomed, active, dns, alone, calm>>
    BY DEF LanClaimRefused, LanDeferredRelease, ClaimRefused, DeferredRelease, Goto
  <1>3. lpc[c] = "ready"
    BY <1>2, HandlerAtWork DEF LanSure
  <1>4. \A s \in Sub : HandlersOf(s)' = HandlersOf(s) \ {c}
    BY <1>1, <1>2 DEF HandlersOf
  <1>5. \A d \in Conn : d # c =>
          lan'[d] = lan[d] /\ lanOn'[d] = lanOn[d] /\ pc'[d] = pc[d]
    BY <1>1, <1>2
  <1>6. LoneHandler'
    BY <1>1, <1>2, <1>4 DEF LoneHandler
  <1>7. ASSUME NEW s \in (alone \cap calm)'
        PROVE  /\ HandlersOf(s)' = {} => Bare(s)'
               /\ \A d \in HandlersOf(s)' : Tracks(s, d)'
    <2>1. s \in alone \cap calm /\ s \in Sub
      BY <1>1, <1>2, <1>7
    <2>2. HandlersOf(s)' = {} => Bare(s)'
      <3>1. SUFFICES ASSUME HandlersOf(s) \ {c} = {} PROVE Bare(s)
        BY <1>2, <1>4, <2>1 DEF Bare
      <3>2. CASE c \in HandlersOf(s)
        <4>1. pc[c] = "release"
          BY <1>2, <3>2 DEF HandlersOf
        <4>2. Tracks(s, c)
          BY <1>1, <2>1, <3>2 DEF Tracked
        <4>3. QED
          BY <1>3, <4>1, <4>2 DEF Tracks
      <3>3. CASE c \notin HandlersOf(s)
        <4>1. HandlersOf(s) = {}
          BY <3>1, <3>3
        <4>2. QED
          BY <1>1, <2>1, <4>1 DEF Tracked
      <3>4. QED
        BY <3>2, <3>3
    <2>3. ASSUME NEW d \in HandlersOf(s)' PROVE Tracks(s, d)'
      <3>1. Tracks(s, d) /\ d \in Conn /\ d # c
        BY <1>1, <1>4, <2>1, <2>3 DEF Tracked, HandlersOf
      <3>2. QED
        BY <1>2, <1>5, <3>1 DEF Tracks, Shown, Bare
    <2>4. QED
      BY <2>2, <2>3
  <1>8. QED
    BY <1>6, <1>7 DEF Tracked

LEMMA LanGrantedSure ==
  ASSUME LanSure, NEW c \in Conn, LanClaimGranted(c)
  PROVE  LoneHandler' /\ Tracked'
  <1>1. /\ pc \in [Conn -> {"gone", "claim", "reply", "serving", "unwind", "release"}]
        /\ lpc \in [Conn -> LPhase] /\ tunnels \in [Sub -> Conn \cup {None}]
        /\ alone \subseteq Sub /\ LoneHandler /\ Tracked
    BY LanKinds DEF LanSure, LanBase, IInv, TypeOK
  <1>2. /\ pc[c] = "claim" /\ pc' = [pc EXCEPT ![c] = "reply"] /\ hello' = hello
        /\ UNCHANGED <<lan, lanOn, doomed, active, dns>>
    BY DEF LanClaimGranted, ClaimGranted, Goto
  <1>3. hello[c].sub \in Sub
    BY <1>2, HelloFields DEF LanSure, LanBase, IInv, HandlerHello
  <1> PICK s \in Sub : s = hello[c].sub
    BY <1>3
  <1> DEFINE H == HandlersOf(s)
  <1>4. lanOn[c] = (lan[c] # None)
    BY <1>2 DEF LanSure, LanBase, LanPhases
  <1>5. H = {} => tunnels[s] = None
    <2>1. SUFFICES ASSUME tunnels[s] # None PROVE tunnels[s] \in H
      OBVIOUS
    <2>2. tunnels[s] \in Conn /\ hello[tunnels[s]] # None /\ hello[tunnels[s]].sub = s
          /\ pc[tunnels[s]] # "claim"
      BY <1>1, <1>3, <2>1 DEF LanSure, LanBase, IInv, RegisteredOwner
    <2>3. QED
      BY <2>2 DEF HandlersOf, LanSure, LanBase, IInv, HandlerHello
  <1>6. /\ \A r \in Sub : r # s => HandlersOf(r)' = HandlersOf(r)
        /\ \A r \in Sub : r = s => HandlersOf(r)' = H \cup {c}
        /\ \A r \in Sub : c \notin HandlersOf(r)
    BY <1>1, <1>2, <1>3 DEF HandlersOf
  <1>7. /\ alone' = IF H = {} /\ lan[c] # None THEN alone \cup {s}
                    ELSE IF H = {} THEN alone ELSE alone \ {s}
        /\ calm' = IF H = {} /\ lan[c] # None THEN calm \cup {s} ELSE calm
        /\ \A d \in Conn : d # c => lpc'[d] = lpc[d] /\ pc'[d] = pc[d]
        /\ H = {} => lpc'[c] = IF lan[c] # None THEN "upsert" ELSE "ready"
    BY <1>1, <1>2, <1>5 DEF LanClaimGranted, LGoto
  <1> HIDE DEF H
  <1>8. LoneHandler'
    <2>1. SUFFICES ASSUME NEW r \in alone', NEW d \in HandlersOf(r)', NEW e \in HandlersOf(r)'
                   PROVE  d = e
      BY DEF LoneHandler
    <2>2. r \in Sub
      BY <1>1, <1>3, <1>7
    <2>3. CASE r = s
      BY <1>3, <1>6, <1>7, <2>1, <2>3
    <2>4. CASE r # s
      BY <1>1, <1>6, <1>7, <2>1, <2>2, <2>4 DEF LoneHandler
    <2>5. QED
      BY <2>3, <2>4
  <1>9. ASSUME NEW r \in (alone \cap calm)'
        PROVE  /\ HandlersOf(r)' = {} => Bare(r)'
               /\ \A d \in HandlersOf(r)' : Tracks(r, d)'
    <2>1. r \in Sub
      BY <1>1, <1>3, <1>7, <1>9
    <2>2. CASE r = s
      <3>1. H = {} /\ HandlersOf(r)' = {c}
        BY <1>6, <1>7, <1>9, <2>2
      <3>2. CASE lan[c] # None
        BY <1>1, <1>2, <1>7, <2>2, <3>1, <3>2 DEF Tracks
      <3>3. CASE lan[c] = None
        <4>1. s \in alone \cap calm
          BY <1>7, <1>9, <2>2, <3>1, <3>3
        <4>2. Bare(s)
          BY <1>1, <3>1, <4>1 DEF Tracked, H
        <4>3. lpc'[c] = "ready" /\ pc'[c] = "reply" /\ lanOn[c] = FALSE
          BY <1>1, <1>2, <1>4, <1>7, <3>1, <3>3
        <4>4. Tracks(s, c)'
          BY <1>2, <4>2, <4>3 DEF Tracks, Bare
        <4>5. QED
          BY <2>2, <3>1, <4>4
      <3>4. QED
        BY <3>2, <3>3
    <2>3. CASE r # s
      <3>1. r \in alone \cap calm
        BY <1>7, <1>9, <2>3
      <3>2. HandlersOf(r)' = {} => Bare(r)'
        BY <1>1, <1>2, <1>6, <2>1, <2>3, <3>1 DEF Tracked, Bare
      <3>3. ASSUME NEW d \in HandlersOf(r)' PROVE Tracks(r, d)'
        <4>1. Tracks(r, d) /\ d \in Conn /\ d # c
          BY <1>1, <1>6, <2>1, <2>3, <3>1, <3>3 DEF Tracked, HandlersOf
        <4>2. QED
          BY <1>2, <1>7, <4>1 DEF Tracks, Shown, Bare
      <3>4. QED
        BY <3>2, <3>3
    <2>4. QED
      BY <2>2, <2>3
  <1>10. QED
    BY <1>8, <1>9 DEF Tracked

LEMMA LanMovesSure ==
  ASSUME LanSure, NEW c \in Conn, LanReply(c) \/ LanDown(c) \/ LanDeferredClose(c)
  PROVE  LoneHandler' /\ Tracked'
  <1>1. /\ pc \in [Conn -> {"gone", "claim", "reply", "serving", "unwind", "release"}]
        /\ lpc \in [Conn -> LPhase]
    BY LanKinds DEF LanSure, LanBase, IInv, TypeOK
  <1>2. /\ pc[c] \in {"reply", "serving", "unwind"} /\ hello' = hello
        /\ UNCHANGED <<lan, lanOn, doomed, active, dns, alone, calm>>
    BY DEF LanReply, LanDown, LanDeferredClose, Reply, Down, DeferredClose, lanVars
  <1>3. lpc[c] = "ready"
    BY HandlerAtWork DEF LanReply, LanDown, LanDeferredClose, Down, LanSure
  <1> PICK s \in Sub : s = hello[c].sub
    BY <1>2, HelloFields DEF LanSure, LanBase, IInv, HandlerHello
  <1>4. s \in Sub /\ c \in HandlersOf(s)
    BY <1>2, HelloFields DEF LanSure, LanBase, IInv, HandlerHello, HandlersOf
  <1>5. \/ /\ pc[c] \in {"reply", "serving"}
           /\ \/ pc' = [pc EXCEPT ![c] = "serving"] /\ lpc' = lpc
              \/ pc' = [pc EXCEPT ![c] = "unwind"] /\ lpc' = [lpc EXCEPT ![c] = "check"]
        \/ /\ pc[c] = "unwind" /\ pc' = [pc EXCEPT ![c] = "release"] /\ lpc' = lpc
    <2>1. CASE LanReply(c)
      <3>1. CASE pc' = [pc EXCEPT ![c] = "serving"]
        <4>1. lpc' = [lpc EXCEPT ![c] = "ready"]
          BY <1>1, <2>1, <3>1 DEF LanReply, LGoto, Reply
        <4>2. QED
          BY <1>1, <1>3, <2>1, <3>1, <4>1 DEF LanReply, Reply
      <3>2. CASE pc' = [pc EXCEPT ![c] = "unwind"]
        BY <1>1, <2>1, <3>2 DEF LanReply, LGoto, Reply
      <3>3. QED
        BY <2>1, <3>1, <3>2 DEF LanReply, Reply, Goto
    <2>2. CASE LanDown(c)
      BY <2>2 DEF LanDown, Down, Goto, LGoto
    <2>3. CASE LanDeferredClose(c)
      BY <2>3 DEF LanDeferredClose, DeferredClose, Goto, lanVars
    <2>4. QED
      BY <2>1, <2>2, <2>3
  <1>6. \A r \in Sub : HandlersOf(r)' = HandlersOf(r)
    BY <1>1, <1>2, <1>5 DEF HandlersOf
  <1>7. \A d \in Conn : d # c => lpc'[d] = lpc[d] /\ pc'[d] = pc[d]
    BY <1>1, <1>5
  <1>8. Tracks(s, c) => Tracks(s, c)'
    <2>1. \/ pc'[c] \in {"reply", "serving"} /\ lpc'[c] = "ready" /\ pc[c] \in {"reply", "serving"}
          \/ pc'[c] = "unwind" /\ lpc'[c] = "check" /\ pc[c] \in {"reply", "serving"}
          \/ pc'[c] = "release" /\ lpc'[c] = "ready" /\ pc[c] = "unwind"
      BY <1>1, <1>3, <1>5
    <2>2. SUFFICES ASSUME Tracks(s, c)
                   PROVE  /\ lpc'[c] = "check" \/ (lpc'[c] = "ready" /\ pc'[c] \in {"reply", "serving"}) =>
                               IF lanOn[c] THEN Shown(s, lan[c]) ELSE Bare(s)
                          /\ lpc'[c] = "ready" /\ pc'[c] \in {"unwind", "release"} => Bare(s)
      <3> DEFINE t == s
      <3>1. /\ Shown(t, lan[c]) => dns[t] = lan[c] /\ active[t] = lan[c] /\ lan[c] # None
            /\ Bare(t) => dns[t] = None /\ active[t] = None
        BY DEF Shown, Bare
      <3>2. lpc'[c] \in {"ready", "check"}
        BY <2>1
      <3>3. QED
        BY <1>2, <2>1, <3>2 DEF Tracks, Shown, Bare
    <2>3. QED
      BY <1>3, <2>1, <2>2 DEF Tracks
  <1>9. s \in alone /\ s \in calm' /\ Tracks(s, c) => Tracks(s, c)'
    BY <1>8
  <1>10. QED
    BY <1>2, <1>4, <1>6, <1>7, <1>9, OneMoves

LEMMA ForgetSure ==
  ASSUME LanSure, NEW c \in Conn, NEW at, NEW during, NEW next,
         \/ at = "predelete" /\ during = "predeleting"
         \/ at = "undo" /\ during = "undoing" /\ next = "ready"
         \/ at = "teardown" /\ during = "tearing" /\ next = "ready",
         \/ Forget(c, at, during, next)
         \/ DeleteRecords(c, during, next)
  PROVE  LoneHandler' /\ Tracked'
  <1>1. /\ active \in [Sub -> IP \cup {None}] /\ dns \in [Sub -> IP \cup {None}]
        /\ doomed \in [Conn -> IP \cup {None}] /\ lpc \in [Conn -> LPhase]
        /\ alone \subseteq Sub /\ calm \subseteq Sub
    BY LanKinds DEF LanSure, LanBase
  <1>2. /\ lpc[c] \in {at, during} /\ lpc[c] # "ready"
        /\ pc' = pc /\ hello' = hello /\ lan' = lan /\ lanOn' = lanOn /\ alone' = alone
    BY DEF Forget, DeleteRecords, vars
  <1>3. /\ hello[c].sub \in Sub /\ pc[c] \in {"reply", "unwind"}
        /\ lpc[c] = "tearing" => pc[c] = "unwind"
    BY <1>2, HandlerAtWork DEF LanSure, LanBase, LanPhases
  <1> PICK s \in Sub : s = hello[c].sub
    BY <1>3
  <1>4. c \in HandlersOf(s)
    BY <1>3 DEF HandlersOf
  <1>5. \A r \in Sub : HandlersOf(r)' = HandlersOf(r)
    BY <1>2 DEF HandlersOf
  <1>6. CASE Forget(c, at, during, next)
    <2>1. /\ lpc' = [lpc EXCEPT ![c] = IF active[s] = None THEN next ELSE during]
          /\ doomed' = [doomed EXCEPT ![c] = active[s]]
          /\ active' = [active EXCEPT ![s] = None]
          /\ dns' = dns /\ calm' = calm
          /\ lpc[c] = at
      BY <1>6 DEF Forget, LGoto
    <2>2. /\ \A r \in Sub : r # s => dns'[r] = dns[r] /\ active'[r] = active[r]
          /\ \A d \in Conn : d # c => lpc'[d] = lpc[d] /\ doomed'[d] = doomed[d]
      BY <1>1, <2>1
    <2>3. ASSUME Tracks(s, c) PROVE Tracks(s, c)'
      <3>1. at \in {"undo", "teardown"} /\ Shown(s, lan[c])
        BY <2>1, <2>3 DEF Tracks
      <3>2. /\ lpc'[c] = during /\ active'[s] = None /\ doomed'[c] = dns[s]
            /\ during \in {"undoing", "tearing"} /\ (during = "undoing" => at = "undo")
        BY <1>1, <2>1, <3>1 DEF Shown
      <3>3. at = "undo" => lanOn[c] = FALSE
        BY <2>1, <2>3 DEF Tracks
      <3>4. QED
        BY <1>2, <2>1, <3>2, <3>3 DEF Tracks
    <2>4. QED
      BY <1>2, <1>4, <1>5, <2>1, <2>2, <2>3, OneMoves
  <1>7. CASE DeleteRecords(c, during, next)
    <2> DEFINE applied == [dns EXCEPT ![s] = IF @ = doomed[c] THEN None ELSE @]
    <2>1. /\ lpc' = [lpc EXCEPT ![c] = next] /\ lpc[c] = during
          /\ doomed' = [doomed EXCEPT ![c] = None]
          /\ active' = active
          /\ \/ dns' = applied /\ calm' = calm
             \/ dns' \in {dns, applied} /\ calm' = calm \ {s}
      BY <1>7 DEF DeleteRecords, LGoto
    <2>2. /\ \A r \in Sub : r # s => dns'[r] = dns[r] /\ active'[r] = active[r]
          /\ \A d \in Conn : d # c => lpc'[d] = lpc[d] /\ doomed'[d] = doomed[d]
          /\ calm' \subseteq calm
          /\ s \in calm' => dns'[s] = IF dns[s] = doomed[c] THEN None ELSE dns[s]
      BY <1>1, <2>1
    <2>3. ASSUME Tracks(s, c), s \in calm' PROVE Tracks(s, c)'
      <3>1. /\ during \in {"undoing", "tearing"} /\ next = "ready"
            /\ active[s] = None /\ dns[s] = doomed[c]
            /\ during = "undoing" => lanOn[c] = FALSE
        BY <2>1, <2>3 DEF Tracks
      <3>2. lpc'[c] = "ready" /\ dns'[s] = None /\ active'[s] = None
        BY <1>1, <2>1, <2>2, <2>3, <3>1
      <3>3. pc'[c] \in {"reply", "serving"} => lanOn'[c] = FALSE
        BY <1>2, <1>3, <2>1, <3>1
      <3>4. QED
        BY <3>2, <3>3 DEF Tracks, Bare
    <2>4. QED
      BY <1>2, <1>4, <1>5, <2>2, <2>3, OneMoves
  <1>8. QED
    BY <1>6, <1>7

LEMMA UpsertSure ==
  ASSUME LanSure, NEW c \in Conn, SetRecords(c) \/ RecordActive(c)
  PROVE  LoneHandler' /\ Tracked'
  <1>1. /\ active \in [Sub -> IP \cup {None}] /\ dns \in [Sub -> IP \cup {None}]
        /\ lanOn \in [Conn -> BOOLEAN] /\ lpc \in [Conn -> LPhase]
        /\ alone \subseteq Sub /\ calm \subseteq Sub
    BY LanKinds DEF LanSure, LanBase
  <1>2. /\ lpc[c] \in {"upsert", "written"} /\ lpc[c] # "ready"
        /\ pc' = pc /\ hello' = hello /\ lan' = lan /\ alone' = alone /\ doomed' = doomed
    BY DEF SetRecords, RecordActive, vars
  <1>3. /\ hello[c].sub \in Sub /\ pc[c] = "reply" /\ lan[c] # None
        /\ lanOn[c] = TRUE
    BY <1>1, <1>2, HandlerAtWork DEF LanSure, LanBase, LanPhases
  <1> PICK s \in Sub : s = hello[c].sub
    BY <1>3
  <1>4. c \in HandlersOf(s)
    BY <1>3 DEF HandlersOf
  <1>5. \A r \in Sub : HandlersOf(r)' = HandlersOf(r)
    BY <1>2 DEF HandlersOf
  <1>6. CASE SetRecords(c)
    <2> DEFINE applied == [dns EXCEPT ![s] = lan[c]]
    <2>1. /\ active' = active
          /\ \/ /\ dns' = applied /\ lpc' = [lpc EXCEPT ![c] = "written"]
                /\ lanOn' = lanOn /\ calm' = calm
             \/ /\ dns' \in {dns, applied} /\ lpc' = [lpc EXCEPT ![c] = "undo"]
                /\ lanOn' = [lanOn EXCEPT ![c] = FALSE] /\ calm' = calm \ {s}
      BY <1>6 DEF SetRecords, LGoto
    <2>2. /\ \A r \in Sub : r # s => dns'[r] = dns[r] /\ active'[r] = active[r]
          /\ \A d \in Conn : d # c => lpc'[d] = lpc[d] /\ lanOn'[d] = lanOn[d]
          /\ calm' \subseteq calm
          /\ s \in calm' => dns'[s] = lan[c] /\ lpc'[c] = "written"
      BY <1>1, <2>1
    <2>3. s \in calm' => Tracks(s, c)'
      BY <1>2, <2>2 DEF Tracks
    <2>4. QED
      BY <1>2, <1>4, <1>5, <2>2, <2>3, OneMoves
  <1>7. CASE RecordActive(c)
    <2>1. /\ lpc[c] = "written" /\ dns' = dns /\ calm' = calm
          /\ active' = [active EXCEPT ![s] = lan[c]]
          /\ \/ lpc' = [lpc EXCEPT ![c] = "ready"] /\ lanOn' = lanOn
             \/ lpc' = [lpc EXCEPT ![c] = "undo"] /\ lanOn' = [lanOn EXCEPT ![c] = FALSE]
      BY <1>7 DEF RecordActive, LGoto
    <2>2. /\ \A r \in Sub : r # s => dns'[r] = dns[r] /\ active'[r] = active[r]
          /\ \A d \in Conn : d # c => lpc'[d] = lpc[d] /\ lanOn'[d] = lanOn[d]
          /\ active'[s] = lan[c]
          /\ \/ lpc'[c] = "ready" /\ lanOn'[c] = TRUE
             \/ lpc'[c] = "undo" /\ lanOn'[c] = FALSE
      BY <1>1, <1>3, <2>1
    <2>3. ASSUME Tracks(s, c) PROVE Tracks(s, c)'
      <3>1. dns'[s] = lan'[c] /\ active'[s] = lan'[c] /\ lan'[c] # None /\ pc'[c] = "reply"
        BY <1>2, <1>3, <2>1, <2>2, <2>3 DEF Tracks
      <3>2. QED
        BY <2>2, <3>1 DEF Tracks, Shown
    <2>4. QED
      BY <1>2, <1>4, <1>5, <2>1, <2>2, <2>3, OneMoves
  <1>8. QED
    BY <1>6, <1>7

\* The registry names no other handler of a lone tunnel's subdomain, so its
\* teardown is skipped only when there is no record.
LEMMA CheckSure ==
  ASSUME LanSure, NEW c \in Conn, TeardownCheck(c)
  PROVE  LoneHandler' /\ Tracked'
  <1>1. /\ lpc \in [Conn -> LPhase] /\ alone \subseteq Sub /\ lanOn \in [Conn -> BOOLEAN]
        /\ tunnels \in [Sub -> Conn \cup {None}]
    BY LanKinds DEF LanSure, LanBase, IInv, TypeOK
  <1>2. /\ lpc[c] = "check"
        /\ pc' = pc /\ hello' = hello /\ lan' = lan /\ lanOn' = lanOn /\ doomed' = doomed
        /\ active' = active /\ dns' = dns /\ alone' = alone /\ calm' = calm
    BY DEF TeardownCheck, vars
  <1>3. hello[c].sub \in Sub /\ pc[c] = "unwind"
    BY <1>2, HandlerAtWork DEF LanSure, LanBase, LanPhases
  <1> PICK s \in Sub : s = hello[c].sub
    BY <1>3
  <1>4. c \in HandlersOf(s)
    BY <1>3 DEF HandlersOf
  <1>5. \A r \in Sub : HandlersOf(r)' = HandlersOf(r)
    BY <1>2 DEF HandlersOf
  <1>6. tunnels[s] # None => tunnels[s] \in HandlersOf(s)
    BY <1>1 DEF HandlersOf, LanSure, LanBase, IInv, RegisteredOwner, HandlerHello
  <1>7. lpc' = [lpc EXCEPT ![c] = IF ~lanOn[c] \/ tunnels[s] \notin {None, c}
                                  THEN "ready" ELSE "teardown"]
    BY DEF TeardownCheck, LGoto
  <1>8. ASSUME s \in alone, Tracks(s, c) PROVE Tracks(s, c)'
    <2>1. tunnels[s] \in {None, c}
      BY <1>4, <1>6, <1>8 DEF LanSure, LoneHandler
    <2>2. IF lanOn[c] THEN lpc'[c] = "teardown" /\ Shown(s, lan[c])
                      ELSE lpc'[c] = "ready" /\ Bare(s)
      BY <1>1, <1>2, <1>7, <1>8, <2>1 DEF Tracks
    <2>3. QED
      BY <1>2, <1>3, <2>2 DEF Tracks, Shown, Bare
  <1>9. QED
    BY <1>1, <1>2, <1>4, <1>5, <1>7, <1>8, OneMoves

LEMMA LanStepSure == LanSure /\ [LanNext]_allVars => LanSure'
  <1> SUFFICES ASSUME LanSure, [LanNext]_allVars PROVE LoneHandler' /\ Tracked'
    BY LanStepBase DEF LanSure
  <1>1. ASSUME NEW c \in Conn, LanHandlerStep(c) PROVE LoneHandler' /\ Tracked'
    <2>1. CASE DropPreempted(c)
      BY <2>1, ForgetSure DEF DropPreempted
    <2>2. CASE UndoPublish(c)
      BY <2>2, ForgetSure DEF UndoPublish
    <2>3. CASE TeardownDelete(c)
      BY <2>3, ForgetSure DEF TeardownDelete
    <2>4. QED
      BY <1>1, <2>1, <2>2, <2>3, LanReturnSure, UpsertSure, CheckSure, LanGrantedSure,
         LanMovesSure DEF LanHandlerStep
  <1>2. CASE UNCHANGED <<pc, hello, lanVars>>
    <2>1. UNCHANGED <<pc, hello, lan, lanOn, lpc, doomed, active, dns, alone, calm>>
      BY <1>2 DEF lanVars
    <2>2. \A s \in Sub : HandlersOf(s)' = HandlersOf(s)
      BY <2>1 DEF HandlersOf
    <2>3. alone \subseteq Sub
      BY LanKinds DEF LanSure, LanBase
    <2>4. QED
      BY <2>1, <2>2, <2>3, NobodyMoves DEF LanSure
  <1>3. CASE Restart
    <2>1. \A s \in Sub : HandlersOf(s)' = {}
      BY <1>3 DEF Restart, HandlersOf
    <2>2. alone' = Sub /\ calm' = {}
      BY <1>3 DEF Restart
    <2>3. QED
      BY <2>1, <2>2 DEF LoneHandler, Tracked
  <1>4. CASE LanNext
    <2>1. CASE Elsewhere \/ \E v \in Visitor : LanRedirect(v)
      BY <1>2, <1>4, <2>1, ElsewhereKeeps
    <2>2. QED
      BY <1>1, <1>3, <1>4, <2>1, LanAcceptSure DEF LanNext
  <1>5. QED
    BY <1>2, <1>4 DEF allVars, vars

LEMMA InitLanSure == LanInit => LanSure
  <1> SUFFICES ASSUME LanInit PROVE LoneHandler /\ Tracked
    BY InitLanBase DEF LanSure
  <1>1. \A s \in Sub : HandlersOf(s) = {} /\ Bare(s)
    BY DEF LanInit, Init, HandlersOf, Bare
  <1>2. alone = Sub
    BY DEF LanInit
  <1>3. QED
    BY <1>1, <1>2 DEF LoneHandler, Tracked

LEMMA SureRecordRight ==
  ASSUME LanSure, NEW s \in alone \cap calm
  PROVE  RecordRight(s)
  <1>1. /\ pc \in [Conn -> {"gone", "claim", "reply", "serving", "unwind", "release"}]
        /\ lanOn \in [Conn -> BOOLEAN]
        /\ HandlersOf(s) = {} => Bare(s)
        /\ \A c \in HandlersOf(s) : Tracks(s, c)
        /\ \A c, d \in HandlersOf(s) : c = d
    BY LanKinds DEF LanSure, LanBase, IInv, TypeOK, LoneHandler, Tracked
  <1>2. SUFFICES ASSUME Quiet(s)
                 PROVE  Expected(s) = IF dns[s] = None THEN {} ELSE {dns[s]}
    BY DEF RecordRight
  <1>3. CASE HandlersOf(s) = {}
    BY <1>1, <1>3 DEF Expected, Bare
  <1>4. CASE HandlersOf(s) # {}
    <2> PICK c \in HandlersOf(s) : TRUE
      BY <1>4
    <2>1. /\ HandlersOf(s) = {c} /\ c \in Conn /\ pc[c] \notin {"gone", "claim"}
          /\ lpc[c] = "ready" /\ Tracks(s, c)
      BY <1>1, <1>2 DEF Quiet, HandlersOf
    <2>2. Expected(s) = IF pc[c] \in {"reply", "serving"} /\ lanOn[c] THEN {lan[c]} ELSE {}
      BY <2>1 DEF Expected
    <2>3. CASE pc[c] \in {"reply", "serving"} /\ lanOn[c]
      <3>1. Shown(s, lan[c])
        BY <2>1, <2>3 DEF Tracks
      <3>2. QED
        BY <2>2, <2>3, <3>1 DEF Shown
    <2>4. CASE ~(pc[c] \in {"reply", "serving"} /\ lanOn[c])
      <3>1. Bare(s)
        BY <1>1, <2>1, <2>4 DEF Tracks
      <3>2. QED
        BY <2>2, <2>4, <3>1 DEF Bare
    <2>5. QED
      BY <2>3, <2>4
  <1>5. QED
    BY <1>3, <1>4

\* While the handlers of a subdomain follow one another and no DNS call fails,
\* its record is the address of the tunnel that is up, and gone when none is.
THEOREM LoneRecordIsRight == LanSpec => []RecordOfLoneTunnel
  <1>1. LanSure => RecordOfLoneTunnel
    BY SureRecordRight DEF RecordOfLoneTunnel
  <1>2. QED
    BY <1>1, InitLanSure, LanStepSure, PTL DEF LanSpec
=============================================================================
