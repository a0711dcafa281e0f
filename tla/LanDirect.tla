----------------------------- MODULE LanDirect -----------------------------
(***************************************************************************)
(* LAN-direct: the tunnel server together with lanManager                  *)
(* (cmd/mygrokd/lan.go) and the DNS zone behind it. Each action is a step  *)
(* of TunnelServer extended with what the handler does about the A record  *)
(* of <sub>-lan, or one of the DNS calls a handler makes between two such  *)
(* steps. DNS calls hold no lock and take seconds; they may fail, and one  *)
(* that fails may have been applied all the same.                          *)
(***************************************************************************)
EXTENDS TunnelServer, Naturals, FiniteSets

CONSTANTS
  IP   \* private addresses

ASSUME LanAssumption == None \notin IP

VARIABLES
  lan,      \* Conn -> the address in its hello, None without --lan; the
            \* registry's t.lanIP and t.lanHostname are set exactly when it is
  lanOn,    \* Conn -> the handler's local lanHostname # ""
  lpc,      \* Conn -> the DNS work before the handler's next step
  doomed,   \* Conn -> the address a DeleteA in progress took out of active
  active,   \* lanManager.active: Sub -> the address, or None
  dns,      \* the zone: Sub -> the A record of <sub>-lan, or None
  alone,    \* history: subdomains whose handlers did not overlap ...
  calm      \* ... and whose DNS calls did not fail, since the last handler
            \* that started alone and asked for LAN-direct, or the first start

lanVars == <<lan, lanOn, lpc, doomed, active, dns, alone, calm>>
allVars == <<vars, lanVars>>

LanInit ==
  /\ Init
  /\ lan = [c \in Conn |-> None]
  /\ lanOn = [c \in Conn |-> FALSE]
  /\ lpc = [c \in Conn |-> "ready"]
  /\ doomed = [c \in Conn |-> None]
  /\ active = [s \in Sub |-> None]
  /\ dns = [s \in Sub |-> None]
  /\ alone = Sub
  /\ calm = Sub

LGoto(c, label) == lpc' = [lpc EXCEPT ![c] = label]

-----------------------------------------------------------------------------
(* The handler's own steps                                                 *)

LanAccept(c, m, l) ==
  /\ Accept(c, m)
  /\ lan' = [lan EXCEPT ![c] = l]
  /\ lanOn' = [lanOn EXCEPT ![c] = (l # None)]
  /\ LGoto(c, "ready")
  /\ UNCHANGED <<doomed, active, dns, alone, calm>>

LanClaimRefused(c) ==
  /\ ClaimRefused(c)
  /\ lan' = [lan EXCEPT ![c] = None]
  /\ lanOn' = [lanOn EXCEPT ![c] = FALSE]
  /\ UNCHANGED <<lpc, doomed, active, dns, alone, calm>>

\* Handlers that have claimed subdomain s and not returned.
HandlersOf(s) == {d \in Conn : pc[d] \notin {"gone", "claim"} /\ hello[d].sub = s}

\* The record of a pre-empted tunnel is dropped first unless the new one
\* brings the same address.
LanClaimGranted(c) ==
  LET s == hello[c].sub
      p == tunnels[s]
      stale == p # None /\ lan[p] # None
                 /\ lan[p] # lan[c]
  IN  /\ ClaimGranted(c)
      /\ LGoto(c, IF stale THEN "predelete"
                  ELSE IF lan[c] # None THEN "upsert" ELSE "ready")
      /\ LET fresh == HandlersOf(s) = {} /\ lan[c] # None IN
           /\ alone' = IF fresh THEN alone \cup {s}
                       ELSE IF HandlersOf(s) = {} THEN alone ELSE alone \ {s}
           /\ calm' = IF fresh THEN calm \cup {s} ELSE calm
      /\ UNCHANGED <<lan, lanOn, doomed, active, dns>>

\* A handler that starts to unwind has its LAN teardown before it.
LanReply(c) ==
  /\ lpc[c] = "ready"
  /\ Reply(c)
  /\ LGoto(c, IF pc'[c] = "unwind" THEN "check" ELSE "ready")
  /\ UNCHANGED <<lan, lanOn, doomed, active, dns, alone, calm>>

LanDown(c) ==
  /\ Down(c)
  /\ LGoto(c, "check")
  /\ UNCHANGED <<lan, lanOn, doomed, active, dns, alone, calm>>

LanDeferredClose(c) ==
  /\ lpc[c] = "ready"
  /\ DeferredClose(c)
  /\ UNCHANGED lanVars

LanDeferredRelease(c) ==
  /\ DeferredRelease(c)
  /\ lan' = [lan EXCEPT ![c] = None]
  /\ lanOn' = [lanOn EXCEPT ![c] = FALSE]
  /\ UNCHANGED <<lpc, doomed, active, dns, alone, calm>>

-----------------------------------------------------------------------------
(* lanManager                                                              *)

\* A slip the runs are tested with: the DNS call is made for nothing.
ForgetAnyway(c, at, during, next) ==
  LET s == hello[c].sub IN
  /\ lpc[c] = at
  /\ LGoto(c, during)
  /\ doomed' = [doomed EXCEPT ![c] = active[s]]
  /\ active' = [active EXCEPT ![s] = None]
  /\ UNCHANGED <<vars, lan, lanOn, dns, alone, calm>>

\* DeleteA, under the lock: forget the address; a name never written, or
\* already forgotten, needs no call.
Forget(c, at, during, next) ==
  LET s == hello[c].sub IN
  /\ lpc[c] = at
  /\ LGoto(c, IF active[s] = None THEN next ELSE during)
  /\ doomed' = [doomed EXCEPT ![c] = active[s]]
  /\ active' = [active EXCEPT ![s] = None]
  /\ UNCHANGED <<vars, lan, lanOn, dns, alone, calm>>

\* DeleteA, after the lock: DeleteRecords removes the record that has this
\* address and leaves another one alone.
DeleteRecords(c, during, next) ==
  LET s == hello[c].sub
      applied == [dns EXCEPT ![s] = IF @ = doomed[c] THEN None ELSE @]
  IN  /\ lpc[c] = during
      /\ LGoto(c, next)
      /\ doomed' = [doomed EXCEPT ![c] = None]
      /\ \/ dns' = applied /\ UNCHANGED calm
         \/ dns' \in {dns, applied} /\ calm' = calm \ {s}
      /\ UNCHANGED <<vars, lan, lanOn, active, alone>>

AfterPredelete(c) == IF lan[c] # None THEN "upsert" ELSE "ready"

DropPreempted(c) ==
  \/ Forget(c, "predelete", "predeleting", AfterPredelete(c))
  \/ DeleteRecords(c, "predeleting", AfterPredelete(c))

\* UpsertA, first half: SetRecords replaces whatever the name had. On an error
\* the tunnel goes on without LAN-direct, and the record is dropped again.
SetRecords(c) ==
  LET s == hello[c].sub
      applied == [dns EXCEPT ![s] = lan[c]]
  IN  /\ lpc[c] = "upsert"
      /\ \/ /\ dns' = applied
            /\ LGoto(c, "written")
            /\ UNCHANGED <<lanOn, calm>>
         \/ /\ dns' \in {dns, applied}
            /\ LGoto(c, "undo")
            /\ lanOn' = [lanOn EXCEPT ![c] = FALSE]
            /\ calm' = calm \ {s}
      /\ UNCHANGED <<vars, lan, doomed, active, alone>>

\* UpsertA, second half, and WildcardCertPEM, which fails until the wildcard
\* certificate is on disk.
RecordActive(c) ==
  LET s == hello[c].sub IN
  /\ lpc[c] = "written"
  /\ active' = [active EXCEPT ![s] = lan[c]]
  /\ \/ /\ LGoto(c, "ready")
        /\ UNCHANGED lanOn
     \/ /\ LGoto(c, "undo")
        /\ lanOn' = [lanOn EXCEPT ![c] = FALSE]
  /\ UNCHANGED <<vars, lan, doomed, dns, alone, calm>>

UndoPublish(c) ==
  \/ Forget(c, "undo", "undoing", "ready")
  \/ DeleteRecords(c, "undoing", "ready")

\* Two more: a name that was evicted meanwhile is mistaken for one that was
\* taken over; the teardown waits for its turn.
TeardownCheckOwner(c) ==
  /\ lpc[c] = "check"
  /\ LGoto(c, IF ~lanOn[c] \/ tunnels[hello[c].sub] # c THEN "ready" ELSE "teardown")
  /\ UNCHANGED <<vars, lan, lanOn, doomed, active, dns, alone, calm>>

TeardownCheckWaits(c) ==
  /\ lpc[c] = "check"
  /\ tunnels[hello[c].sub] \in {None, c}
  /\ LGoto(c, IF ~lanOn[c] THEN "ready" ELSE "teardown")
  /\ UNCHANGED <<vars, lan, lanOn, doomed, active, dns, alone, calm>>

\* The first deferred call: skipped without a record or when a takeover has
\* replaced the tunnel by now.
TeardownCheck(c) ==
  LET cur == tunnels[hello[c].sub] IN
  /\ lpc[c] = "check"
  /\ LGoto(c, IF ~lanOn[c] \/ cur \notin {None, c} THEN "ready" ELSE "teardown")
  /\ UNCHANGED <<vars, lan, lanOn, doomed, active, dns, alone, calm>>

TeardownDelete(c) ==
  \/ Forget(c, "teardown", "tearing", "ready")
  \/ DeleteRecords(c, "tearing", "ready")

-----------------------------------------------------------------------------
(* Visitors and restarts                                                   *)

\* The same-NAT 307, for a visitor with the client's public address asking for
\* https://<sub>.<publicHost>: it looks only at what the claim stored in t.
LanRedirect(v) ==
  /\ vpc[v] = "routed"
  /\ lan[vtun[v]] # None
  /\ Answered(v)
  /\ UNCHANGED <<tunnels, customHosts, sess, pc, hello, closing>>
  /\ UNCHANGED lanVars

\* The process stops and starts again; only the zone survives.
Restart ==
  /\ \E c \in Conn : pc[c] # "gone"
  /\ tunnels' = [s \in Sub |-> None]
  /\ customHosts' = [h \in Host |-> None]
  /\ sess' = [c \in Conn |-> "closed"]
  /\ pc' = [c \in Conn |-> "gone"]
  /\ hello' = [c \in Conn |-> None]
  /\ closing' = {}
  /\ vpc' = [v \in Visitor |-> "idle"]
  /\ vtun' = [v \in Visitor |-> None]
  /\ vsub' = [v \in Visitor |-> None]
  /\ lan' = [c \in Conn |-> None]
  /\ lanOn' = [c \in Conn |-> FALSE]
  /\ lpc' = [c \in Conn |-> "ready"]
  /\ doomed' = [c \in Conn |-> None]
  /\ active' = [s \in Sub |-> None]
  /\ alone' = Sub
  /\ calm' = {}
  /\ UNCHANGED dns

-----------------------------------------------------------------------------
LanHandlerStep(c) ==
  \/ LanClaimRefused(c) \/ LanClaimGranted(c) \/ LanReply(c) \/ LanDown(c)
  \/ LanDeferredClose(c) \/ LanDeferredRelease(c)
  \/ DropPreempted(c) \/ SetRecords(c) \/ RecordActive(c) \/ UndoPublish(c)
  \/ TeardownCheck(c) \/ TeardownDelete(c)

Elsewhere ==
  /\ \/ \E c \in Conn : PreemptedClose(c) \/ SessionDies(c)
     \/ \E v \in Visitor, s \in Sub : RouteBySub(v, s)
     \/ \E v \in Visitor, h \in Host : RouteByHost(v, h)
     \/ \E v \in Visitor : VisitorStep(v)
  /\ UNCHANGED lanVars

LanNext ==
  \/ \E c \in Conn, m \in Hello, l \in IP \cup {None} : LanAccept(c, m, l)
  \/ \E c \in Conn : LanHandlerStep(c)
  \/ \E v \in Visitor : LanRedirect(v)
  \/ Elsewhere
  \/ Restart

LanSpec == LanInit /\ [][LanNext]_allVars

\* A runnable goroutine is scheduled, and every DNS call runs under a deadline
\* of 5 or 10 seconds. Nothing obliges a client to connect, a session to die
\* or a visitor to come.
LanFairness ==
  /\ \A c \in Conn : /\ WF_allVars(LanHandlerStep(c))
                     /\ WF_allVars(PreemptedClose(c) /\ UNCHANGED lanVars)
  /\ \A v \in Visitor : WF_allVars(VisitorStep(v) /\ UNCHANGED lanVars)

LanFairSpec == LanSpec /\ LanFairness

-----------------------------------------------------------------------------
\* Kinds of the values. A DeleteA has an address to delete as long as its DNS
\* call runs, and only then.
LanTypeOK ==
  /\ lan \in [Conn -> IP \cup {None}]
  /\ lanOn \in [Conn -> BOOLEAN]
  /\ lpc \in [Conn -> {"ready", "predelete", "predeleting", "upsert", "written",
                       "undo", "undoing", "check", "teardown", "tearing"}]
  /\ doomed \in [Conn -> IP \cup {None}]
  /\ \A c \in Conn :
       doomed[c] # None <=> lpc[c] \in {"predeleting", "undoing", "tearing"}
  /\ active \in [Sub -> IP \cup {None}]
  /\ dns \in [Sub -> IP \cup {None}]
  /\ alone \subseteq Sub
  /\ calm \subseteq Sub

\* No handler of s is between two DNS steps.
Quiet(s) == \A c \in HandlersOf(s) : lpc[c] = "ready"

\* The addresses s should resolve to: that of its one handler while it is up
\* with LAN-direct, none otherwise.
Expected(s) ==
  {lan[c] : c \in {d \in HandlersOf(s) : pc[d] \in {"reply", "serving"} /\ lanOn[d]}}

RecordRight(s) ==
  Cardinality(HandlersOf(s)) <= 1 /\ Quiet(s) =>
    Expected(s) = IF dns[s] = None THEN {} ELSE {dns[s]}

\* While the handlers of a subdomain follow one another and no DNS call fails,
\* the record tells the truth whenever nobody is changing it: it is there
\* while the tunnel is up, and gone by the time the name is free again, also
\* when the certificate was missing or the reply could not be written. One
\* such handler that asks for LAN-direct is enough to mend what a takeover, a
\* failed call or a restart of the server left behind.
RecordOfLoneTunnel == \A s \in alone \cap calm : RecordRight(s)

\* A dead session gives its name back: main.go evicts it through the handler's
\* defers or through the next visitor, whichever comes first, and a client
\* that is refused with "subdomain in use" is not refused for ever.
DeadNameFreed ==
  \A c \in Conn : (sess[c] = "closed" /\ Registered(c)) ~> ~Registered(c)

\* A pre-empted handler ends, although nothing but the detached Close wakes it.
PreemptedEnds ==
  \A c \in Conn : c \in closing ~> pc[c] = "gone"

\* The deferred teardown cannot keep a dead tunnel's handler for ever, however
\* the DNS calls end.
TeardownEnds ==
  \A c \in Conn : pc[c] = "unwind" ~> pc[c] = "gone"

-----------------------------------------------------------------------------
(* What the comments and documents say and the code does not do            *)

\* "On disconnect - clean exit, takeover, or a crash that severs yamux - the
\* server best-effort deletes the record": with no failed call to excuse it,
\* the record is right again once one handler is left, or none.
RecordAfterTakeover == \A s \in calm : RecordRight(s)
=============================================================================
