----------------------------- MODULE Handshake -----------------------------
(***************************************************************************)
(* The control connection from dial to yamux, and the client's reconnect   *)
(* loop (runReconnectLoop and runOnce in cmd/mygrok/main.go against        *)
(* handleTunnelConn in cmd/mygrokd/main.go), at the grain of what is       *)
(* written to the connection: the two JSON lines and yamux frames.         *)
(*                                                                         *)
(* The server starts its yamux session before it claims the name, claims   *)
(* the name before it answers, and answers on the raw connection: its      *)
(* keepalive pings and the streams it opens for visitors share the wire    *)
(* with the answer. The client reads the answer through a bufio.Reader,    *)
(* which takes whatever has arrived, and hands the bare connection to      *)
(* yamux.                                                                  *)
(***************************************************************************)
EXTENDS Naturals, Sequences

CONSTANTS
  MaxEarly,    \* bound on frames written before the client runs yamux
  MaxTrouble,  \* bound on refused claims and broken connections
  WireCap      \* bound on what is under way to the client

ASSUME BoundsAssumption == MaxEarly \in Nat /\ MaxTrouble \in Nat /\ WireCap \in Nat \ {0}

VARIABLES
  cpc,      \* the client: "backoff", "read" (the answer) or "up" (yamux)
  spc,      \* its handler: "none", "hello", "session", "claimed", "serving"
  wire,     \* written by the server, not yet read by the client
  buf,      \* in the client's bufio.Reader
  attempt,  \* runReconnectLoop's counter, capped where the delay is
  delay,    \* the seconds it sleeps before the next dial, jitter aside; 0 at
            \* the start and while runOnce runs
  early,    \* frames counted against MaxEarly
  trouble   \* events counted against MaxTrouble

vars == <<cpc, spc, wire, buf, attempt, delay, early, trouble>>

\* What the server writes: HelloResp with OK, with the error "subdomain in use"
\* or with another, yamux frames.
Item == {"ok", "taken", "refusal", "frame"}

Ceiling == 30
MaxAttempt == 15   \* attempt*2s reaches the ceiling

Init ==
  /\ cpc = "backoff" /\ spc = "none"
  /\ wire = <<>> /\ buf = <<>>
  /\ attempt = 1 /\ delay = 0
  /\ early = 0 /\ trouble = 0

-----------------------------------------------------------------------------
(* Client                                                                  *)

\* After the delay: dial and send Hello on a connection with its own handler.
Dial ==
  /\ cpc = "backoff" /\ spc = "none"
  /\ cpc' = "read" /\ spc' = "hello"
  /\ wire' = <<>> /\ buf' = <<>>
  /\ delay' = 0
  /\ UNCHANGED <<attempt, early, trouble>>

Delay(a) == IF 2 * a > Ceiling THEN Ceiling ELSE 2 * a

\* A slip the run is tested with: the counter restarts from nothing and only
\* behind the delay, so that the next disconnect has none.
DisconnectNoDelay(long, taken) ==
  /\ cpc' = "backoff"
  /\ delay' = IF taken THEN 1 ELSE Delay(attempt)
  /\ attempt' = IF long THEN 0 ELSE IF attempt = MaxAttempt THEN attempt ELSE attempt + 1

\* runOnce returns an error; the deferred conn.Close() ends the connection.
\* attempt restarts if the session had been up for a minute, and is counted
\* up after the delay. It determines the delay unless the server has said that
\* the subdomain is in use: then the client is back soon, the attempt counted
\* all the same.
Disconnect(long, taken) ==
  /\ cpc' = "backoff"
  /\ LET a == IF long THEN 1 ELSE attempt IN
       /\ delay' = IF taken THEN 1 ELSE Delay(a)
       /\ attempt' = IF a = MaxAttempt THEN a ELSE a + 1

HasLine(b) == \E i \in DOMAIN b : b[i] # "frame"

\* bufio reads ahead while it has found no newline.
Fill(n) ==
  /\ cpc = "read"
  /\ ~HasLine(buf)
  /\ n \in 1..Len(wire)
  /\ buf' = buf \o SubSeq(wire, 1, n)
  /\ wire' = SubSeq(wire, n + 1, Len(wire))
  /\ UNCHANGED <<cpc, spc, attempt, delay, early, trouble>>

\* Slips: what was read ahead is dropped with the reader; any bytes will do.
SwitchWithLeftover ==
  /\ cpc = "read"
  /\ buf # <<>> /\ Head(buf) = "ok"
  /\ cpc' = "up"
  /\ buf' = Tail(buf)
  /\ UNCHANGED <<spc, wire, attempt, delay, early, trouble>>

SwitchOnAnything ==
  /\ cpc = "read"
  /\ Len(buf) = 1
  /\ cpc' = "up"
  /\ buf' = Tail(buf)
  /\ UNCHANGED <<spc, wire, attempt, delay, early, trouble>>

\* resp.OK and br.Buffered() = 0: the connection goes to yamux.
SwitchToYamux ==
  /\ cpc = "read"
  /\ buf # <<>> /\ Head(buf) = "ok"
  /\ Len(buf) = 1
  /\ cpc' = "up"
  /\ buf' = Tail(buf)
  /\ UNCHANGED <<spc, wire, attempt, delay, early, trouble>>

\* A refusal, bytes behind the line, or a line that begins with a frame; a
\* frame may hold a newline of its own.
RejectAnswer ==
  /\ cpc = "read"
  /\ buf # <<>>
  /\ \/ Head(buf) \in {"taken", "refusal"}
     \/ Head(buf) = "ok" /\ Len(buf) > 1
     \/ Head(buf) = "frame"
  /\ \E long \in BOOLEAN : Disconnect(long, Head(buf) = "taken")
  /\ UNCHANGED <<spc, wire, buf, early, trouble>>

\* sess.Accept() and yamux's own reads.
YamuxRead ==
  /\ cpc = "up"
  /\ wire # <<>>
  /\ wire' = Tail(wire)
  /\ UNCHANGED <<cpc, spc, buf, attempt, delay, early, trouble>>

\* The server side is gone: the pending read returns an error. How long
\* runOnce took is left open.
ClientSeesClose ==
  /\ cpc # "backoff"
  /\ spc = "none" /\ wire = <<>>
  /\ ~(cpc = "read" /\ buf # <<>>)
  /\ \E long \in BOOLEAN : Disconnect(long, FALSE)
  /\ UNCHANGED <<spc, wire, buf, early, trouble>>

-----------------------------------------------------------------------------
(* Server                                                                  *)

Write(item) == wire' = Append(wire, item)

\* The hello is read and valid, and yamux.Server(conn) is running.
StartSession ==
  /\ spc = "hello"
  /\ spc' = "session"
  /\ UNCHANGED <<cpc, wire, buf, attempt, delay, early, trouble>>

\* A slip: the name still counts as taken by the client's own last session.
ClaimRefusesOwn ==
  /\ spc = "session"
  /\ Write("taken")
  /\ spc' = "none"
  /\ UNCHANGED <<cpc, buf, attempt, delay, early, trouble>>

\* The tunnel is in the registry: visitors find it from here on.
Claim ==
  /\ spc = "session"
  /\ spc' = "claimed"
  /\ UNCHANGED <<cpc, wire, buf, attempt, delay, early, trouble>>

\* Another client holds the name, or a custom hostname that goes with it: the
\* second answer does not read "subdomain in use".
RefuseClaim ==
  /\ spc = "session"
  /\ trouble < MaxTrouble
  /\ \E answer \in {"taken", "refusal"} : Write(answer)
  /\ spc' = "none"
  /\ trouble' = trouble + 1
  /\ UNCHANGED <<cpc, buf, attempt, delay, early>>

\* WriteJSONLine(conn, resp)
Reply ==
  /\ spc = "claimed"
  /\ Write("ok")
  /\ spc' = "serving"
  /\ UNCHANGED <<cpc, buf, attempt, delay, early, trouble>>

WriteFrame ==
  /\ Len(wire) < WireCap
  /\ Write("frame")
  /\ \/ cpc = "up" /\ UNCHANGED early
     \/ cpc # "up" /\ early < MaxEarly /\ early' = early + 1
  /\ UNCHANGED <<cpc, spc, buf, attempt, delay, trouble>>

\* yamux's keepalive, every ten seconds from StartSession on: the DNS calls of
\* LAN-direct can hold the answer back for longer.
Ping ==
  /\ spc \in {"session", "claimed", "serving"}
  /\ WriteFrame

\* t.session.Open() for a visitor.
OpenStream ==
  /\ spc \in {"claimed", "serving"}
  /\ WriteFrame

\* The client has closed the connection, or it broke.
ServerSeesClose ==
  /\ spc # "none" /\ cpc = "backoff"
  /\ spc' = "none"
  /\ wire' = <<>>
  /\ UNCHANGED <<cpc, buf, attempt, delay, early, trouble>>

Break ==
  /\ spc # "none" /\ cpc # "backoff"
  /\ trouble < MaxTrouble
  /\ spc' = "none"
  /\ \E n \in 0..Len(wire) : wire' = SubSeq(wire, 1, n)
  /\ trouble' = trouble + 1
  /\ UNCHANGED <<cpc, buf, attempt, delay, early>>

-----------------------------------------------------------------------------
ClientStep ==
  \/ Dial \/ (\E n \in 1..WireCap + 1 : Fill(n)) \/ SwitchToYamux \/ RejectAnswer
  \/ YamuxRead \/ ClientSeesClose

ServerStep == StartSession \/ Claim \/ Reply \/ ServerSeesClose

Next == ClientStep \/ ServerStep \/ RefuseClaim \/ Ping \/ OpenStream \/ Break

Spec == Init /\ [][Next]_vars

\* Both programs run; nothing obliges a visitor, a ping or a fault to happen.
FairSpec == Spec /\ WF_vars(ClientStep) /\ WF_vars(ServerStep)

-----------------------------------------------------------------------------
TypeOK ==
  /\ cpc \in {"backoff", "read", "up"}
  /\ spc \in {"none", "hello", "session", "claimed", "serving"}
  /\ wire \in Seq(Item) /\ buf \in Seq(Item)
  /\ attempt \in 1..MaxAttempt
  /\ delay \in 0..Ceiling
  /\ delay = 0 <=> cpc # "backoff" \/ attempt = 1
  /\ early \in 0..MaxEarly
  /\ trouble \in 0..MaxTrouble

\* What reaches yamux is the server's frames from the first one on: when the
\* client hands over the connection, nothing of the session stayed behind in
\* the bufio.Reader, and no JSON line is still to come.
YamuxStartsClean ==
  cpc = "up" => buf = <<>> /\ ~HasLine(wire)

\* The client runs yamux only with a server that has told it so.
BothSidesSwitched ==
  cpc = "up" /\ spc # "none" => spc = "serving"

\* Once visitors and pings leave its handshakes alone, the network holds and
\* nobody else has the name, the client gets through and stays.
ConnectsWhenQuiet == <>[](cpc = "up" /\ spc = "serving")
=============================================================================
