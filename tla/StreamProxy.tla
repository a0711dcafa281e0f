----------------------------- MODULE StreamProxy -----------------------------
(***************************************************************************)
(* One visitor's connection through the tunnel: the two copying goroutines *)
(* at the end of handlePublicConn (cmd/mygrokd/main.go), the yamux stream, *)
(* and proxyToLocal and forwardOne (cmd/mygrok/main.go), which take the    *)
(* bytes apart into requests and give each one a local connection of its   *)
(* own. The server copies bytes and sees no end of a message, the client   *)
(* sees messages and forwards no end of a local connection.                *)
(*                                                                         *)
(* A pipe is one direction of one connection: the messages under way, and  *)
(* Fin once the writer has closed. Nothing bounds a pipe but the number of *)
(* requests: flow control only delays.                                     *)
(***************************************************************************)
EXTENDS Naturals, Sequences

CONSTANTS
  MaxReq,   \* bound on the requests of one visitor
  Answers   \* kinds of answers the local server gives

ASSUME AnswersAssumption ==
  /\ MaxReq \in Nat \ {0}
  \* An answer that says where it ends; one that ends with the connection; a
  \* 100 or 103, with the answer proper behind it.
  /\ Answers \subseteq {"framed", "unframed", "interim"}

VARIABLES
  vis,      \* the visitor: "open", "half" (no more requests) or "gone"
  sent,     \* requests the visitor has sent
  last,     \* the kind of the last one
  reading,  \* request whose answer the visitor reads to the end of the connection
  got,      \* requests whose answers are complete, as the visitor sees them
  veof,     \* the visitor has seen the end of its connection
  up,       \* visitor to server
  down,     \* server to visitor
  sup,      \* server to client, on the stream
  sdown,    \* client to server, on the stream
  alive,    \* the stream has not been reset and its session is up
  s1, s2,   \* the server's goroutines: "copy" or "done"
  cpc,      \* proxyToLocal: "read", "forward", "await", "pump" or "done"
  cur,      \* its request
  p1, p2,   \* its goroutines after an upgrade, visitor to local and back
  local     \* the local connection after an upgrade: "open", "eof", "closed"

visitor == <<vis, sent, last, reading, got, veof>>
server == <<s1, s2>>
pump == <<p1, p2, local>>
client == <<cpc, cur, pump>>
vars == <<visitor, up, down, sup, sdown, alive, server, client>>

Message(kind, of) == [kind |-> kind, of |-> of]
Fin == Message("fin", 0)
Kinds == {"plain", "upgrade"}

Ended(pipe) == pipe # <<>> /\ pipe[Len(pipe)] = Fin
\* Closing twice is closing once.
Close(pipe) == IF Ended(pipe) THEN pipe ELSE Append(pipe, Fin)
\* What is written to a pipe that has ended, or on a dead stream, is lost.
Put(pipe, m) == IF Ended(pipe) THEN pipe ELSE Append(pipe, m)

\* The stream is open and the request that was routed has been written to it.
Init ==
  /\ vis = "open" /\ sent = 1 /\ reading = 0 /\ got = <<>> /\ veof = FALSE
  /\ up = <<>> /\ down = <<>> /\ sdown = <<>>
  /\ last \in Kinds /\ sup = <<Message(last, 1)>>
  /\ alive = TRUE
  /\ s1 = "copy" /\ s2 = "copy"
  /\ cpc = "read" /\ cur = Message("plain", 1)
  /\ p1 = "idle" /\ p2 = "idle" /\ local = "closed"

-----------------------------------------------------------------------------
(* The visitor, an HTTP/1.1 client                                         *)

\* Requests may follow each other before the answers come; one for an upgrade
\* is the last.
Send(k) ==
  /\ vis = "open" /\ ~veof
  /\ sent < MaxReq
  /\ last = "plain"
  /\ sent' = sent + 1 /\ last' = k
  /\ up' = Put(up, Message(k, sent + 1))
  /\ UNCHANGED <<vis, reading, got, veof, down, sup, sdown, alive, server, client>>

FinishSending ==
  /\ vis = "open"
  /\ vis' = "half"
  /\ up' = Close(up)
  /\ UNCHANGED <<sent, last, reading, got, veof, down, sup, sdown, alive, server, client>>

Leave ==
  /\ vis # "gone"
  /\ vis' = "gone"
  /\ up' = Close(up)
  /\ UNCHANGED <<sent, last, reading, got, veof, down, sup, sdown, alive, server, client>>

\* Answers are taken for those of the requests in their order. An interim
\* answer is read past; one without an end takes in all that follows.
Receive ==
  /\ vis # "gone"
  /\ down # <<>>
  /\ down' = Tail(down)
  /\ LET m == Head(down) IN
       /\ veof' = (m = Fin)
       /\ reading' = IF m.kind = "unframed" /\ reading = 0 THEN m.of ELSE reading
       /\ got' = IF m = Fin /\ reading # 0 THEN Append(got, reading)
                 ELSE IF m.kind \in {"framed", "switch"} /\ reading = 0
                 THEN Append(got, m.of)
                 ELSE got
  /\ UNCHANGED <<vis, sent, last, up, sup, sdown, alive, server, client>>

-----------------------------------------------------------------------------
(* mygrokd                                                                 *)

\* io.Copy(stream, br), then stream.Close(): the half towards the client. It
\* ends with the visitor's requests, when conn has been closed under it, and
\* when the stream takes no more.
CopyUp ==
  /\ s1 = "copy"
  /\ \/ /\ up # <<>> /\ Head(up) # Fin /\ alive /\ ~Ended(down)
        /\ up' = Tail(up)
        /\ sup' = Put(sup, Head(up))
        /\ UNCHANGED s1
     \/ /\ (up # <<>> /\ Head(up) = Fin) \/ ~alive \/ Ended(down)
        /\ s1' = "done"
        /\ sup' = Close(sup)
        /\ UNCHANGED up
  /\ UNCHANGED <<visitor, down, sdown, alive, s2, client>>

\* A slip the runs are tested with: conn is left to the other goroutine.
CopyDownKeepsConn ==
  /\ s2 = "copy"
  /\ \/ /\ sdown # <<>> /\ Head(sdown) # Fin /\ vis # "gone"
        /\ sdown' = Tail(sdown)
        /\ down' = Put(down, Head(sdown))
        /\ UNCHANGED s2
     \/ /\ ~alive \/ (sdown # <<>> /\ (Head(sdown) = Fin \/ vis = "gone"))
        /\ s2' = "done"
        /\ UNCHANGED <<sdown, down>>
  /\ UNCHANGED <<visitor, up, sup, alive, s1, client>>

\* io.Copy(conn, stream), then conn.Close(). A visitor that is gone is noticed
\* by writing to it.
CopyDown ==
  /\ s2 = "copy"
  /\ \/ /\ sdown # <<>> /\ Head(sdown) # Fin /\ vis # "gone"
        /\ sdown' = Tail(sdown)
        /\ down' = Put(down, Head(sdown))
        /\ UNCHANGED s2
     \/ /\ ~alive \/ (sdown # <<>> /\ (Head(sdown) = Fin \/ vis = "gone"))
        /\ s2' = "done"
        /\ down' = Close(down)
        /\ UNCHANGED sdown
  /\ UNCHANGED <<visitor, up, sup, alive, s1, client>>

\* The session ends under the stream, or yamux resets a stream that only this
\* side has closed, after five minutes.
StreamDies ==
  /\ alive
  /\ alive' = FALSE
  /\ UNCHANGED <<visitor, up, down, sup, sdown, server, client>>

-----------------------------------------------------------------------------
(* mygrok                                                                  *)

\* The deferred stream.Close().
CloseStream ==
  /\ cpc' = "done"
  /\ sdown' = Close(sdown)

\* http.ReadRequest, without an end while the visitor keeps its connection;
\* only the first one has a deadline, and it is there from the start.
ReadRequest ==
  /\ cpc = "read"
  /\ \/ /\ sup # <<>> /\ Head(sup) # Fin
        /\ cur' = Head(sup)
        /\ sup' = Tail(sup)
        /\ cpc' = "forward"
        /\ UNCHANGED sdown
     \/ /\ ~alive \/ (sup # <<>> /\ Head(sup) = Fin)
        /\ CloseStream
        /\ UNCHANGED <<cur, sup>>
  /\ UNCHANGED <<visitor, up, down, alive, server, pump>>

\* mcpGate or basicAuthOK refuses, or nothing listens at the target: an answer
\* of mygrok's own, and no more requests.
Refuse ==
  /\ cpc = "forward"
  /\ cpc' = "done"
  /\ sdown' = Close(IF alive THEN Put(sdown, Message("framed", cur.of)) ELSE sdown)
  /\ UNCHANGED <<visitor, up, down, sup, alive, server, cur, pump>>

\* req.Write(local)
Forward ==
  /\ cpc = "forward"
  /\ cpc' = "await"
  /\ UNCHANGED <<visitor, up, down, sup, sdown, alive, server, cur, pump>>

\* Another: the next request after a failed one.
FailGoesOn ==
  /\ cpc = "await"
  /\ cpc' = "read"
  /\ UNCHANGED <<visitor, up, down, sup, sdown, alive, server, cur, pump>>

\* The request cannot be written, or what comes back is no response.
Fail ==
  /\ cpc = "await"
  /\ CloseStream
  /\ UNCHANGED <<visitor, up, down, sup, alive, server, cur, pump>>

\* http.ReadResponse takes the first response on the local connection and
\* resp.Write passes it on; the local connection is closed behind it, with
\* whatever it would still have sent, and the stream goes on to the next
\* request.
Respond(k) ==
  /\ cpc = "await"
  /\ IF alive
     THEN sdown' = Put(sdown, Message(k, cur.of)) /\ cpc' = "read"
     ELSE CloseStream
  /\ UNCHANGED <<visitor, up, down, sup, alive, server, cur, pump>>

\* A 101 to a request for an upgrade: two goroutines copy what follows.
Switch ==
  /\ cpc = "await" /\ cur.kind = "upgrade" /\ alive
  /\ sdown' = Put(sdown, Message("switch", cur.of))
  /\ cpc' = "pump"
  /\ p1' = "copy" /\ p2' = "copy" /\ local' = "open"
  /\ UNCHANGED <<visitor, up, down, sup, alive, server, cur>>

\* Another: the local server is not told that the visitor is done.
PumpUpKeepsLocal ==
  /\ p1 = "copy"
  /\ ~alive \/ (sup # <<>> /\ Head(sup) = Fin)
  /\ p1' = "done"
  /\ UNCHANGED <<visitor, up, down, sup, sdown, alive, server, cpc, cur, p2, local>>

\* io.Copy(local, srcBR), then closeWrite(local)
PumpUp ==
  /\ p1 = "copy"
  /\ ~alive \/ (sup # <<>> /\ Head(sup) = Fin)
  /\ p1' = "done"
  /\ local' = IF local = "open" THEN "eof" ELSE local
  /\ UNCHANGED <<visitor, up, down, sup, sdown, alive, server, cpc, cur, p2>>

\* The local server closes its end: at will, or since it has read to the end.
LocalCloses ==
  /\ local \in {"open", "eof"}
  /\ local' = "closed"
  /\ UNCHANGED <<visitor, up, down, sup, sdown, alive, server, cpc, cur, p1, p2>>

\* io.Copy(stream, dstBR), then closeWrite(stream), which does something if
\* the stream's type has a CloseWrite.
PumpDown ==
  /\ p2 = "copy"
  /\ local = "closed"
  /\ p2' = "done"
  /\ sdown' \in {sdown, Close(sdown)}
  /\ UNCHANGED <<visitor, up, down, sup, alive, server, cpc, cur, p1, local>>

\* The last: the end of the stream is written once more.
PumpEndsTwice ==
  /\ cpc = "pump" /\ p1 = "done" /\ p2 = "done"
  /\ cpc' = "done"
  /\ sdown' = Append(sdown, Fin)
  /\ UNCHANGED <<visitor, up, down, sup, alive, server, cur, pump>>

\* wg.Wait()
PumpEnds ==
  /\ cpc = "pump" /\ p1 = "done" /\ p2 = "done"
  /\ CloseStream
  /\ UNCHANGED <<visitor, up, down, sup, alive, server, cur, pump>>

-----------------------------------------------------------------------------
Answering == (\E k \in Answers : Respond(k)) \/ Switch \/ Fail

Next ==
  \/ (\E k \in Kinds : Send(k)) \/ FinishSending \/ Leave \/ Receive
  \/ CopyUp \/ CopyDown \/ StreamDies
  \/ ReadRequest \/ Refuse \/ Forward \/ Answering
  \/ PumpUp \/ LocalCloses \/ PumpDown \/ PumpEnds

Spec == Init /\ [][Next]_vars

\* The goroutines run and the visitor reads what it is sent. The local server
\* answers a request and closes a connection its peer has closed, in the end:
\* mygrok waits for it without a deadline. Nothing else has to happen.
Fairness ==
  /\ WF_vars(Receive)
  /\ WF_vars(CopyUp) /\ WF_vars(CopyDown)
  /\ WF_vars(ReadRequest) /\ WF_vars(Refuse \/ Forward) /\ WF_vars(Answering)
  /\ WF_vars(PumpUp) /\ WF_vars(PumpDown) /\ WF_vars(PumpEnds)
  /\ WF_vars(local = "eof" /\ LocalCloses)

FairSpec == Spec /\ Fairness

-----------------------------------------------------------------------------
(* Properties                                                              *)

\* Kinds of the values. Of the pipes: who has closed writes no more.
StreamTypeOK ==
  /\ vis \in {"open", "half", "gone"}
  /\ sent \in 1..MaxReq /\ reading \in 0..MaxReq
  /\ got \in Seq(1..MaxReq) /\ veof \in BOOLEAN /\ alive \in BOOLEAN
  /\ s1 \in {"copy", "done"} /\ s2 \in {"copy", "done"}
  /\ cpc \in {"read", "forward", "await", "pump", "done"}
  /\ cur.kind \in Kinds /\ cur.of \in 1..MaxReq /\ last \in Kinds
  /\ p1 \in {"idle", "copy", "done"} /\ p2 \in {"idle", "copy", "done"}
  /\ local \in {"open", "eof", "closed"}
  /\ \A pipe \in {up, down, sup, sdown} :
       \A i \in DOMAIN pipe : pipe[i] = Fin => i = Len(pipe)

\* Each request is answered with its own answer, however many are under way
\* and whatever fails: what the visitor counts as the answer to its n-th
\* request is the local server's answer to that one. (proxyToLocal may go on
\* with the next request only when the last has been answered.)
OwnAnswers == \A i \in DOMAIN got : got[i] = i

\* A visitor that stays is never left without a word: its request is answered,
\* it has begun to be, or the connection ends.
Begun(i) == Len(got) >= i \/ reading # 0 \/ veof \/ vis = "gone"
AnswerBegins == \A i \in 1..MaxReq : sent >= i ~> Begun(i)

\* A visitor that leaves takes everything with it: both goroutines of the
\* server, the stream, the client's goroutines and the local connection.
AllReleased == s1 = "done" /\ s2 = "done" /\ cpc = "done" /\ local = "closed"
Released == vis = "gone" ~> AllReleased
=============================================================================
