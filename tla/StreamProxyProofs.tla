-------------------------- MODULE StreamProxyProofs --------------------------
(***************************************************************************)
(* Proofs about StreamProxy, for any number of requests.                    *)
(***************************************************************************)
EXTENDS StreamProxy, SequenceTheorems, TLAPS

-----------------------------------------------------------------------------
(* Pipes                                                                   *)

Asked == [kind : Kinds, of : 1..MaxReq]
Answered == [kind : Answers \cup {"framed", "switch"}, of : 1..MaxReq]

\* A pipe of messages of S: who has closed it writes no more.
Pipe(S, pipe) ==
  /\ pipe \in Seq(S \cup {Fin})
  /\ \A i \in DOMAIN pipe : pipe[i] = Fin => i = Len(pipe)

LEMMA PipeEmpty == ASSUME NEW S PROVE Pipe(S, <<>>) /\ ~Ended(<<>>)
BY DEF Pipe, Ended

\* Put and Close at the end of a pipe,
LEMMA PipePut ==
  ASSUME NEW S, NEW pipe, Pipe(S, pipe), NEW m \in S \cup {Fin}
  PROVE  /\ Pipe(S, Put(pipe, m))
         /\ Ended(Put(pipe, m)) <=> Ended(pipe) \/ m = Fin
         /\ Ended(pipe) => Put(pipe, m) = pipe
         /\ ~Ended(pipe) => /\ Put(pipe, m) = Append(pipe, m)
                            /\ DOMAIN Put(pipe, m) = 1..Len(pipe) + 1
                            /\ Len(Put(pipe, m)) = Len(pipe) + 1
                            /\ Put(pipe, m)[Len(pipe) + 1] = m
                            /\ \A i \in 1..Len(pipe) : Put(pipe, m)[i] = pipe[i]
<1>1. CASE Ended(pipe)
  BY <1>1 DEF Put
<1>2. CASE ~Ended(pipe)
  <2> DEFINE a == Append(pipe, m)
  <2>1. Put(pipe, m) = a
    BY <1>2 DEF Put
  <2>2. /\ a \in Seq(S \cup {Fin}) /\ Len(a) = Len(pipe) + 1 /\ a[Len(pipe) + 1] = m
        /\ DOMAIN a = 1..Len(pipe) + 1 /\ DOMAIN pipe = 1..Len(pipe)
        /\ Len(pipe) \in Nat
        /\ \A i \in 1..Len(pipe) : a[i] = pipe[i]
    BY DEF Pipe
  <2> HIDE DEF a
  <2>3. a # <<>>
    BY <2>2
  <2>4. \A i \in 1..Len(pipe) : pipe[i] # Fin
    <3> SUFFICES ASSUME NEW i \in 1..Len(pipe), pipe[i] = Fin PROVE FALSE
      OBVIOUS
    <3>1. i = Len(pipe)
      BY <2>2 DEF Pipe
    <3>2. pipe # <<>>
      BY <2>2, EmptySeq
    <3> QED
      BY <1>2, <3>1, <3>2 DEF Ended
  <2>5. Pipe(S, a)
    BY <2>2, <2>4 DEF Pipe
  <2>6. Ended(a) <=> m = Fin
    BY <2>2, <2>3 DEF Ended
  <2> QED
    BY <1>2, <2>1, <2>2, <2>5, <2>6 DEF a
<1> QED
  BY <1>1, <1>2

LEMMA CloseIsPut == ASSUME NEW pipe PROVE Close(pipe) = Put(pipe, Fin)
BY DEF Close, Put

\* ... and what is taken from its front.
LEMMA PipeTail ==
  ASSUME NEW S, NEW pipe, Pipe(S, pipe), pipe # <<>>
  PROVE  /\ Head(pipe) \in S \cup {Fin} /\ Head(pipe) = pipe[1] /\ 1 \in DOMAIN pipe
         /\ Len(pipe) \in Nat \ {0} /\ Len(Tail(pipe)) = Len(pipe) - 1
         /\ DOMAIN pipe = 1..Len(pipe) /\ DOMAIN Tail(pipe) = 1..Len(pipe) - 1
         /\ \A i \in 1..Len(pipe) - 1 : Tail(pipe)[i] = pipe[i + 1]
         /\ Pipe(S, Tail(pipe))
         /\ Ended(Tail(pipe)) => Ended(pipe)
         /\ Head(pipe) = Fin => Tail(pipe) = <<>> /\ Ended(pipe)
<1> DEFINE a == Tail(pipe)
<1>1. /\ pipe \in Seq(S \cup {Fin}) /\ Len(pipe) \in Nat \ {0}
      /\ \A i \in DOMAIN pipe : pipe[i] = Fin => i = Len(pipe)
  BY EmptySeq DEF Pipe
<1>2. /\ a \in Seq(S \cup {Fin}) /\ Len(a) = Len(pipe) - 1
      /\ DOMAIN pipe = 1..Len(pipe) /\ DOMAIN a = 1..Len(pipe) - 1
      /\ \A i \in 1..Len(pipe) - 1 : a[i] = pipe[i + 1]
      /\ Head(pipe) = pipe[1] /\ Head(pipe) \in S \cup {Fin}
  BY <1>1
<1> HIDE DEF a
<1>3. Pipe(S, a)
  BY <1>1, <1>2 DEF Pipe
<1>4. Ended(a) => Ended(pipe)
  <2> SUFFICES ASSUME Ended(a) PROVE Ended(pipe)
    OBVIOUS
  <2>1. Len(a) \in Nat \ {0} /\ a[Len(a)] = Fin
    BY <1>2, EmptySeq DEF Ended
  <2>2. pipe[Len(pipe)] = Fin
    BY <1>1, <1>2, <2>1
  <2> QED
    BY <2>2 DEF Ended
<1>5. Head(pipe) = Fin => a = <<>> /\ Ended(pipe)
  <2> SUFFICES ASSUME pipe[1] = Fin PROVE a = <<>> /\ Ended(pipe)
    BY <1>2
  <2>1. Len(pipe) = 1
    BY <1>1, <1>2
  <2>2. a = <<>>
    BY <1>2, <2>1, EmptySeq
  <2> QED
    BY <2>1, <2>2 DEF Ended
<1> QED
  BY <1>1, <1>2, <1>3, <1>4, <1>5 DEF a

-----------------------------------------------------------------------------
(* What the pipes carry, and who has closed them                           *)

\* The values of the processes' own variables.
States ==
  /\ vis \in {"open", "half", "gone"}
  /\ sent \in 1..MaxReq /\ reading \in 0..MaxReq
  /\ got \in Seq(1..MaxReq)
  /\ s1 \in {"copy", "done"} /\ s2 \in {"copy", "done"}
  /\ cpc \in {"read", "forward", "await", "pump", "done"}
  /\ cur \in Asked /\ last \in Kinds
  /\ p1 \in {"idle", "copy", "done"} /\ p2 \in {"idle", "copy", "done"}
  /\ local \in {"open", "eof", "closed"}

Flags == veof \in BOOLEAN /\ alive \in BOOLEAN

Carried ==
  /\ Pipe(Asked, up) /\ Pipe(Asked, sup)
  /\ Pipe(Answered, down) /\ Pipe(Answered, sdown)

\* Each end is closed by the process that writes to it, with its last step.
Ends ==
  /\ Ended(up) => vis # "open"
  /\ Ended(sup) => s1 = "done"
  /\ Ended(down) => s2 = "done"
  /\ Ended(sdown) => cpc \in {"pump", "done"}
  /\ p2 # "idle" => cpc \in {"pump", "done"}

SInv == States /\ Flags /\ Carried /\ Ends

LEMMA Kinds2 == ASSUME NEW k \in Kinds, NEW n \in 1..MaxReq PROVE Message(k, n) \in Asked
BY DEF Message, Asked

LEMMA Answers2 ==
  ASSUME NEW k \in Answers \cup {"framed", "switch"}, NEW n \in 1..MaxReq
  PROVE  Message(k, n) \in Answered
BY DEF Message, Answered

\* No message is the end of a pipe.
LEMMA NotFin ==
  /\ \A m \in Asked : m # Fin /\ m.kind \in Kinds /\ m.of \in 1..MaxReq
  /\ \A m \in Answered : /\ m # Fin /\ m.of \in 1..MaxReq
                         /\ m.kind \in Answers \cup {"framed", "switch"}
  /\ Fin.kind = "fin"
BY AnswersAssumption DEF Asked, Answered, Fin, Message, Kinds

LEMMA SInit == Init => SInv
<1> SUFFICES ASSUME Init PROVE SInv
  OBVIOUS
<1>1. 1 \in 1..MaxReq /\ MaxReq \in Nat
  BY AnswersAssumption
<1>2. Message(last, 1) \in Asked /\ Message("plain", 1) \in Asked
  BY <1>1, Kinds2 DEF Init, Kinds
<1>3. States
  BY <1>1, <1>2 DEF Init, States
<1>4. sup = Put(<<>>, Message(last, 1))
  BY PipeEmpty DEF Init, Put
<1>5. Pipe(Asked, sup) /\ ~Ended(sup)
  BY <1>2, <1>4, PipeEmpty, PipePut, NotFin
<1>6. Carried /\ Ends
  BY <1>5, PipeEmpty DEF Init, Carried, Ends
<1>7. Flags
  BY Zenon DEF Init, Flags
<1> QED
  BY <1>3, <1>6, <1>7 DEF SInv

\* The disjuncts of Next, flat.
LEMMA SSteps ==
  ASSUME Next
  PROVE  \/ \E k \in Kinds : Send(k)
         \/ FinishSending \/ Leave \/ Receive
         \/ CopyUp \/ CopyDown \/ StreamDies
         \/ ReadRequest \/ Refuse \/ Forward
         \/ \E k \in Answers : Respond(k)
         \/ Switch \/ Fail
         \/ PumpUp \/ LocalCloses \/ PumpDown \/ PumpEnds
BY DEF Next, Answering

LEMMA FlagsStep == Flags /\ Next => Flags'
<1> SUFFICES ASSUME Flags, Next PROVE Flags'
  OBVIOUS
<1>1. ASSUME UNCHANGED <<veof, alive>> PROVE Flags'
  BY <1>1 DEF Flags
<1>2. CASE Receive
  <2>1. veof' = (Head(down) = Fin) /\ alive' = alive
    BY <1>2 DEF Receive
  <2> QED
    BY <2>1, Zenon DEF Flags
<1>3. CASE StreamDies
  <2>1. veof' = veof /\ alive' = FALSE
    BY <1>3 DEF StreamDies, visitor
  <2> QED
    BY <2>1, Zenon DEF Flags
<1>4. CASE (\E k \in Kinds : Send(k)) \/ FinishSending \/ Leave \/ CopyUp \/ CopyDown
  BY <1>1, <1>4 DEF Send, FinishSending, Leave, CopyUp, CopyDown, visitor
<1>5. CASE ReadRequest \/ Refuse \/ Forward \/ (\E k \in Answers : Respond(k)) \/ Switch \/ Fail
  BY <1>1, <1>5 DEF ReadRequest, Refuse, Forward, Respond, Switch, Fail, visitor
<1>6. CASE PumpUp \/ LocalCloses \/ PumpDown \/ PumpEnds
  BY <1>1, <1>6 DEF PumpUp, LocalCloses, PumpDown, PumpEnds, visitor
<1> QED
  BY <1>2, <1>3, <1>4, <1>5, <1>6, SSteps

LEMMA StatesStep == States /\ Carried /\ Next => States'
<1> SUFFICES ASSUME States, Carried, Next PROVE States'
  OBVIOUS
<1>0. MaxReq \in Nat \ {0}
  BY AnswersAssumption
<1>1. ASSUME NEW k \in Kinds, Send(k) PROVE States'
  <2>1. sent + 1 \in 1..MaxReq
    BY <1>0, <1>1 DEF Send, States
  <2> QED
    BY <1>1, <2>1 DEF Send, States, server, client, pump
<1>2. CASE FinishSending \/ Leave
  BY <1>2 DEF FinishSending, Leave, States, server, client, pump
<1>3. CASE Receive
  <2> DEFINE m == Head(down)
  <2>1. m \in Answered \cup {Fin}
    BY <1>3, PipeTail DEF Receive, Carried
  <2>2. /\ reading' = IF m.kind = "unframed" /\ reading = 0 THEN m.of ELSE reading
        /\ got' = IF m = Fin /\ reading # 0 THEN Append(got, reading)
                  ELSE IF m.kind \in {"framed", "switch"} /\ reading = 0
                  THEN Append(got, m.of) ELSE got
        /\ UNCHANGED <<vis, sent, last, s1, s2, cpc, cur, p1, p2, local>>
    BY <1>3 DEF Receive, server, client, pump
  <2>3. m # Fin => m.of \in 1..MaxReq
    BY <2>1, NotFin
  <2>4. m.kind = "unframed" => m # Fin
    BY NotFin
  <2>5. m.kind \in {"framed", "switch"} => m # Fin
    BY NotFin
  <2> HIDE DEF m
  <2>6. reading' \in 0..MaxReq
    BY <1>0, <2>2, <2>3, <2>4 DEF States
  <2>7. reading # 0 => reading \in 1..MaxReq
    BY <1>0 DEF States
  <2>8. got' \in Seq(1..MaxReq)
    <3>1. \A n \in 1..MaxReq : Append(got, n) \in Seq(1..MaxReq)
      BY DEF States
    <3>2. got' \in {got} \cup {Append(got, n) : n \in 1..MaxReq}
      <4>1. CASE m = Fin /\ reading # 0
        BY <2>2, <2>7, <4>1
      <4>2. CASE ~(m = Fin /\ reading # 0) /\ m.kind \in {"framed", "switch"} /\ reading = 0
        <5>1. got' = Append(got, m.of) /\ m.of \in 1..MaxReq
          BY <2>2, <2>3, <2>5, <4>2
        <5> QED
          BY <5>1
      <4>3. CASE ~(m = Fin /\ reading # 0) /\ ~(m.kind \in {"framed", "switch"} /\ reading = 0)
        BY <2>2, <4>3
      <4> QED
        BY <4>1, <4>2, <4>3
    <3> QED
      BY <3>1, <3>2 DEF States
  <2> QED
    BY <2>2, <2>6, <2>8 DEF States
<1>4. CASE CopyUp \/ CopyDown \/ StreamDies
  BY <1>4 DEF CopyUp, CopyDown, StreamDies, States, visitor, server, client, pump
<1>5. CASE ReadRequest
  <2>1. sup # <<>> /\ Head(sup) # Fin => Head(sup) \in Asked
    BY PipeTail DEF Carried
  <2> QED
    BY <1>5, <2>1 DEF ReadRequest, CloseStream, States, visitor, server, pump
<1>6. CASE Refuse \/ Forward \/ Fail \/ \E k \in Answers : Respond(k)
  BY <1>6 DEF Refuse, Forward, Fail, Respond, CloseStream, States, visitor, server, pump
<1>7. CASE Switch
  BY <1>7 DEF Switch, States, visitor, server
<1>8. CASE PumpUp \/ LocalCloses \/ PumpDown \/ PumpEnds
  BY <1>8 DEF PumpUp, LocalCloses, PumpDown, PumpEnds, CloseStream, States, visitor, server, pump
<1> QED
  BY <1>1, <1>2, <1>3, <1>4, <1>5, <1>6, <1>7, <1>8, SSteps

LEMMA PipesStep == States /\ Carried /\ Ends /\ Next => Carried' /\ Ends'
<1> SUFFICES ASSUME States, Carried, Ends, Next PROVE Carried' /\ Ends'
  OBVIOUS
<1>1. ASSUME NEW k \in Kinds, Send(k) PROVE Carried' /\ Ends'
  <2>1. Message(k, sent + 1) \in Asked
    BY <1>1, Kinds2, AnswersAssumption DEF Send, States
  <2>2. Pipe(Asked, up') /\ ~Ended(up')
    BY <1>1, <2>1, PipePut, NotFin DEF Send, Carried, Ends
  <2> QED
    BY <1>1, <2>2 DEF Send, Carried, Ends, Ended, server, client, pump
<1>2. CASE FinishSending \/ Leave
  <2>1. Pipe(Asked, up') /\ vis' # "open"
    BY <1>2, CloseIsPut, PipePut DEF FinishSending, Leave, Carried
  <2> QED
    BY <1>2, <2>1 DEF FinishSending, Leave, Carried, Ends, Ended, server, client, pump
<1>3. CASE Receive
  <2>1. Pipe(Answered, down') /\ (Ended(down') => s2 = "done")
    BY <1>3, PipeTail DEF Receive, Carried, Ends
  <2> QED
    BY <1>3, <2>1 DEF Receive, Carried, Ends, Ended, server, client, pump
<1>4. CASE CopyUp
  <2>1. CASE /\ up # <<>> /\ Head(up) # Fin
             /\ up' = Tail(up) /\ sup' = Put(sup, Head(up)) /\ UNCHANGED s1
    <3>1. Pipe(Asked, up') /\ (Ended(up') => vis # "open")
      BY <2>1, PipeTail DEF Carried, Ends
    <3>2. Head(up) \in Asked
      BY <2>1, PipeTail DEF Carried
    <3>3. Pipe(Asked, sup') /\ (Ended(sup') => s1 = "done")
      BY <2>1, <3>2, PipePut, NotFin DEF Carried, Ends
    <3> QED
      BY <1>4, <2>1, <3>1, <3>3 DEF CopyUp, Carried, Ends, Ended, visitor, client, pump
  <2>2. CASE s1' = "done" /\ sup' = Close(sup) /\ UNCHANGED up
    <3>1. Pipe(Asked, sup')
      BY <2>2, CloseIsPut, PipePut DEF Carried
    <3> QED
      BY <1>4, <2>2, <3>1 DEF CopyUp, Carried, Ends, Ended, visitor, client, pump
  <2> QED
    BY <1>4, <2>1, <2>2 DEF CopyUp
<1>5. CASE CopyDown
  <2>1. CASE /\ sdown # <<>> /\ Head(sdown) # Fin
             /\ sdown' = Tail(sdown) /\ down' = Put(down, Head(sdown)) /\ UNCHANGED s2
    <3>1. Pipe(Answered, sdown') /\ (Ended(sdown') => cpc \in {"pump", "done"})
      BY <2>1, PipeTail DEF Carried, Ends
    <3>2. Head(sdown) \in Answered
      BY <2>1, PipeTail DEF Carried
    <3>3. Pipe(Answered, down') /\ (Ended(down') => s2 = "done")
      BY <2>1, <3>2, PipePut, NotFin DEF Carried, Ends
    <3> QED
      BY <1>5, <2>1, <3>1, <3>3 DEF CopyDown, Carried, Ends, Ended, visitor, client, pump
  <2>2. CASE s2' = "done" /\ down' = Close(down) /\ UNCHANGED sdown
    <3>1. Pipe(Answered, down')
      BY <2>2, CloseIsPut, PipePut DEF Carried
    <3> QED
      BY <1>5, <2>2, <3>1 DEF CopyDown, Carried, Ends, Ended, visitor, client, pump
  <2> QED
    BY <1>5, <2>1, <2>2 DEF CopyDown
<1>6. CASE StreamDies
  BY <1>6 DEF StreamDies, Carried, Ends, Ended, visitor, server, client, pump
\* What mygrok's steps do to the stream.
<1>7. ASSUME UNCHANGED <<vis, up, down, s1, s2>>,
             Pipe(Asked, sup'), Ended(sup') => Ended(sup),
             Pipe(Answered, sdown'), Ended(sdown') => cpc' \in {"pump", "done"},
             p2' # "idle" => cpc' \in {"pump", "done"}
      PROVE  Carried' /\ Ends'
  BY <1>7 DEF Carried, Ends, Ended
<1>8. Pipe(Answered, sdown) /\ Pipe(Answered, Close(sdown))
      /\ Pipe(Asked, sup) /\ (cpc \notin {"pump", "done"} => ~Ended(sdown) /\ p2 = "idle")
  BY CloseIsPut, PipePut DEF Carried, Ends
<1>9. CASE ReadRequest
  <2>1. CASE /\ sup # <<>> /\ Head(sup) # Fin
             /\ sup' = Tail(sup) /\ cpc' = "forward" /\ UNCHANGED sdown
    <3>1. Pipe(Asked, sup') /\ (Ended(sup') => Ended(sup))
      BY <1>8, <2>1, PipeTail
    <3> QED
      BY <1>7, <1>8, <1>9, <2>1, <3>1 DEF ReadRequest, visitor, server, pump
  <2>2. CASE CloseStream /\ UNCHANGED sup
    BY <1>7, <1>8, <1>9, <2>2 DEF ReadRequest, CloseStream, visitor, server, pump
  <2> QED
    BY <1>9, <2>1, <2>2 DEF ReadRequest
<1>10. CASE Refuse
  <2>1. Message("framed", cur.of) \in Answered
    BY Answers2, NotFin DEF States
  <2>2. Pipe(Answered, sdown')
    BY <1>8, <1>10, <2>1, CloseIsPut, PipePut DEF Refuse
  <2> QED
    BY <1>7, <1>8, <1>10, <2>2 DEF Refuse, visitor, server, pump
<1>11. CASE Forward
  BY <1>7, <1>8, <1>11 DEF Forward, visitor, server, pump
<1>12. CASE Fail
  BY <1>7, <1>8, <1>12 DEF Fail, CloseStream, visitor, server, pump
<1>13. ASSUME NEW k \in Answers, Respond(k) PROVE Carried' /\ Ends'
  <2>1. Message(k, cur.of) \in Answered
    BY Answers2, NotFin DEF States
  <2>2. CASE sdown' = Put(sdown, Message(k, cur.of)) /\ cpc' = "read"
    <3>1. Pipe(Answered, sdown') /\ ~Ended(sdown')
      BY <1>8, <1>13, <2>1, <2>2, PipePut, NotFin DEF Respond
    <3> QED
      BY <1>7, <1>8, <1>13, <2>2, <3>1 DEF Respond, visitor, server, pump
  <2>3. CASE CloseStream
    BY <1>7, <1>8, <1>13, <2>3 DEF Respond, CloseStream, visitor, server, pump
  <2> QED
    BY <1>13, <2>2, <2>3 DEF Respond
<1>14. CASE Switch
  <2>1. Message("switch", cur.of) \in Answered
    BY Answers2, NotFin DEF States
  <2>2. Pipe(Answered, sdown')
    BY <1>8, <1>14, <2>1, PipePut DEF Switch
  <2> QED
    BY <1>7, <1>8, <1>14, <2>2 DEF Switch, visitor, server
<1>15. CASE PumpUp \/ LocalCloses
  BY <1>7, <1>8, <1>15 DEF PumpUp, LocalCloses, Ends, visitor, server
<1>16. CASE PumpDown
  <2>1. cpc \in {"pump", "done"}
    BY <1>16 DEF PumpDown, Ends
  <2> QED
    BY <1>7, <1>8, <1>16, <2>1 DEF PumpDown, visitor, server
<1>17. CASE PumpEnds
  BY <1>7, <1>8, <1>17 DEF PumpEnds, CloseStream, visitor, server, pump
<1> QED
  BY <1>1, <1>2, <1>3, <1>4, <1>5, <1>6, <1>9, <1>10, <1>11, <1>12, <1>13, <1>14, <1>15,
     <1>16, <1>17, SSteps

LEMMA SInvariant == Spec => []SInv
<1>1. SInv /\ [Next]_vars => SInv'
  <2> SUFFICES ASSUME SInv, [Next]_vars PROVE SInv'
    OBVIOUS
  <2>1. CASE Next
    BY <2>1, FlagsStep, StatesStep, PipesStep DEF SInv
  <2>2. CASE UNCHANGED vars
    <3>1. Flags'
      BY <2>2 DEF SInv, Flags, vars, visitor
    <3> QED
      BY <2>2, <3>1 DEF vars, visitor, server, client, pump, SInv, States, Carried, Ends, Ended
  <2> QED
    BY <2>1, <2>2
<1> QED
  BY <1>1, SInit, PTL DEF Spec

\* StreamTypeOK, for any number of requests: a pipe that has been closed is not
\* written to again, by whichever goroutine.
THEOREM StreamTypes == Spec => []StreamTypeOK
<1>1. SInv => StreamTypeOK
  <2> SUFFICES ASSUME SInv PROVE StreamTypeOK
    OBVIOUS
  <2>1. veof \in BOOLEAN /\ alive \in BOOLEAN
    BY DEF SInv, Flags
  <2>2. \A pipe \in {up, down, sup, sdown} : \A i \in DOMAIN pipe : pipe[i] = Fin => i = Len(pipe)
    BY DEF SInv, Carried, Pipe
  <2>3. cur.kind \in Kinds /\ cur.of \in 1..MaxReq
    BY NotFin DEF SInv, States
  <2> QED
    BY <2>1, <2>2, <2>3 DEF SInv, States, StreamTypeOK
<1> QED
  BY <1>1, SInvariant, PTL

-----------------------------------------------------------------------------
(* The order of requests and answers                                       *)

\* The messages of a pipe are numbered on from n.
From(pipe, n) == \A i \in DOMAIN pipe : pipe[i] # Fin => pipe[i].of = n + i

LEMMA FromPut ==
  ASSUME NEW S, NEW pipe, Pipe(S, pipe), NEW m \in S \cup {Fin}, NEW n \in Nat,
         From(pipe, n), ~Ended(pipe) /\ m # Fin => m.of = n + Len(pipe) + 1
  PROVE  From(Put(pipe, m), n)
<1>1. CASE Ended(pipe)
  BY <1>1, PipePut
<1>2. CASE ~Ended(pipe)
  <2> DEFINE a == Put(pipe, m)
  <2>1. /\ DOMAIN a = 1..Len(pipe) + 1 /\ a[Len(pipe) + 1] = m
        /\ \A i \in 1..Len(pipe) : a[i] = pipe[i]
    BY <1>2, PipePut
  <2>2. Len(pipe) \in Nat /\ DOMAIN pipe = 1..Len(pipe)
    BY DEF Pipe
  <2> HIDE DEF a
  <2>3. From(a, n)
    <3> SUFFICES ASSUME NEW i \in 1..Len(pipe) + 1, a[i] # Fin PROVE a[i].of = n + i
      BY <2>1 DEF From
    <3>1. CASE i \in 1..Len(pipe)
      BY <2>1, <2>2, <3>1 DEF From
    <3>2. CASE i = Len(pipe) + 1
      BY <1>2, <2>1, <2>2, <3>2
    <3> QED
      BY <2>2, <3>1, <3>2
  <2> QED
    BY <2>3 DEF a
<1> QED
  BY <1>1, <1>2

LEMMA FromTail ==
  ASSUME NEW S, NEW pipe, Pipe(S, pipe), pipe # <<>>, NEW n \in Nat, From(pipe, n)
  PROVE  /\ From(Tail(pipe), n + 1)
         /\ Head(pipe) # Fin => Head(pipe).of = n + 1
<1> DEFINE a == Tail(pipe)
<1>1. /\ Head(pipe) = pipe[1] /\ Len(pipe) \in Nat \ {0}
      /\ DOMAIN pipe = 1..Len(pipe) /\ DOMAIN a = 1..Len(pipe) - 1
      /\ \A i \in 1..Len(pipe) - 1 : a[i] = pipe[i + 1]
  BY PipeTail
<1> HIDE DEF a
<1>2. From(a, n + 1)
  <2> SUFFICES ASSUME NEW i \in 1..Len(pipe) - 1, a[i] # Fin PROVE a[i].of = n + 1 + i
    BY <1>1 DEF From
  <2>1. i + 1 \in DOMAIN pipe /\ a[i] = pipe[i + 1]
    BY <1>1
  <2>2. pipe[i + 1].of = n + (i + 1)
    BY <2>1 DEF From
  <2> QED
    BY <2>1, <2>2
<1>3. Head(pipe) # Fin => Head(pipe).of = n + 1
  <2>1. 1 \in DOMAIN pipe
    BY <1>1
  <2> QED
    BY <1>1, <2>1 DEF From
<1> QED
  BY <1>2, <1>3 DEF a

\* The answers given, while the stream is served and none has got lost, and the
\* requests taken.
Before == Len(got) + Len(down) + Len(sdown)
Serving == cpc \in {"read", "forward", "await"}
Taken == IF cpc = "read" THEN Before ELSE Before + 1

AtEnd == veof => down = <<>> /\ s2 = "done"
ReadsNext == reading # 0 /\ ~veof => reading = Len(got) + 1
DownInOrder == reading = 0 => From(down, Len(got))
StreamInOrder == reading = 0 /\ s2 = "copy" => From(sdown, Len(got) + Len(down))
AskedInOrder ==
  reading = 0 /\ s2 = "copy" /\ Serving =>
    /\ cpc # "read" => cur.of = Taken
    /\ From(sup, Taken)
    /\ s1 = "copy" => /\ From(up, Taken + Len(sup))
                      /\ vis = "open" => sent = Taken + Len(sup) + Len(up)

InOrder ==
  OwnAnswers /\ AtEnd /\ ReadsNext /\ DownInOrder /\ StreamInOrder /\ AskedInOrder

LEMMA Lengths ==
  ASSUME States, Carried
  PROVE  /\ Len(got) \in Nat /\ Len(up) \in Nat /\ Len(down) \in Nat
         /\ Len(sup) \in Nat /\ Len(sdown) \in Nat
         /\ Before \in Nat /\ Taken \in Nat
<1>1. /\ Len(got) \in Nat /\ Len(up) \in Nat /\ Len(down) \in Nat
      /\ Len(sup) \in Nat /\ Len(sdown) \in Nat
  BY DEF States, Carried, Pipe
<1> QED
  BY <1>1 DEF Before, Taken

\* A step of mygrok's: the visitor and the server are left alone.
LEMMA ClientKeeps ==
  ASSUME InOrder, UNCHANGED <<visitor, up, down, s1, s2>>, StreamInOrder', AskedInOrder'
  PROVE  InOrder'
BY DEF InOrder, OwnAnswers, AtEnd, ReadsNext, DownInOrder, From, visitor

\* ... that ends the service: what is behind the answers does not matter.
LEMMA EndKeeps ==
  ASSUME States, Carried, InOrder, UNCHANGED <<visitor, up, down, s1, s2>>,
         sdown' \in {sdown, Close(sdown)}, cpc' \in {"pump", "done"}
  PROVE  InOrder'
<1>1. StreamInOrder'
  <2>1. CASE sdown' = sdown
    BY <2>1 DEF InOrder, StreamInOrder, From, visitor
  <2>2. CASE sdown' = Close(sdown)
    <3>1. Len(got) + Len(down) \in Nat
      BY Lengths
    <3>2. reading = 0 /\ s2 = "copy" => From(sdown', Len(got) + Len(down))
      BY <2>2, <3>1, FromPut, CloseIsPut DEF Carried, InOrder, StreamInOrder
    <3> QED
      BY <3>2 DEF StreamInOrder, visitor
  <2> QED
    BY <2>1, <2>2
<1>2. AskedInOrder'
  BY DEF AskedInOrder, Serving
<1> QED
  BY <1>1, <1>2, ClientKeeps

\* An answer is written to the stream.
LEMMA AnswerInOrder ==
  ASSUME SInv, InOrder, Serving, cpc # "read", NEW m \in Answered, m.of = cur.of
  PROVE  /\ ~Ended(sdown) /\ Len(Put(sdown, m)) = Len(sdown) + 1
         /\ reading = 0 /\ s2 = "copy" => From(Put(sdown, m), Len(got) + Len(down))
<1>1. ~Ended(sdown) /\ Pipe(Answered, sdown)
  BY DEF SInv, Ends, Serving, Carried
<1>2. Len(Put(sdown, m)) = Len(sdown) + 1
  BY <1>1, PipePut
<1>3. ASSUME reading = 0, s2 = "copy" PROVE From(Put(sdown, m), Len(got) + Len(down))
  <2>1. Len(got) + Len(down) \in Nat /\ Len(got) \in Nat /\ Len(down) \in Nat /\ Len(sdown) \in Nat
    BY Lengths DEF SInv
  <2>2. m.of = Len(got) + Len(down) + Len(sdown) + 1
    BY <1>3, <2>1 DEF InOrder, AskedInOrder, Taken, Before
  <2>3. From(sdown, Len(got) + Len(down))
    BY <1>3 DEF InOrder, StreamInOrder
  <2> QED
    BY <1>1, <2>1, <2>2, <2>3, FromPut
<1> QED
  BY <1>1, <1>2, <1>3

LEMMA OrderStep ==
  ASSUME "interim" \notin Answers, SInv, InOrder, Next
  PROVE  InOrder'
<1>0. /\ States /\ Carried /\ Ends
      /\ Len(got) \in Nat /\ Len(up) \in Nat /\ Len(down) \in Nat
      /\ Len(sup) \in Nat /\ Len(sdown) \in Nat
      /\ Before \in Nat /\ Taken \in Nat /\ Len(got) + Len(down) \in Nat
      /\ Taken + Len(sup) \in Nat
  <2>1. States /\ Carried /\ Ends
    BY DEF SInv
  <2>2. /\ Len(got) \in Nat /\ Len(up) \in Nat /\ Len(down) \in Nat
        /\ Len(sup) \in Nat /\ Len(sdown) \in Nat /\ Before \in Nat /\ Taken \in Nat
    BY <2>1, Lengths
  <2> QED
    BY <2>1, <2>2
\* The visitor
<1>1. ASSUME NEW k \in Kinds, Send(k) PROVE InOrder'
  <2>1. /\ UNCHANGED <<vis, reading, got, veof, down, sup, sdown, s1, s2, cpc, cur>>
        /\ vis = "open" /\ sent' = sent + 1 /\ up' = Put(up, Message(k, sent + 1))
    BY <1>1 DEF Send, server, client
  <2>2. Message(k, sent + 1) \in Asked /\ Message(k, sent + 1).of = sent + 1
    BY <1>0, <1>1, Kinds2, AnswersAssumption DEF Send, States, Message
  <2>3. Pipe(Asked, up) /\ ~Ended(up)
    BY <1>0, <2>1 DEF Carried, Ends
  <2>4. Len(up') = Len(up) + 1
    BY <2>1, <2>2, <2>3, PipePut
  <2>5. ASSUME reading = 0, s2 = "copy", Serving, s1 = "copy"
        PROVE  From(up', Taken + Len(sup)) /\ sent' = Taken + Len(sup) + Len(up')
    <3>1. From(up, Taken + Len(sup)) /\ sent = Taken + Len(sup) + Len(up)
      BY <2>1, <2>5 DEF InOrder, AskedInOrder
    <3>2. Message(k, sent + 1).of = Taken + Len(sup) + Len(up) + 1
      BY <2>2, <3>1
    <3>3. From(up', Taken + Len(sup))
      BY <1>0, <2>1, <2>2, <2>3, <3>1, <3>2, FromPut
    <3> QED
      BY <1>0, <2>1, <2>4, <3>1, <3>3
  <2>6. Taken' = Taken /\ Serving' = Serving
    BY <2>1 DEF Taken, Before, Serving
  <2>7. AskedInOrder'
    BY <2>1, <2>5, <2>6 DEF InOrder, AskedInOrder, From
  <2> QED
    BY <2>1, <2>7 DEF InOrder, OwnAnswers, AtEnd, ReadsNext, DownInOrder, StreamInOrder, From
<1>2. CASE FinishSending \/ Leave
  <2>1. /\ UNCHANGED <<sent, reading, got, veof, down, sup, sdown, s1, s2, cpc, cur>>
        /\ vis' # "open" /\ up' = Put(up, Fin)
    BY <1>2, CloseIsPut DEF FinishSending, Leave, server, client
  <2>2. Taken' = Taken /\ Serving' = Serving
    BY <2>1 DEF Taken, Before, Serving
  <2>3. From(up, Taken + Len(sup)) => From(up', Taken + Len(sup))
    BY <1>0, <2>1, FromPut DEF Carried
  <2>4. AskedInOrder'
    BY <2>1, <2>2, <2>3 DEF InOrder, AskedInOrder, From
  <2> QED
    BY <2>1, <2>4 DEF InOrder, OwnAnswers, AtEnd, ReadsNext, DownInOrder, StreamInOrder, From
<1>3. CASE Receive
  <2> DEFINE m == Head(down)
  <2>1. /\ down # <<>> /\ down' = Tail(down) /\ veof' = (m = Fin)
        /\ reading' = IF m.kind = "unframed" /\ reading = 0 THEN m.of ELSE reading
        /\ got' = IF m = Fin /\ reading # 0 THEN Append(got, reading)
                  ELSE IF m.kind \in {"framed", "switch"} /\ reading = 0
                  THEN Append(got, m.of) ELSE got
        /\ UNCHANGED <<vis, sent, up, sup, sdown, s1, s2, cpc, cur>>
    BY <1>3 DEF Receive, server, client
  <2>2. /\ m \in Answered \cup {Fin} /\ Len(down') = Len(down) - 1
        /\ m = Fin => down' = <<>> /\ s2 = "done"
    BY <1>0, <2>1, PipeTail DEF Carried, Ends
  <2>3. ~veof
    BY <2>1 DEF InOrder, AtEnd
  <2>4. reading = 0 => From(down', Len(got) + 1) /\ (m # Fin => m.of = Len(got) + 1)
    BY <1>0, <2>1, FromTail DEF Carried, InOrder, DownInOrder
  <2>5. reading # 0 => reading = Len(got) + 1
    BY <2>3 DEF InOrder, ReadsNext
  <2>6. m # Fin => m.kind \in {"framed", "switch", "unframed"} /\ m.of \in Nat \ {0}
    <3>1. Answers \cup {"framed", "switch"} \subseteq {"framed", "switch", "unframed"}
      BY AnswersAssumption
    <3>2. MaxReq \in Nat \ {0}
      BY AnswersAssumption
    <3>3. m # Fin => m \in Answered
      BY <2>2
    <3> HIDE DEF m
    <3>4. m \in Answered => m.kind \in Answers \cup {"framed", "switch"} /\ m.of \in 1..MaxReq
      BY NotFin
    <3> QED
      BY <3>1, <3>2, <3>3, <3>4
  <2>7. Fin.kind \notin {"framed", "switch", "unframed"}
    BY NotFin
  <2>8. /\ got \in Seq(1..MaxReq) /\ reading \in Nat
        /\ \A n : /\ Len(Append(got, n)) = Len(got) + 1
                  /\ DOMAIN Append(got, n) = 1..Len(got) + 1
                  /\ Append(got, n)[Len(got) + 1] = n
                  /\ \A i \in 1..Len(got) : Append(got, n)[i] = got[i]
    BY <1>0 DEF States
  <2>9. DOMAIN got = 1..Len(got) /\ \A i \in 1..Len(got) : got[i] = i
    BY <2>8 DEF InOrder, OwnAnswers
  <2>10. ASSUME NEW g, g = Append(got, Len(got) + 1)
         PROVE  Len(g) = Len(got) + 1 /\ \A i \in DOMAIN g : g[i] = i
    BY <1>0, <2>8, <2>9, <2>10
  <2> HIDE DEF m
  <2>11. CASE m = Fin /\ reading # 0
    <3>1. got' = Append(got, Len(got) + 1) /\ reading' = reading /\ veof' = TRUE
      BY <2>1, <2>5, <2>7, <2>11
    <3>2. OwnAnswers'
      BY <2>10, <3>1 DEF OwnAnswers
    <3>3. down' = <<>> /\ s2' = "done"
      BY <2>1, <2>2, <2>11
    <3> QED
      BY <2>11, <3>1, <3>2, <3>3
         DEF InOrder, AtEnd, ReadsNext, DownInOrder, StreamInOrder, AskedInOrder
  <2>12. CASE m = Fin /\ reading = 0
    <3>1. got' = got /\ reading' = 0 /\ veof' = TRUE
      BY <2>1, <2>7, <2>12
    <3>2. down' = <<>> /\ s2' = "done"
      BY <2>1, <2>2, <2>12
    <3>3. DownInOrder'
      BY <3>2 DEF DownInOrder, From
    <3> QED
      BY <3>1, <3>2, <3>3
         DEF InOrder, OwnAnswers, AtEnd, ReadsNext, StreamInOrder, AskedInOrder
  <2>13. CASE m # Fin /\ reading # 0
    <3>1. got' = got /\ reading' = reading /\ veof' = FALSE
      BY <2>1, <2>13
    <3> QED
      BY <2>1, <2>5, <2>13, <3>1
         DEF InOrder, OwnAnswers, AtEnd, ReadsNext, DownInOrder, StreamInOrder, AskedInOrder
  <2>14. CASE m # Fin /\ reading = 0 /\ m.kind = "unframed"
    <3>1. got' = got /\ reading' = Len(got) + 1 /\ veof' = FALSE
      BY <2>1, <2>4, <2>14
    <3>2. reading' # 0
      BY <1>0, <3>1
    <3> QED
      BY <3>1, <3>2
         DEF InOrder, OwnAnswers, AtEnd, ReadsNext, DownInOrder, StreamInOrder, AskedInOrder
  <2>15. CASE m # Fin /\ reading = 0 /\ m.kind \in {"framed", "switch"}
    <3>1. got' = Append(got, Len(got) + 1) /\ reading' = 0 /\ veof' = FALSE
      BY <2>1, <2>4, <2>15
    <3>2. OwnAnswers' /\ Len(got') = Len(got) + 1
      BY <2>10, <3>1 DEF OwnAnswers
    <3>3. DownInOrder'
      BY <2>4, <2>15, <3>2 DEF DownInOrder
    <3>4. Len(got') + Len(down') = Len(got) + Len(down)
      BY <1>0, <2>2, <3>2
    <3>5. StreamInOrder'
      BY <2>1, <2>15, <3>4 DEF InOrder, StreamInOrder, From
    <3>6. Taken' = Taken /\ Serving' = Serving
      BY <2>1, <3>4 DEF Taken, Before, Serving
    <3>7. AskedInOrder'
      BY <2>1, <2>15, <3>6 DEF InOrder, AskedInOrder, From
    <3> QED
      BY <3>1, <3>2, <3>3, <3>5, <3>7 DEF InOrder, AtEnd, ReadsNext
  <2> QED
    BY <2>6, <2>11, <2>12, <2>13, <2>14, <2>15
\* mygrokd
<1>4. CASE CopyUp
  <2>1. UNCHANGED <<vis, sent, reading, got, veof, down, sdown, s2, cpc, cur>>
    BY <1>4 DEF CopyUp, visitor, client
  <2>2. Taken' = Taken /\ Serving' = Serving
    BY <2>1 DEF Taken, Before, Serving
  <2>3. CASE /\ s1 = "copy" /\ up # <<>> /\ Head(up) # Fin
             /\ up' = Tail(up) /\ sup' = Put(sup, Head(up)) /\ UNCHANGED s1
    <3>1. /\ Pipe(Asked, sup) /\ ~Ended(sup) /\ Pipe(Asked, up)
          /\ Head(up) \in Asked /\ Len(up) \in Nat \ {0} /\ Len(up') = Len(up) - 1
      BY <1>0, <2>3, PipeTail DEF Carried, Ends
    <3>2. Len(sup') = Len(sup) + 1
      BY <2>3, <3>1, PipePut
    <3>3. ASSUME reading = 0, s2 = "copy", Serving
          PROVE  /\ From(sup', Taken) /\ From(up', Taken + Len(sup'))
                 /\ vis = "open" => sent = Taken + Len(sup') + Len(up')
      <4>1. /\ From(sup, Taken) /\ From(up, Taken + Len(sup))
            /\ vis = "open" => sent = Taken + Len(sup) + Len(up)
        BY <2>3, <3>3 DEF InOrder, AskedInOrder
      <4>2. From(up', (Taken + Len(sup)) + 1) /\ Head(up).of = (Taken + Len(sup)) + 1
        BY <1>0, <2>3, <3>1, <4>1, FromTail
      <4>3. From(sup', Taken)
        BY <1>0, <2>3, <3>1, <4>1, <4>2, FromPut
      <4>4. Taken + Len(sup') = (Taken + Len(sup)) + 1
        BY <1>0, <3>2
      <4>5. vis = "open" => sent = Taken + Len(sup') + Len(up')
        BY <1>0, <3>1, <3>2, <4>1
      <4> QED
        BY <4>2, <4>3, <4>4, <4>5
    <3>4. AskedInOrder'
      BY <2>1, <2>2, <3>3 DEF InOrder, AskedInOrder
    <3> QED
      BY <2>1, <3>4 DEF InOrder, OwnAnswers, AtEnd, ReadsNext, DownInOrder, StreamInOrder, From
  <2>4. CASE s1' = "done" /\ sup' = Close(sup) /\ UNCHANGED up
    <3>1. From(sup, Taken) => From(sup', Taken)
      BY <1>0, <2>4, CloseIsPut, FromPut DEF Carried
    <3>2. AskedInOrder'
      BY <2>1, <2>2, <2>4, <3>1 DEF InOrder, AskedInOrder
    <3> QED
      BY <2>1, <3>2 DEF InOrder, OwnAnswers, AtEnd, ReadsNext, DownInOrder, StreamInOrder, From
  <2> QED
    BY <1>4, <2>3, <2>4 DEF CopyUp
<1>5. CASE CopyDown
  <2>1. UNCHANGED <<vis, sent, reading, got, veof, up, sup, s1, cpc, cur>> /\ s2 = "copy"
    BY <1>5 DEF CopyDown, visitor, client
  <2>2. CASE /\ sdown # <<>> /\ Head(sdown) # Fin
             /\ sdown' = Tail(sdown) /\ down' = Put(down, Head(sdown)) /\ UNCHANGED s2
    <3>1. /\ Pipe(Answered, down) /\ ~Ended(down) /\ Pipe(Answered, sdown)
          /\ Head(sdown) \in Answered /\ Len(sdown) \in Nat \ {0}
          /\ Len(sdown') = Len(sdown) - 1
      BY <1>0, <2>1, <2>2, PipeTail DEF Carried, Ends
    <3>2. Len(down') = Len(down) + 1
      BY <2>2, <3>1, PipePut
    <3>3. ASSUME reading = 0
          PROVE  From(down', Len(got)) /\ From(sdown', Len(got) + Len(down'))
      <4>1. From(down, Len(got)) /\ From(sdown, Len(got) + Len(down))
        BY <2>1, <3>3 DEF InOrder, DownInOrder, StreamInOrder
      <4>2. /\ From(sdown', (Len(got) + Len(down)) + 1)
            /\ Head(sdown).of = (Len(got) + Len(down)) + 1
        BY <1>0, <2>2, <3>1, <4>1, FromTail
      <4>3. From(down', Len(got))
        BY <1>0, <2>2, <3>1, <4>1, <4>2, FromPut
      <4>4. Len(got) + Len(down') = (Len(got) + Len(down)) + 1
        BY <1>0, <3>2
      <4> QED
        BY <4>2, <4>3, <4>4
    <3>4. Before' = Before
      BY <1>0, <2>1, <3>1, <3>2 DEF Before
    <3>5. Taken' = Taken /\ Serving' = Serving
      BY <2>1, <3>4 DEF Taken, Serving
    <3>6. AskedInOrder'
      BY <2>1, <2>2, <3>5 DEF InOrder, AskedInOrder, From
    <3>7. DownInOrder' /\ StreamInOrder'
      BY <2>1, <3>3 DEF DownInOrder, StreamInOrder
    <3>8. AtEnd'
      BY <2>1 DEF InOrder, AtEnd
    <3> QED
      BY <2>1, <3>6, <3>7, <3>8 DEF InOrder, OwnAnswers, ReadsNext
  <2>3. CASE s2' = "done" /\ down' = Close(down) /\ UNCHANGED sdown
    <3>1. From(down, Len(got)) => From(down', Len(got))
      BY <1>0, <2>3, CloseIsPut, FromPut DEF Carried
    <3>2. ~veof
      BY <2>1 DEF InOrder, AtEnd
    <3> QED
      BY <2>1, <2>3, <3>1, <3>2
         DEF InOrder, OwnAnswers, AtEnd, ReadsNext, DownInOrder, StreamInOrder, AskedInOrder
  <2> QED
    BY <1>5, <2>2, <2>3 DEF CopyDown
<1>6. CASE StreamDies \/ PumpUp \/ LocalCloses
  BY <1>6 DEF StreamDies, PumpUp, LocalCloses, visitor, server, client, pump, InOrder,
              OwnAnswers, AtEnd, ReadsNext, DownInOrder, StreamInOrder, AskedInOrder, From,
              Before, Taken, Serving
\* mygrok
<1>7. CASE ReadRequest
  <2>1. UNCHANGED <<visitor, up, down, s1, s2>> /\ cpc = "read"
    BY <1>7 DEF ReadRequest, server
  <2>2. CASE /\ sup # <<>> /\ Head(sup) # Fin /\ cur' = Head(sup)
             /\ sup' = Tail(sup) /\ cpc' = "forward" /\ UNCHANGED sdown
    <3>1. StreamInOrder'
      BY <2>1, <2>2 DEF InOrder, StreamInOrder, From, visitor
    <3>2. Serving /\ Taken' = Taken + 1
      BY <2>1, <2>2 DEF Taken, Before, Serving, visitor
    <3>3. Pipe(Asked, sup) /\ Len(sup') = Len(sup) - 1
      BY <1>0, <2>2, PipeTail DEF Carried
    <3>4. ASSUME reading = 0, s2 = "copy"
          PROVE  /\ cur'.of = Taken + 1 /\ From(sup', Taken + 1)
                 /\ s1 = "copy" => /\ From(up, Taken + 1 + Len(sup'))
                                   /\ vis = "open" => sent = Taken + 1 + Len(sup') + Len(up)
      <4>1. From(sup, Taken)
            /\ (s1 = "copy" => /\ From(up, Taken + Len(sup))
                               /\ vis = "open" => sent = Taken + Len(sup) + Len(up))
        BY <3>2, <3>4 DEF InOrder, AskedInOrder
      <4>2. From(sup', Taken + 1) /\ Head(sup).of = Taken + 1
        BY <1>0, <2>2, <3>3, <4>1, FromTail
      <4>3. Taken + 1 + Len(sup') = Taken + Len(sup)
        BY <1>0, <3>3
      <4> QED
        BY <2>2, <4>1, <4>2, <4>3
    <3>5. AskedInOrder'
      BY <2>1, <3>2, <3>4 DEF AskedInOrder, visitor
    <3> QED
      BY <2>1, <3>1, <3>5, ClientKeeps
  <2>3. CASE CloseStream
    BY <1>0, <2>1, <2>3, EndKeeps DEF CloseStream
  <2> QED
    BY <1>7, <2>2, <2>3 DEF ReadRequest
<1>8. CASE Refuse
  <2>1. /\ UNCHANGED <<visitor, up, down, s1, s2>> /\ cpc = "forward" /\ cpc' = "done"
        /\ sdown' = Close(IF alive THEN Put(sdown, Message("framed", cur.of)) ELSE sdown)
    BY <1>8 DEF Refuse, server
  <2> DEFINE m == Message("framed", cur.of)
  <2>2. m \in Answered /\ m.of = cur.of
    BY <1>0, Answers2, NotFin DEF States, Message
  <2> HIDE DEF m
  <2>3. reading = 0 /\ s2 = "copy" => From(Put(sdown, m), Len(got) + Len(down))
    BY <2>1, <2>2, AnswerInOrder DEF Serving
  <2>4. Pipe(Answered, Put(sdown, m)) /\ Pipe(Answered, sdown)
    BY <1>0, <2>2, PipePut DEF Carried
  <2>5. \/ sdown' = Put(sdown, Fin)
        \/ sdown' = Put(Put(sdown, m), Fin)
    BY <2>1, CloseIsPut DEF m
  <2>6. StreamInOrder'
    <3> SUFFICES ASSUME reading = 0, s2 = "copy" PROVE From(sdown', Len(got) + Len(down))
      BY <2>1 DEF StreamInOrder, visitor
    <3>1. From(sdown, Len(got) + Len(down))
      BY DEF InOrder, StreamInOrder
    <3> QED
      BY <1>0, <2>3, <2>4, <2>5, <3>1, FromPut
  <2>7. AskedInOrder'
    BY <2>1 DEF AskedInOrder, Serving
  <2> QED
    BY <2>1, <2>6, <2>7, ClientKeeps
<1>9. CASE Forward
  BY <1>9 DEF Forward, visitor, server, pump, InOrder,
              OwnAnswers, AtEnd, ReadsNext, DownInOrder, StreamInOrder, AskedInOrder, From,
              Before, Taken, Serving
<1>10. CASE Fail
  BY <1>0, <1>10, EndKeeps DEF Fail, CloseStream, server
<1>11. ASSUME NEW k \in Answers, Respond(k) PROVE InOrder'
  <2>1. UNCHANGED <<visitor, up, down, s1, s2, sup, cur>> /\ cpc = "await"
    BY <1>11 DEF Respond, server
  <2> DEFINE m == Message(k, cur.of)
  <2>2. m \in Answered /\ m.of = cur.of
    BY <1>0, Answers2, NotFin DEF States, Message
  <2>3. CASE sdown' = Put(sdown, m) /\ cpc' = "read"
    <3> HIDE DEF m
    <3>1. Serving /\ Len(sdown') = Len(sdown) + 1
      BY <2>1, <2>2, <2>3, AnswerInOrder DEF Serving
    <3>2. StreamInOrder'
      BY <2>1, <2>2, <2>3, AnswerInOrder DEF Serving, StreamInOrder, visitor
    <3>3. Taken' = Taken
      BY <1>0, <2>1, <2>3, <3>1 DEF Taken, Before, visitor
    <3>4. AskedInOrder'
      BY <2>1, <2>3, <3>1, <3>3 DEF InOrder, AskedInOrder, From, visitor
    <3> QED
      BY <2>1, <3>2, <3>4, ClientKeeps
  <2>4. CASE CloseStream
    BY <1>0, <2>1, <2>4, EndKeeps DEF CloseStream
  <2> QED
    BY <1>11, <2>3, <2>4 DEF Respond
<1>12. CASE Switch
  <2>1. /\ UNCHANGED <<visitor, up, down, s1, s2>> /\ cpc = "await" /\ cpc' = "pump"
        /\ sdown' = Put(sdown, Message("switch", cur.of))
    BY <1>12 DEF Switch, server
  <2> DEFINE m == Message("switch", cur.of)
  <2>2. m \in Answered /\ m.of = cur.of
    BY <1>0, Answers2, NotFin DEF States, Message
  <2> HIDE DEF m
  <2>3. StreamInOrder'
    BY <2>1, <2>2, AnswerInOrder DEF Serving, StreamInOrder, visitor, m
  <2>4. AskedInOrder'
    BY <2>1 DEF AskedInOrder, Serving
  <2> QED
    BY <2>1, <2>3, <2>4, ClientKeeps
<1>13. CASE PumpDown
  <2>1. cpc \in {"pump", "done"}
    BY <1>0, <1>13 DEF PumpDown, Ends
  <2> QED
    BY <1>0, <1>13, <2>1, EndKeeps DEF PumpDown, server
<1>14. CASE PumpEnds
  BY <1>0, <1>14, EndKeeps DEF PumpEnds, CloseStream, server
<1> QED
  BY <1>1, <1>2, <1>3, <1>4, <1>5, <1>6, <1>7, <1>8, <1>9, <1>10, <1>11, <1>12, <1>13,
     <1>14, SSteps

\* However many requests follow each other and whatever fails, the n-th answer
\* is the answer to the n-th request, as long as the local server sends no 100
\* or 103 (forwardOne takes the first response for the answer).
THEOREM AnswersAreOwn ==
  ASSUME "interim" \notin Answers
  PROVE  Spec => []OwnAnswers
<1>1. Init => InOrder
  <2> SUFFICES ASSUME Init PROVE InOrder
    OBVIOUS
  <2>1. Len(<<>>) = 0 /\ Before = 0 /\ Taken = 0
    BY DEF Init, Before, Taken
  <2>2. DOMAIN sup = {1} /\ sup[1].of = 1 /\ Len(sup) = 1
    BY DEF Init, Message
  <2>3. AskedInOrder
    BY <2>1, <2>2 DEF Init, AskedInOrder, From
  <2>4. AtEnd
    BY DEF Init, AtEnd
  <2> QED
    BY <2>3, <2>4
       DEF Init, InOrder, OwnAnswers, ReadsNext, DownInOrder, StreamInOrder, From
<1>2. SInv /\ InOrder /\ [Next]_vars => InOrder'
  <2> SUFFICES ASSUME SInv, InOrder, [Next]_vars PROVE InOrder'
    OBVIOUS
  <2>1. CASE Next
    BY <2>1, OrderStep
  <2>2. CASE UNCHANGED vars
    BY <2>2 DEF vars, visitor, server, client, pump, InOrder, OwnAnswers, AtEnd, ReadsNext,
                DownInOrder, StreamInOrder, AskedInOrder, From, Before, Taken, Serving
  <2> QED
    BY <2>1, <2>2
<1>3. InOrder => OwnAnswers
  BY DEF InOrder
<1> QED
  BY <1>1, <1>2, <1>3, SInvariant, PTL DEF Spec
=============================================================================
