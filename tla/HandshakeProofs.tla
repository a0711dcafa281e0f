--------------------------- MODULE HandshakeProofs ---------------------------
(***************************************************************************)
(* Proofs about Handshake, for any numbers of early frames, of faults and   *)
(* of bytes under way.                                                      *)
(***************************************************************************)
EXTENDS Handshake, SequenceTheorems, TLAPS

-----------------------------------------------------------------------------
(* Sequences of what the server writes                                     *)

\* A line is at most once in what is on the wire.
Single(w) == \A i, j \in DOMAIN w : w[i] # "frame" /\ w[j] # "frame" => i = j

LEMMA Appended ==
  ASSUME NEW w \in Seq(Item), NEW x \in Item
  PROVE  /\ Append(w, x) \in Seq(Item)
         /\ HasLine(Append(w, x)) <=> HasLine(w) \/ x # "frame"
         /\ x = "frame" /\ Single(w) => Single(Append(w, x))
         /\ ~HasLine(w) => Single(Append(w, x))
<1> DEFINE a == Append(w, x)
<1>1. /\ a \in Seq(Item) /\ Len(a) = Len(w) + 1 /\ a[Len(w) + 1] = x
      /\ DOMAIN w = 1..Len(w) /\ DOMAIN a = 1..Len(w) + 1
      /\ \A i \in DOMAIN w : a[i] = w[i]
      /\ Len(w) \in Nat
  OBVIOUS
<1> HIDE DEF a
<1>2. HasLine(a) <=> HasLine(w) \/ x # "frame"
  BY <1>1 DEF HasLine
<1>3. x = "frame" /\ Single(w) => Single(a)
  BY <1>1 DEF Single
<1>4. ~HasLine(w) => Single(a)
  BY <1>1 DEF Single, HasLine
<1> QED
  BY <1>1, <1>2, <1>3, <1>4 DEF a

\* What is read from the front and what is left.
LEMMA Front ==
  ASSUME NEW w \in Seq(Item), NEW n \in 0..Len(w)
  PROVE  /\ SubSeq(w, 1, n) \in Seq(Item)
         /\ DOMAIN SubSeq(w, 1, n) = 1..n
         /\ \A i \in 1..n : SubSeq(w, 1, n)[i] = w[i]
         /\ HasLine(SubSeq(w, 1, n)) => HasLine(w)
         /\ Single(w) => Single(SubSeq(w, 1, n))
<1> DEFINE a == SubSeq(w, 1, n)
<1>1. /\ a \in Seq(Item) /\ Len(a) = n /\ DOMAIN a = 1..n /\ DOMAIN w = 1..Len(w)
      /\ \A i \in 1..n : a[i] = w[i] /\ i \in DOMAIN w
  OBVIOUS
<1> HIDE DEF a
<1> QED
  BY <1>1 DEF Single, HasLine, a

LEMMA Rest ==
  ASSUME NEW w \in Seq(Item), NEW n \in 0..Len(w)
  PROVE  /\ SubSeq(w, n + 1, Len(w)) \in Seq(Item)
         /\ HasLine(SubSeq(w, n + 1, Len(w))) =>
              HasLine(w) /\ (Single(w) => ~HasLine(SubSeq(w, 1, n)))
         /\ Single(w) => Single(SubSeq(w, n + 1, Len(w)))
<1> DEFINE a == SubSeq(w, n + 1, Len(w))
<1>1. /\ a \in Seq(Item) /\ DOMAIN a = 1..Len(w) - n /\ DOMAIN w = 1..Len(w)
      /\ Len(w) \in Nat /\ n \in Nat
      /\ \A i \in 1..Len(w) - n : a[i] = w[i + n] /\ i + n \in DOMAIN w
  OBVIOUS
<1> HIDE DEF a
<1>2. HasLine(a) => HasLine(w)
  BY <1>1 DEF HasLine
<1>3. ASSUME Single(w) PROVE Single(a)
  <2> SUFFICES ASSUME NEW i \in 1..Len(w) - n, NEW j \in 1..Len(w) - n,
                      a[i] # "frame", a[j] # "frame"
               PROVE  i = j
    BY <1>1 DEF Single
  <2>1. i + n = j + n
    BY <1>1, <1>3 DEF Single
  <2> QED
    BY <1>1, <2>1
<1>4. ASSUME HasLine(a), Single(w) PROVE ~HasLine(SubSeq(w, 1, n))
  <2>1. PICK i \in 1..Len(w) - n : w[i + n] # "frame"
    BY <1>1, <1>4 DEF HasLine
  <2> DEFINE f == SubSeq(w, 1, n)
  <2>2. DOMAIN f = 1..n /\ \A j \in 1..n : f[j] = w[j]
    BY Front
  <2> HIDE DEF f
  <2>3. ASSUME NEW j \in 1..n PROVE w[j] = "frame"
    <3>1. i + n \in DOMAIN w /\ j \in DOMAIN w /\ i + n # j
      BY <1>1
    <3> QED
      BY <1>4, <2>1, <3>1 DEF Single
  <2> QED
    <3>1. ~HasLine(f)
      BY <2>2, <2>3 DEF HasLine
    <3> QED
      BY <3>1 DEF f
<1> QED
  BY <1>1, <1>2, <1>3, <1>4 DEF a

LEMMA Joined ==
  ASSUME NEW v \in Seq(Item), NEW w \in Seq(Item)
  PROVE  /\ v \o w \in Seq(Item)
         /\ HasLine(v \o w) <=> HasLine(v) \/ HasLine(w)
<1> DEFINE a == v \o w
<1>1. /\ a \in Seq(Item)
      /\ DOMAIN a = 1..Len(v) + Len(w) /\ DOMAIN v = 1..Len(v) /\ DOMAIN w = 1..Len(w)
      /\ Len(v) \in Nat /\ Len(w) \in Nat
      /\ \A i \in 1..Len(v) : a[i] = v[i]
      /\ \A i \in 1..Len(w) : a[i + Len(v)] = w[i]
      /\ \A i \in Len(v) + 1..Len(v) + Len(w) : a[i] = w[i - Len(v)]
  OBVIOUS
<1> HIDE DEF a
<1>2. HasLine(a) => HasLine(v) \/ HasLine(w)
  <2> SUFFICES ASSUME NEW i \in 1..Len(v) + Len(w), a[i] # "frame"
               PROVE  HasLine(v) \/ HasLine(w)
    BY <1>1 DEF HasLine
  <2>1. CASE i \in 1..Len(v)
    BY <1>1, <2>1 DEF HasLine
  <2>2. CASE i > Len(v)
    <3>1. i - Len(v) \in 1..Len(w) /\ a[i] = w[i - Len(v)]
      BY <1>1, <2>2
    <3> QED
      BY <1>1, <3>1 DEF HasLine
  <2> QED
    BY <1>1, <2>1, <2>2
<1>3. HasLine(v) => HasLine(a)
  BY <1>1 DEF HasLine
<1>4. HasLine(w) => HasLine(a)
  <2> SUFFICES ASSUME NEW i \in 1..Len(w), w[i] # "frame" PROVE HasLine(a)
    BY <1>1 DEF HasLine
  <2>1. i + Len(v) \in DOMAIN a /\ a[i + Len(v)] = w[i]
    BY <1>1
  <2> QED
    BY <2>1 DEF HasLine
<1> QED
  BY <1>1, <1>2, <1>3, <1>4 DEF a

LEMMA Tailed ==
  ASSUME NEW w \in Seq(Item), w # <<>>
  PROVE  /\ Tail(w) \in Seq(Item)
         /\ HasLine(Tail(w)) => HasLine(w)
         /\ Single(w) => Single(Tail(w))
         /\ Len(w) = 1 => Tail(w) = <<>>
<1> DEFINE a == Tail(w)
<1>1. /\ a \in Seq(Item) /\ DOMAIN a = 1..Len(w) - 1 /\ DOMAIN w = 1..Len(w)
      /\ Len(w) \in Nat
      /\ \A i \in 1..Len(w) - 1 : a[i] = w[i + 1] /\ i + 1 \in DOMAIN w
  OBVIOUS
<1>2. Len(w) = 1 => a = <<>>
  BY <1>1, EmptySeq
<1> HIDE DEF a
<1>3. HasLine(a) => HasLine(w)
  BY <1>1 DEF HasLine
<1>4. ASSUME Single(w) PROVE Single(a)
  <2> SUFFICES ASSUME NEW i \in 1..Len(w) - 1, NEW j \in 1..Len(w) - 1,
                      a[i] # "frame", a[j] # "frame"
               PROVE  i = j
    BY <1>1 DEF Single
  <2>1. i + 1 = j + 1
    BY <1>1, <1>4 DEF Single
  <2> QED
    BY <1>1, <2>1
<1> QED
  BY <1>1, <1>2, <1>3, <1>4 DEF a

LEMMA Nothing == <<>> \in Seq(Item) /\ ~HasLine(<<>>) /\ Single(<<>>)
BY DEF HasLine, Single

-----------------------------------------------------------------------------
(* Invariants                                                              *)

\* One line is written on a connection, by the handler's last step before it
\* serves or ends, and it is in one place.
OneLine ==
  /\ Single(wire)
  /\ HasLine(buf) => ~HasLine(wire)
  /\ spc \in {"hello", "session", "claimed"} => ~HasLine(buf) /\ ~HasLine(wire)

\* The client runs yamux on a connection whose line has been taken off it.
Switched ==
  cpc = "up" => buf = <<>> /\ ~HasLine(wire) /\ spc \in {"serving", "none"}

HInv == TypeOK /\ OneLine /\ Switched

LEMMA Disconnected ==
  ASSUME NEW long \in BOOLEAN, NEW taken \in BOOLEAN, Disconnect(long, taken),
         attempt \in 1..MaxAttempt
  PROVE  cpc' = "backoff" /\ attempt' \in 2..MaxAttempt /\ delay' \in 1..Ceiling
BY DEF Disconnect, Delay, MaxAttempt, Ceiling

LEMMA HStep == HInv /\ Next => HInv'
<1> SUFFICES ASSUME TypeOK, OneLine, Switched, Next PROVE HInv'
  BY DEF HInv
<1>0. /\ MaxEarly \in Nat /\ MaxTrouble \in Nat
      /\ cpc \in {"backoff", "read", "up"}
      /\ spc \in {"none", "hello", "session", "claimed", "serving"}
      /\ wire \in Seq(Item) /\ buf \in Seq(Item)
      /\ attempt \in 1..MaxAttempt /\ delay \in 0..Ceiling
      /\ delay = 0 <=> cpc # "backoff" \/ attempt = 1
      /\ early \in 0..MaxEarly /\ trouble \in 0..MaxTrouble
  BY BoundsAssumption DEF TypeOK
\* Steps that leave the wire, the buffer and the handler alone.
<1>1. ASSUME UNCHANGED <<wire, buf, early, trouble>>, cpc' = "backoff",
             attempt' \in 2..MaxAttempt, delay' \in 1..Ceiling, UNCHANGED spc
      PROVE  HInv'
  BY <1>0, <1>1 DEF HInv, TypeOK, OneLine, Switched
<1>2. CASE Dial
  BY <1>0, <1>2, Nothing DEF Dial, Ceiling, HInv, TypeOK, OneLine, Switched
<1>3. ASSUME NEW n \in 1..WireCap + 1, Fill(n) PROVE HInv'
  <2>1. /\ n \in 0..Len(wire) /\ ~HasLine(buf) /\ cpc = "read"
        /\ buf' = buf \o SubSeq(wire, 1, n)
        /\ wire' = SubSeq(wire, n + 1, Len(wire))
        /\ UNCHANGED <<cpc, spc, attempt, delay, early, trouble>>
    BY <1>0, <1>3 DEF Fill
  <2>2. buf' \in Seq(Item) /\ (HasLine(buf') <=> HasLine(SubSeq(wire, 1, n)))
    BY <1>0, <2>1, Front, Joined
  <2>3. /\ wire' \in Seq(Item) /\ Single(wire')
        /\ HasLine(wire') => HasLine(wire) /\ ~HasLine(SubSeq(wire, 1, n))
    BY <1>0, <2>1, Rest DEF OneLine
  <2>4. HasLine(SubSeq(wire, 1, n)) => HasLine(wire)
    BY <1>0, <2>1, Front
  <2>5. TypeOK'
    BY <1>0, <2>1, <2>2, <2>3 DEF TypeOK
  <2>6. OneLine'
    BY <2>1, <2>2, <2>3, <2>4 DEF OneLine, HasLine, Single
  <2>7. Switched'
    BY <2>1 DEF Switched
  <2> QED
    BY <2>5, <2>6, <2>7 DEF HInv
<1>4. CASE SwitchToYamux
  <2>1. /\ cpc = "read" /\ buf # <<>> /\ Head(buf) = "ok" /\ Len(buf) = 1
        /\ cpc' = "up" /\ buf' = Tail(buf)
        /\ UNCHANGED <<spc, wire, attempt, delay, early, trouble>>
    BY <1>4 DEF SwitchToYamux
  <2>2. HasLine(buf)
    BY <1>0, <2>1 DEF HasLine
  <2>3. ~HasLine(wire) /\ spc \in {"serving", "none"}
    BY <1>0, <2>2 DEF OneLine
  <2>4. buf' = <<>>
    BY <1>0, <2>1, Tailed
  <2> QED
    BY <1>0, <2>1, <2>3, <2>4, Nothing DEF HInv, TypeOK, OneLine, Switched
<1>5. CASE RejectAnswer
  BY <1>0, <1>1, <1>5, Disconnected DEF RejectAnswer
<1>6. CASE YamuxRead
  <2>1. /\ wire # <<>> /\ wire' = Tail(wire)
        /\ UNCHANGED <<cpc, spc, buf, attempt, delay, early, trouble>>
    BY <1>6 DEF YamuxRead
  <2>2. /\ wire' \in Seq(Item) /\ Single(wire')
        /\ HasLine(wire') => HasLine(wire)
    BY <1>0, <2>1, Tailed DEF OneLine
  <2>3. HasLine(buf)' <=> HasLine(buf)
    BY <2>1 DEF HasLine
  <2> QED
    BY <1>0, <2>1, <2>2 DEF HInv, TypeOK, OneLine, Switched
<1>7. CASE ClientSeesClose
  BY <1>0, <1>1, <1>7, Disconnected DEF ClientSeesClose
\* The handler moves on without writing.
<1>8. CASE StartSession \/ Claim
  BY <1>0, <1>8 DEF StartSession, Claim, HInv, TypeOK, OneLine, Switched
\* The handler writes its line: there was none.
<1>9. ASSUME NEW x \in {"ok", "taken", "refusal"}, Write(x), spc \in {"session", "claimed"},
             UNCHANGED <<cpc, buf, attempt, delay, early>>, spc' \in {"serving", "none"},
             trouble' \in 0..MaxTrouble
      PROVE  HInv'
  <2>1. ~HasLine(wire) /\ ~HasLine(buf) /\ cpc # "up"
    BY <1>9 DEF OneLine, Switched
  <2>2. wire' \in Seq(Item) /\ Single(wire')
    BY <1>0, <1>9, <2>1, Appended DEF Write, Item
  <2> QED
    BY <1>0, <1>9, <2>1, <2>2 DEF HInv, TypeOK, OneLine, Switched
<1>10. CASE Reply
  BY <1>0, <1>9, <1>10 DEF Reply
<1>11. CASE RefuseClaim
  BY <1>0, <1>9, <1>11 DEF RefuseClaim
<1>12. CASE Ping \/ OpenStream
  <2>1. /\ wire' = Append(wire, "frame") /\ early' \in 0..MaxEarly
        /\ UNCHANGED <<cpc, spc, buf, attempt, delay, trouble>>
    BY <1>0, <1>12 DEF Ping, OpenStream, WriteFrame, Write
  <2>2. wire' \in Seq(Item) /\ (HasLine(wire') <=> HasLine(wire)) /\ Single(wire')
    BY <1>0, <2>1, Appended DEF Item, OneLine
  <2> QED
    BY <1>0, <2>1, <2>2 DEF HInv, TypeOK, OneLine, Switched
<1>13. CASE ServerSeesClose
  BY <1>0, <1>13, Nothing DEF ServerSeesClose, HInv, TypeOK, OneLine, Switched
<1>14. CASE Break
  <2>1. PICK n \in 0..Len(wire) : wire' = SubSeq(wire, 1, n)
    BY <1>14 DEF Break
  <2>2. /\ spc' = "none" /\ trouble' \in 0..MaxTrouble
        /\ UNCHANGED <<cpc, buf, attempt, delay, early>>
    BY <1>0, <1>14 DEF Break
  <2>3. wire' \in Seq(Item) /\ (HasLine(wire') => HasLine(wire)) /\ Single(wire')
    BY <1>0, <2>1, Front DEF OneLine
  <2> QED
    BY <1>0, <2>2, <2>3 DEF HInv, TypeOK, OneLine, Switched
<1> QED
  BY <1>2, <1>3, <1>4, <1>5, <1>6, <1>7, <1>8, <1>10, <1>11, <1>12, <1>13, <1>14
     DEF Next, ClientStep, ServerStep

LEMMA HInvariant == Spec => []HInv
<1>1. Init => HInv
  BY BoundsAssumption, Nothing
     DEF Init, HInv, TypeOK, OneLine, Switched, MaxAttempt, Ceiling
<1>2. HInv /\ [Next]_vars => HInv'
  <2> SUFFICES ASSUME HInv, [Next]_vars PROVE HInv'
    OBVIOUS
  <2>1. CASE UNCHANGED vars
    BY <2>1 DEF vars, HInv, TypeOK, OneLine, Switched, HasLine, Single
  <2> QED
    BY <2>1, HStep
<1> QED
  BY <1>1, <1>2, PTL DEF Spec

-----------------------------------------------------------------------------
(* Theorems                                                                *)

\* TypeOK, for every instance.
THEOREM HandshakeTypes == Spec => []TypeOK
BY HInvariant, PTL DEF HInv

\* The client hands its connection to yamux with nothing of the session left
\* behind in the reader and no line still to come.
THEOREM YamuxIsHandedAll == Spec => []YamuxStartsClean
<1>1. HInv => YamuxStartsClean
  BY DEF HInv, Switched, YamuxStartsClean
<1> QED
  BY <1>1, HInvariant, PTL

\* The client runs yamux only with a server that told it so.
THEOREM BothSwitch == Spec => []BothSidesSwitched
<1>1. HInv => BothSidesSwitched
  BY DEF HInv, Switched, BothSidesSwitched
<1> QED
  BY <1>1, HInvariant, PTL
=============================================================================
