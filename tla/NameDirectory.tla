--------------------------- MODULE NameDirectory ---------------------------
(***************************************************************************)
(* What mygrokd promises about public names, with no goroutines, no        *)
(* deferred calls and no visitors: a name is bound to at most one          *)
(* connection, a connection is given all the names of its lease in one     *)
(* step and loses them in one step, a lease is lost only by a dead         *)
(* connection or to another connection of the same client process.         *)
(***************************************************************************)
CONSTANTS
  Conn,       \* control connections
  Sub,        \* subdomains, the primary name of a lease
  Host,       \* custom hostnames, the secondary names of a lease
  ClientId,   \* the client processes a connection may come from
  Anonymous,  \* the ClientId of a client that sends none
  None        \* no connection, no lease

VARIABLES
  holder,     \* Sub \cup Host -> the connection a visitor would be sent to
  lease,      \* Conn -> the lease the connection holds
  live        \* connections that can carry traffic

dirVars == <<holder, lease, live>>

Lease == [sub : Sub, client : ClientId, hosts : SUBSET Host]

Names(l) == {l.sub} \cup l.hosts

DirInit ==
  /\ holder = [n \in Sub \cup Host |-> None]
  /\ lease = [c \in Conn |-> None]
  /\ live = {}

Connect(c) ==
  /\ lease[c] = None
  /\ live' = live \cup {c}
  /\ UNCHANGED <<holder, lease>>

Die(c) ==
  /\ live' = live \ {c}
  /\ UNCHANGED <<holder, lease>>

\* All of the lease's names are free.
Bind(c, l) ==
  /\ lease[c] = None
  /\ \A n \in Names(l) : holder[n] = None
  /\ holder' = [n \in Sub \cup Host |-> IF n \in Names(l) THEN c ELSE holder[n]]
  /\ lease' = [lease EXCEPT ![c] = l]
  /\ UNCHANGED live

\* Connection d of the same client process holds the same subdomain; its
\* lease ends as c's begins, and names only d had become free.
TakeOver(c, d, l) ==
  /\ lease[c] = None
  /\ lease[d] # None
  /\ lease[d].sub = l.sub
  /\ lease[d].client = l.client
  /\ l.client # Anonymous
  /\ \A n \in Names(l) : holder[n] \in {None, d}
  /\ holder' = [n \in Sub \cup Host |->
                  CASE n \in Names(l)                     -> c
                    [] n \notin Names(l) /\ holder[n] = d -> None
                    [] OTHER                              -> holder[n]]
  /\ lease' = [lease EXCEPT ![c] = l, ![d] = None]
  /\ UNCHANGED live

\* A dead connection loses every name it had.
Drop(c) ==
  /\ lease[c] # None
  /\ c \notin live
  /\ holder' = [n \in Sub \cup Host |-> IF holder[n] = c THEN None ELSE holder[n]]
  /\ lease' = [lease EXCEPT ![c] = None]
  /\ UNCHANGED live

DirNext ==
  \/ \E c \in Conn : Connect(c) \/ Die(c) \/ Drop(c)
  \/ \E c \in Conn, l \in Lease : Bind(c, l)
  \/ \E c, d \in Conn, l \in Lease : TakeOver(c, d, l)

DirSpec == DirInit /\ [][DirNext]_dirVars
=============================================================================
