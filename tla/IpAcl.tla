-------------------------------- MODULE IpAcl --------------------------------
(***************************************************************************)
(* The IP access control list of mygrokd (cmd/mygrokd/ipacl.go): the       *)
(* global rules and each tunnel's, in memory and in their file, as the     *)
(* admin's requests change them and a restart reads them back.             *)
(*                                                                         *)
(* Every method holds ipACL.mu, and Add and Remove save before they        *)
(* unlock, so a method is an action. A save writes a second file and       *)
(* renames it: it takes effect or it does not, and a crash in the middle   *)
(* is a save that failed and a restart. The order of a list and the notes  *)
(* on its entries are left out.                                            *)
(***************************************************************************)
CONSTANTS
  Sub,         \* subdomains, as looksLikeSubdomain has them
  GlobalName,  \* the scope "global"; a subdomain may have this name
  Entry,       \* addresses and networks in canonical form
  Addr,        \* addresses of visitors
  Covers,      \* Entry -> the addresses it contains
  Unread,      \* the addresses net.ParseIP cannot read, covered or not: a
               \* link-local IPv6 visitor's keeps the zone, as in fe80::1%eth0
  None         \* no bucket, no subdomain

ASSUME AclAssumption ==
  /\ None \notin Sub
  /\ Covers \in [Entry -> SUBSET Addr]
  /\ Unread \subseteq Addr

List == {"allow", "block"}
Bucket == [List -> SUBSET Entry]
Empty == [l \in List |-> {}]

ASSUME NoBucketAssumption == None \notin Bucket

VARIABLES
  global,   \* ipACL.global
  tunnels,  \* ipACL.tunnels: Sub -> bucket, or None
  file,     \* what a start would read
  said      \* history: Rule -> what the last answer about the rule told the
            \* admin, "there" or "absent", or "unsure" after an error

aclVars == <<global, tunnels, file, said>>

Scope == Sub \cup {GlobalName}
Rule == Scope \X List \X Entry

\* ipACLFile. The legacy lists are read and never written.
File == [global : Bucket, tunnels : [Sub -> Bucket \cup {None}], legacy : Bucket]

-----------------------------------------------------------------------------
(* Buckets                                                                 *)

\* bucketLocked: a tunnel called "global" has no bucket of its own.
BucketOf(g, t, scope) ==
  IF scope = GlobalName THEN g
  ELSE IF t[scope] = None THEN Empty
  ELSE t[scope]

writeBucketLocked(scope, b) ==
  IF scope = GlobalName
  THEN global' = b /\ UNCHANGED tunnels
  ELSE /\ tunnels' = [tunnels EXCEPT ![scope] = IF b = Empty THEN None ELSE b]
       /\ UNCHANGED global

\* A slip the run is tested with: empty buckets reach the file.
ContentsWhole(g, t) == [global |-> g, tunnels |-> t, legacy |-> Empty]

\* ... and a tunnel that has only blocked addresses does not.
ContentsAllowing(g, t) ==
  [global  |-> g,
   tunnels |-> [s \in Sub |-> IF t[s] = None \/ t[s].allow = {} THEN None ELSE t[s]],
   legacy  |-> Empty]

\* saveLocked drops the empty ones.
Contents(g, t) ==
  [global  |-> g,
   tunnels |-> [s \in Sub |-> IF t[s] = Empty THEN None ELSE t[s]],
   legacy  |-> Empty]

\* load: the legacy lists go to the global ones.
GlobalIn(f) == [l \in List |-> f.global[l] \cup f.legacy[l]]

Holds(g, t, r) == r[3] \in BucketOf(g, t, r[1])[r[2]]

-----------------------------------------------------------------------------
\* The first start, on no file, on one of mygrokd's own or on one of the old
\* format, which has the legacy lists alone.
AclInit ==
  /\ file \in
       {[global |-> b, tunnels |-> [s \in Sub |-> None], legacy |-> Empty] : b \in Bucket}
         \cup {[global |-> Empty, tunnels |-> [s \in Sub |-> None], legacy |-> b] : b \in Bucket}
  /\ global = GlobalIn(file)
  /\ tunnels = file.tunnels
  /\ said = [r \in Rule |-> IF Holds(global, tunnels, r) THEN "there" ELSE "absent"]

\* A save that works and one that does not, which is reported to the admin
\* while the change stays in memory.
Save(r, answer) ==
  \/ /\ file' = Contents(global', tunnels')
     /\ said' = [said EXCEPT ![r] = answer]
  \/ /\ UNCHANGED file
     /\ said' = [said EXCEPT ![r] = "unsure"]

\* What is already in the list is refused; so is the retry of an Add that was
\* not saved.
Add(scope, list, e) ==
  LET b == BucketOf(global, tunnels, scope) IN
  /\ e \notin b[list]
  /\ writeBucketLocked(scope, [b EXCEPT ![list] = @ \cup {e}])
  /\ Save(<<scope, list, e>>, "there")

\* A list of another name is refused after the bucket has been made.
AddUnknownList(scope) ==
  /\ scope # GlobalName
  /\ tunnels[scope] = None
  /\ tunnels' = [tunnels EXCEPT ![scope] = Empty]
  /\ UNCHANGED <<global, file, said>>

\* Another slip: an emptied tunnel is only forgotten in memory.
RemoveWithoutSave(scope, list, e) ==
  LET b == BucketOf(global, tunnels, scope)
      left == [b EXCEPT ![list] = @ \ {e}]
  IN
  /\ e \in b[list]
  /\ writeBucketLocked(scope, left)
  /\ IF left = Empty
     THEN UNCHANGED file /\ said' = [said EXCEPT ![<<scope, list, e>>] = "absent"]
     ELSE Save(<<scope, list, e>>, "absent")

Remove(scope, list, e) ==
  LET b == BucketOf(global, tunnels, scope) IN
  /\ e \in b[list]
  /\ writeBucketLocked(scope, [b EXCEPT ![list] = @ \ {e}])
  /\ Save(<<scope, list, e>>, "absent")

\* newIPACL after the process has stopped. The file is written again when it
\* had legacy lists, and an error of that is ignored.
Reload ==
  /\ global' = GlobalIn(file)
  /\ tunnels' = file.tunnels
  /\ file' \in {file} \cup (IF file.legacy # Empty THEN {Contents(global', tunnels')} ELSE {})
  /\ UNCHANGED said

AclNext ==
  \/ \E scope \in Scope, list \in List, e \in Entry :
       Add(scope, list, e) \/ Remove(scope, list, e)
  \/ \E scope \in Scope : AddUnknownList(scope)
  \/ Reload

AclSpec == AclInit /\ [][AclNext]_aclVars

-----------------------------------------------------------------------------
(* Visitors                                                                *)

Hit(list, a) == \E e \in list : a \in Covers[e]

\* The last slip: a tunnel's allowlist is looked at before the global blocklist.
CheckTunnelFirst(sub, a) ==
  LET t == IF sub = None \/ tunnels[sub] = None THEN Empty ELSE tunnels[sub] IN
  \/ a \in Unread
  \/ IF t.allow # {} THEN Hit(t.allow, a) /\ ~Hit(t.block, a)
     ELSE /\ ~Hit(global.block, a)
          /\ ~Hit(t.block, a)
          /\ global.allow = {} \/ Hit(global.allow, a)

\* May a visitor from a reach the tunnel? handlePublicConn passes on what
\* net.ParseIP makes of the address, and the nil of one it cannot read is let
\* in before any list is looked at. With no tunnel only the global lists count.
\* (bucketLocked's aliasing does not apply: tunnels is read directly.)
Check(sub, a) ==
  LET t == IF sub = None \/ tunnels[sub] = None THEN Empty ELSE tunnels[sub] IN
  \/ a \in Unread
  \/ /\ ~Hit(global.block, a)
     /\ ~Hit(t.block, a)
     /\ IF t.allow # {} THEN Hit(t.allow, a)
        ELSE global.allow = {} \/ Hit(global.allow, a)

-----------------------------------------------------------------------------
(* Properties                                                              *)

\* Kinds of the values. The file keeps no empty bucket, whatever is left in
\* memory.
AclTypeOK ==
  /\ global \in Bucket
  /\ tunnels \in [Sub -> Bucket \cup {None}]
  /\ file \in File
  /\ \A s \in Sub : file.tunnels[s] # Empty
  /\ said \in [Rule -> {"there", "absent", "unsure"}]

\* What the admin was told holds, now and after a restart: a rule whose last
\* change was answered without an error is, or is not, both in memory and in
\* the file, through failed saves of other rules, restarts and the migration
\* of an old file.
AnswersHold ==
  \A r \in Rule :
    /\ said[r] = "there" =>
         Holds(global, tunnels, r) /\ Holds(GlobalIn(file), file.tunnels, r)
    /\ said[r] = "absent" =>
         ~Holds(global, tunnels, r) /\ ~Holds(GlobalIn(file), file.tunnels, r)

\* Who the admin was told is blocked stays out of what it was blocked from,
\* whatever allowlists there are and however often mygrokd restarts, provided
\* net.ParseIP can read the address: Check lets the others in.
BlockedStayOut ==
  \A r \in Rule, s \in Sub \cup {None} :
    said[r] = "there" /\ r[2] = "block" /\ r[1] \in {s, GlobalName} =>
      \A a \in Covers[r[3]] \ Unread : ~Check(s, a)

\* A restart changes nothing for any visitor unless a save has failed: what
\* saveLocked leaves out and what load moves make no difference to Check.
RestartKeepsVerdicts ==
  [][Reload /\ (\A r \in Rule : said[r] # "unsure") =>
       \A s \in Sub \cup {None}, a \in Addr : Check(s, a)' = Check(s, a)]_aclVars
=============================================================================
