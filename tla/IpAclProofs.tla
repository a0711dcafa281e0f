----------------------------- MODULE IpAclProofs -----------------------------
(***************************************************************************)
(* Proofs about IpAcl for every set of subdomains, entries and addresses:  *)
(* the admin's answers hold in memory and in the file, so whoever is       *)
(* blocked, and has an address that can be read, stays out and a restart   *)
(* changes no verdict.                                                     *)
(***************************************************************************)
EXTENDS IpAcl, TLAPS

\* No bucket is kept for a tunnel that is called "global".
NoGlobalTunnel ==
  GlobalName \in Sub => tunnels[GlobalName] = None /\ file.tunnels[GlobalName] = None

AclInv == AclTypeOK /\ NoGlobalTunnel /\ AnswersHold

\* The values of the two maps in memory.
Maps(g, t) == g \in Bucket /\ t \in [Sub -> Bucket \cup {None}]

\* The bucket without entries is a bucket.
LEMMA EmptyBucket == Empty \in Bucket
  BY DEF Empty, Bucket

\* Changing one list of a bucket leaves a bucket.
LEMMA BucketChange ==
  ASSUME NEW b \in Bucket, NEW list \in List, NEW es \in SUBSET Entry
  PROVE  [b EXCEPT ![list] = es] \in Bucket
  BY DEF Bucket

\* BucketOf finds a bucket in every scope.
LEMMA BucketOfType ==
  ASSUME NEW g, NEW t, Maps(g, t), NEW scope \in Scope
  PROVE  BucketOf(g, t, scope) \in Bucket
  BY EmptyBucket DEF Maps, BucketOf, Scope

\* What saveLocked writes has the shape of a file without empty buckets.
LEMMA ContentsType ==
  ASSUME NEW g, NEW t, Maps(g, t)
  PROVE  /\ Contents(g, t) \in File
         /\ \A s \in Sub : Contents(g, t).tunnels[s] # Empty
<1>1. None # Empty
  BY EmptyBucket, NoBucketAssumption
<1>2. [s \in Sub |-> IF t[s] = Empty THEN None ELSE t[s]] \in [Sub -> Bucket \cup {None}]
  BY DEF Maps
<1> QED  BY <1>1, <1>2, EmptyBucket DEF Contents, File, Maps

\* The legacy lists of what is saved are empty: load finds the global bucket.
LEMMA GlobalSaved ==
  ASSUME NEW g, NEW t, Maps(g, t)
  PROVE  GlobalIn(Contents(g, t)) = g
<1>1. Contents(g, t).global = g /\ Contents(g, t).legacy = Empty
  BY DEF Contents
<1>2. GlobalIn(Contents(g, t)) = [l \in List |-> g[l] \cup Empty[l]]
  BY <1>1 DEF GlobalIn
<1>3. \A l \in List : g[l] \cup Empty[l] = g[l]
  BY DEF Empty
<1>4. g = [l \in List |-> g[l]]
  BY DEF Maps, Bucket
<1> QED  BY <1>2, <1>3, <1>4

\* A start that reads a file finds the rules that were in memory.
LEMMA HoldsSaved ==
  ASSUME NEW g, NEW t, Maps(g, t), NEW r \in Rule
  PROVE  Holds(GlobalIn(Contents(g, t)), Contents(g, t).tunnels, r) <=> Holds(g, t, r)
<1> DEFINE f == Contents(g, t)
<1>1. r[1] \in Scope /\ r[2] \in List
  BY DEF Rule
<1>2. BucketOf(GlobalIn(f), f.tunnels, r[1]) = BucketOf(g, t, r[1])
  <2>1. CASE r[1] = GlobalName
    BY <2>1, GlobalSaved DEF BucketOf
  <2>2. CASE r[1] # GlobalName
    <3>1. r[1] \in Sub
      BY <1>1, <2>2 DEF Scope
    <3>2. f.tunnels[r[1]] = IF t[r[1]] = Empty THEN None ELSE t[r[1]]
      BY <3>1 DEF Contents
    <3> QED  BY <2>2, <3>2 DEF BucketOf
  <2> QED  BY <2>1, <2>2
<1> QED  BY <1>2 DEF Holds

\* load makes a bucket of the global and the legacy lists.
LEMMA GlobalInType ==
  ASSUME NEW f \in File
  PROVE  GlobalIn(f) \in Bucket
  BY DEF File, GlobalIn, Bucket

-----------------------------------------------------------------------------
\* writeBucketLocked gives its scope the bucket, keeps the others, and makes no
\* entry for a tunnel called "global".
LEMMA Written ==
  ASSUME Maps(global, tunnels), NEW scope \in Scope, NEW b \in Bucket,
         writeBucketLocked(scope, b)
  PROVE  /\ Maps(global', tunnels')
         /\ \A s \in Scope : BucketOf(global', tunnels', s) =
                               IF s = scope THEN b ELSE BucketOf(global, tunnels, s)
         /\ GlobalName \in Sub => tunnels'[GlobalName] = tunnels[GlobalName]
<1>1. CASE scope = GlobalName
  BY <1>1 DEF writeBucketLocked, Maps, BucketOf
<1>2. CASE scope # GlobalName
  <2> DEFINE new == IF b = Empty THEN None ELSE b
  <2>1. scope \in Sub
    BY <1>2 DEF Scope
  <2>2. global' = global /\ tunnels' = [tunnels EXCEPT ![scope] = new]
    BY <1>2 DEF writeBucketLocked
  <2>3. tunnels' \in [Sub -> Bucket \cup {None}] /\ Maps(global', tunnels')
    BY <2>1, <2>2 DEF Maps
  <2>4. tunnels'[scope] = new
    BY <2>1, <2>2 DEF Maps
  <2>5. \A s \in Sub \ {scope} : tunnels'[s] = tunnels[s]
    BY <2>2 DEF Maps
  <2>6. BucketOf(global', tunnels', scope) = b
    <3>1. None # b
      BY NoBucketAssumption
    <3> QED  BY <1>2, <2>4, <3>1 DEF BucketOf
  <2>7. ASSUME NEW s \in Scope, s # scope
        PROVE  BucketOf(global', tunnels', s) = BucketOf(global, tunnels, s)
    <3>1. CASE s = GlobalName
      BY <3>1, <2>2 DEF BucketOf
    <3>2. CASE s # GlobalName
      <4>1. tunnels'[s] = tunnels[s]
        BY <2>5, <2>7, <3>2 DEF Scope
      <4> QED  BY <3>2, <4>1 DEF BucketOf
    <3> QED  BY <3>1, <3>2
  <2>8. GlobalName \in Sub => tunnels'[GlobalName] = tunnels[GlobalName]
    BY <1>2, <2>5
  <2> QED  BY <2>3, <2>6, <2>7, <2>8
<1> QED  BY <1>1, <1>2

\* A request that changes one list of one scope and says so keeps the
\* invariant: Add with more in the list, Remove with less.
LEMMA Changed ==
  ASSUME AclInv, NEW scope \in Scope, NEW list \in List, NEW e \in Entry,
         NEW es \in SUBSET Entry, NEW answer \in {"there", "absent"},
         \A x \in Entry \ {e} :
           x \in es <=> x \in BucketOf(global, tunnels, scope)[list],
         e \in es <=> answer = "there",
         writeBucketLocked(scope, [BucketOf(global, tunnels, scope) EXCEPT ![list] = es]),
         Save(<<scope, list, e>>, answer)
  PROVE  AclInv'
<1> DEFINE b == BucketOf(global, tunnels, scope)
           new == [b EXCEPT ![list] = es]
           rule == <<scope, list, e>>
<1>1. Maps(global, tunnels) /\ file \in File /\ said \in [Rule -> {"there", "absent", "unsure"}]
  BY DEF AclInv, AclTypeOK, Maps
<1>2. b \in Bucket /\ new \in Bucket
  BY <1>1, BucketOfType, BucketChange
<1>3. /\ Maps(global', tunnels')
      /\ \A s \in Scope : BucketOf(global', tunnels', s) =
                            IF s = scope THEN new ELSE BucketOf(global, tunnels, s)
      /\ GlobalName \in Sub => tunnels'[GlobalName] = tunnels[GlobalName]
  BY <1>1, <1>2, Written
<1>4. rule \in Rule
  BY DEF Rule
<1>5. \A r \in Rule \ {rule} : Holds(global', tunnels', r) <=> Holds(global, tunnels, r)
  <2> SUFFICES ASSUME NEW r \in Rule, r # rule
               PROVE  Holds(global', tunnels', r) <=> Holds(global, tunnels, r)
    OBVIOUS
  <2>1. r[1] \in Scope /\ r[2] \in List /\ r[3] \in Entry /\ r = <<r[1], r[2], r[3]>>
    BY DEF Rule
  <2>2. CASE r[1] # scope
    BY <1>3, <2>1, <2>2 DEF Holds
  <2>3. CASE r[1] = scope
    <3>1. BucketOf(global', tunnels', r[1]) = new /\ BucketOf(global, tunnels, r[1]) = b
      BY <1>3, <2>1, <2>3
    <3>2. CASE r[2] # list
      <4>1. new[r[2]] = b[r[2]]
        BY <1>2, <2>1, <3>2 DEF Bucket
      <4> QED  BY <3>1, <4>1 DEF Holds
    <3>3. CASE r[2] = list
      <4>1. r[3] # e
        BY <2>1, <2>3, <3>3
      <4>2. new[r[2]] = es
        BY <1>2, <3>3 DEF Bucket
      <4>3. r[3] \in es <=> r[3] \in b[r[2]]
        BY <2>1, <3>3, <4>1
      <4> QED  BY <3>1, <4>2, <4>3 DEF Holds
    <3> QED  BY <3>2, <3>3
  <2> QED  BY <2>2, <2>3
<1>6. Holds(global', tunnels', rule) <=> answer = "there"
  <2>1. BucketOf(global', tunnels', rule[1]) = new
    BY <1>3
  <2>2. new[list] = es
    BY <1>2 DEF Bucket
  <2> QED  BY <2>1, <2>2 DEF Holds
<1>7. CASE file' = Contents(global', tunnels') /\ said' = [said EXCEPT ![rule] = answer]
  <2>1. file' \in File /\ \A s \in Sub : file'.tunnels[s] # Empty
    BY <1>3, <1>7, ContentsType
  <2>2. AclTypeOK'
    BY <1>1, <1>3, <1>7, <2>1 DEF AclTypeOK, Maps
  <2>3. NoGlobalTunnel'
    <3>1. GlobalName \in Sub => tunnels'[GlobalName] = None
      BY <1>3 DEF AclInv, NoGlobalTunnel
    <3> QED  BY <1>7, <3>1 DEF NoGlobalTunnel, Contents
  <2>4. \A r \in Rule : Holds(GlobalIn(file'), file'.tunnels, r) <=> Holds(global', tunnels', r)
    BY <1>3, <1>7, HoldsSaved
  <2>5. ASSUME NEW r \in Rule
        PROVE  /\ said'[r] = "there" => Holds(global', tunnels', r)
               /\ said'[r] = "absent" => ~Holds(global', tunnels', r)
    <3>1. CASE r = rule
      BY <1>1, <1>4, <1>6, <1>7, <3>1
    <3>2. CASE r # rule
      <4>1. said'[r] = said[r]
        BY <1>1, <1>7, <3>2
      <4> QED  BY <1>5, <3>2, <4>1 DEF AclInv, AnswersHold
    <3> QED  BY <3>1, <3>2
  <2>6. AnswersHold'
    BY <2>4, <2>5 DEF AnswersHold
  <2> QED  BY <2>2, <2>3, <2>6 DEF AclInv
<1>8. CASE UNCHANGED file /\ said' = [said EXCEPT ![rule] = "unsure"]
  <2>1. AclTypeOK'
    BY <1>1, <1>3, <1>8 DEF AclInv, AclTypeOK, Maps
  <2>2. NoGlobalTunnel'
    BY <1>3, <1>8 DEF AclInv, NoGlobalTunnel
  <2>3. ASSUME NEW r \in Rule
        PROVE  /\ said'[r] = "there" =>
                    Holds(global', tunnels', r) /\ Holds(GlobalIn(file'), file'.tunnels, r)
               /\ said'[r] = "absent" =>
                    ~Holds(global', tunnels', r) /\ ~Holds(GlobalIn(file'), file'.tunnels, r)
    <3>1. CASE r = rule
      BY <1>1, <1>4, <1>8, <3>1
    <3>2. CASE r # rule
      <4>1. said'[r] = said[r] /\ file' = file
        BY <1>1, <1>8, <3>2
      <4> QED  BY <1>5, <3>2, <4>1 DEF AclInv, AnswersHold
    <3> QED  BY <3>1, <3>2
  <2>4. AnswersHold'
    BY <2>3 DEF AnswersHold
  <2> QED  BY <2>1, <2>2, <2>4 DEF AclInv
<1> QED  BY <1>7, <1>8 DEF Save

\* The first start: what is in memory is what its file says, of the current
\* format or of the old one.
LEMMA AclStart == AclInit => AclInv
<1> SUFFICES ASSUME AclInit PROVE AclInv
  OBVIOUS
<1>1. None # Empty
  BY EmptyBucket, NoBucketAssumption
<1>2. file \in File /\ \A s \in Sub : file.tunnels[s] = None
  BY EmptyBucket DEF AclInit, File
<1>3. global \in Bucket /\ global = GlobalIn(file) /\ tunnels = file.tunnels
  BY <1>2, GlobalInType DEF AclInit
<1>4. said = [r \in Rule |-> IF Holds(global, tunnels, r) THEN "there" ELSE "absent"]
  BY DEF AclInit
<1>5. AclTypeOK
  BY <1>1, <1>2, <1>3, <1>4 DEF AclTypeOK, File
<1>6. NoGlobalTunnel
  BY <1>2, <1>3 DEF NoGlobalTunnel
<1>7. AnswersHold
  BY <1>3, <1>4 DEF AnswersHold
<1> QED  BY <1>5, <1>6, <1>7 DEF AclInv

\* Every request and every restart keep the invariant.
LEMMA AclStep == AclInv /\ [AclNext]_aclVars => AclInv'
<1> SUFFICES ASSUME AclInv, [AclNext]_aclVars PROVE AclInv'
  OBVIOUS
<1>1. Maps(global, tunnels) /\ file \in File
  BY DEF AclInv, AclTypeOK, Maps
<1>2. ASSUME NEW scope \in Scope, NEW list \in List, NEW e \in Entry, Add(scope, list, e)
      PROVE  AclInv'
  <2> DEFINE b == BucketOf(global, tunnels, scope)
             es == b[list] \cup {e}
  <2>1. b \in Bucket
    BY <1>1, BucketOfType
  <2>2. es \in SUBSET Entry
    BY <2>1 DEF Bucket
  <2>3. writeBucketLocked(scope, [b EXCEPT ![list] = es])
    BY <1>2, <2>1 DEF Add, Bucket
  <2>4. Save(<<scope, list, e>>, "there")
    BY <1>2 DEF Add
  <2> HIDE DEF b
  <2>5. \A x \in Entry \ {e} : x \in es <=> x \in b[list]
    OBVIOUS
  <2> QED  BY <2>2, <2>3, <2>4, <2>5, Changed DEF b
<1>3. ASSUME NEW scope \in Scope, NEW list \in List, NEW e \in Entry, Remove(scope, list, e)
      PROVE  AclInv'
  <2> DEFINE b == BucketOf(global, tunnels, scope)
             es == b[list] \ {e}
  <2>1. b \in Bucket
    BY <1>1, BucketOfType
  <2>2. es \in SUBSET Entry
    BY <2>1 DEF Bucket
  <2>3. writeBucketLocked(scope, [b EXCEPT ![list] = es])
    BY <1>3, <2>1 DEF Remove, Bucket
  <2>4. Save(<<scope, list, e>>, "absent")
    BY <1>3 DEF Remove
  <2> HIDE DEF b
  <2>5. \A x \in Entry \ {e} : x \in es <=> x \in b[list]
    OBVIOUS
  <2> QED  BY <2>2, <2>3, <2>4, <2>5, Changed DEF b
<1>4. ASSUME NEW scope \in Scope, AddUnknownList(scope)
      PROVE  AclInv'
  <2>1. scope # GlobalName /\ tunnels[scope] = None
    BY <1>4 DEF AddUnknownList
  <2>2. global' = global /\ file' = file /\ said' = said
        /\ tunnels' = [tunnels EXCEPT ![scope] = Empty]
    BY <1>4 DEF AddUnknownList
  <2>3. AclTypeOK' /\ NoGlobalTunnel'
    BY <2>1, <2>2, EmptyBucket DEF AclInv, AclTypeOK, NoGlobalTunnel
  <2>4. ASSUME NEW s \in Scope
        PROVE  BucketOf(global', tunnels', s) = BucketOf(global, tunnels, s)
    <3>1. None # Empty
      BY EmptyBucket, NoBucketAssumption
    <3>2. CASE s = GlobalName
      BY <2>2, <3>2 DEF BucketOf
    <3>3. CASE s # GlobalName
      <4>1. s \in Sub /\ tunnels'[s] = IF s = scope THEN Empty ELSE tunnels[s]
        BY <1>1, <2>2, <3>3 DEF Scope, Maps
      <4> QED  BY <2>1, <3>1, <3>3, <4>1 DEF BucketOf
    <3> QED  BY <3>2, <3>3
  <2>5. \A r \in Rule : Holds(global', tunnels', r) <=> Holds(global, tunnels, r)
    BY <2>4 DEF Rule, Holds
  <2>6. AnswersHold'
    BY <2>2, <2>5 DEF AclInv, AnswersHold
  <2> QED  BY <2>3, <2>6 DEF AclInv
<1>5. ASSUME Reload
      PROVE  AclInv'
  <2>1. global' = GlobalIn(file) /\ tunnels' = file.tunnels /\ said' = said
    BY <1>5 DEF Reload
  <2>2. Maps(global', tunnels')
    BY <1>1, <2>1, GlobalInType DEF Maps, File
  <2>3. file' = file \/ file' = Contents(global', tunnels')
    BY <1>5 DEF Reload
  <2>4. AclTypeOK'
    <3>1. file' \in File /\ \A s \in Sub : file'.tunnels[s] # Empty
      BY <1>1, <2>2, <2>3, ContentsType DEF AclInv, AclTypeOK
    <3> QED  BY <2>1, <2>2, <3>1 DEF AclInv, AclTypeOK, Maps
  <2>5. NoGlobalTunnel'
    <3>1. GlobalName \in Sub => file.tunnels[GlobalName] = None
      BY DEF AclInv, NoGlobalTunnel
    <3>2. GlobalName \in Sub => Contents(global', tunnels').tunnels[GlobalName] = None
      BY <2>1, <3>1 DEF Contents
    <3> QED  BY <2>1, <2>3, <3>1, <3>2 DEF NoGlobalTunnel
  <2>6. ASSUME NEW r \in Rule
        PROVE  /\ Holds(global', tunnels', r) <=> Holds(GlobalIn(file), file.tunnels, r)
               /\ Holds(GlobalIn(file'), file'.tunnels, r) <=> Holds(global', tunnels', r)
    <3>1. Holds(global', tunnels', r) <=> Holds(GlobalIn(file), file.tunnels, r)
      BY <2>1
    <3>2. CASE file' = file
      BY <3>1, <3>2
    <3>3. CASE file' = Contents(global', tunnels')
      BY <2>2, <3>1, <3>3, HoldsSaved
    <3> QED  BY <2>3, <3>1, <3>2, <3>3
  <2>7. AnswersHold'
    BY <2>1, <2>6 DEF AclInv, AnswersHold
  <2> QED  BY <2>4, <2>5, <2>7 DEF AclInv
<1>6. CASE UNCHANGED aclVars
  BY <1>6 DEF aclVars, AclInv, AclTypeOK, NoGlobalTunnel, AnswersHold
<1> QED  BY <1>2, <1>3, <1>4, <1>5, <1>6 DEF AclNext

\* The inductive invariant of the access control list.
THEOREM AclInvariance == AclSpec => []AclInv
  BY AclStart, AclStep, PTL DEF AclSpec

\* Every reachable state is type-correct, and the file holds no empty bucket.
THEOREM AclTypes == AclSpec => []AclTypeOK
<1>1. AclInv => AclTypeOK
  BY DEF AclInv
<1> QED  BY <1>1, AclInvariance, PTL

\* What the admin was told of a rule holds in memory and in the file.
THEOREM AnswersAlwaysHold == AclSpec => []AnswersHold
<1>1. AclInv => AnswersHold
  BY DEF AclInv
<1> QED  BY <1>1, AclInvariance, PTL

-----------------------------------------------------------------------------
\* In a state that keeps the answers nobody passes who was reported blocked,
\* at an address that net.ParseIP reads.
LEMMA BlockedOut == AclInv => BlockedStayOut
<1> SUFFICES ASSUME AclInv, NEW r \in Rule, NEW s \in Sub \cup {None},
                    said[r] = "there", r[2] = "block", r[1] \in {s, GlobalName},
                    NEW a \in Covers[r[3]] \ Unread
             PROVE  ~Check(s, a)
  BY DEF BlockedStayOut
<1> DEFINE t == IF s = None \/ tunnels[s] = None THEN Empty ELSE tunnels[s]
<1>1. r[3] \in BucketOf(global, tunnels, r[1])["block"]
  BY DEF AclInv, AnswersHold, Holds
<1>2. CASE r[1] = GlobalName
  <2>1. r[3] \in global.block
    BY <1>1, <1>2 DEF BucketOf
  <2>2. Hit(global.block, a)
    BY <2>1 DEF Hit
  <2> QED  BY <2>2 DEF Check
<1>3. CASE r[1] # GlobalName
  <2>1. s = r[1] /\ s \in Sub
    BY <1>3, AclAssumption DEF Rule, Scope
  <2>2. tunnels[s] # None /\ t = tunnels[s] /\ r[3] \in t.block
    <3>1. s # None
      BY <2>1, AclAssumption
    <3>2. Empty["block"] = {}
      BY DEF Empty, List
    <3> QED  BY <1>1, <1>3, <2>1, <3>1, <3>2 DEF BucketOf
  <2>3. Hit(t.block, a)
    BY <2>2 DEF Hit
  <2> QED  BY <2>3 DEF Check
<1> QED  BY <1>2, <1>3

\* Who the admin was told is blocked stays out, unless net.ParseIP cannot read
\* the address.
THEOREM BlockedAlwaysOut == AclSpec => []BlockedStayOut
  BY BlockedOut, AclInvariance, PTL

\* Two buckets with the same rules are the same bucket.
LEMMA SameRules ==
  ASSUME AclInv, \A r \in Rule : said[r] # "unsure", NEW scope \in Scope
  PROVE  BucketOf(GlobalIn(file), file.tunnels, scope) = BucketOf(global, tunnels, scope)
<1> DEFINE old == BucketOf(global, tunnels, scope)
           new == BucketOf(GlobalIn(file), file.tunnels, scope)
<1>1. Maps(global, tunnels) /\ Maps(GlobalIn(file), file.tunnels)
  BY GlobalInType DEF AclInv, AclTypeOK, Maps, File
<1>2. old \in Bucket /\ new \in Bucket
  BY <1>1, BucketOfType
<1>3. ASSUME NEW l \in List, NEW e \in Entry
      PROVE  e \in new[l] <=> e \in old[l]
  <2> DEFINE rule == <<scope, l, e>>
  <2>1. rule \in Rule
    BY DEF Rule
  <2>2. said[rule] \in {"there", "absent"}
    BY <2>1 DEF AclInv, AclTypeOK
  <2>3. Holds(global, tunnels, rule) <=> Holds(GlobalIn(file), file.tunnels, rule)
    BY <2>1, <2>2 DEF AclInv, AnswersHold
  <2> QED  BY <2>3 DEF Holds
<1>4. \A l \in List : new[l] = old[l]
  BY <1>2, <1>3 DEF Bucket
<1> QED  BY <1>2, <1>4 DEF Bucket

\* A restart without a failed save behind it changes no verdict.
LEMMA RestartStep ==
  ASSUME AclInv, Reload, \A r \in Rule : said[r] # "unsure",
         NEW s \in Sub \cup {None}, NEW a \in Addr
  PROVE  Check(s, a)' = Check(s, a)
<1> DEFINE t == IF s = None \/ tunnels[s] = None THEN Empty ELSE tunnels[s]
<1>1. global' = GlobalIn(file) /\ tunnels' = file.tunnels
  BY DEF Reload
<1>2. global' = global
  <2>1. GlobalName \in Scope
    BY DEF Scope
  <2> QED  BY <1>1, <2>1, SameRules DEF BucketOf
<1>3. t' = t
  <2>1. CASE s = None
    BY <2>1
  <2>2. CASE s # None /\ s = GlobalName
    BY <1>1, <2>2 DEF AclInv, NoGlobalTunnel
  <2>3. CASE s # None /\ s # GlobalName
    <3>1. s \in Scope
      BY <2>3 DEF Scope
    <3>2. BucketOf(global', tunnels', s) = BucketOf(global, tunnels, s)
      BY <1>1, <3>1, SameRules
    <3> QED  BY <2>3, <3>2 DEF BucketOf
  <2> QED  BY <2>1, <2>2, <2>3
<1>4. Check(s, a) <=> \/ a \in Unread
                      \/ /\ ~Hit(global.block, a)
                         /\ ~Hit(t.block, a)
                         /\ IF t.allow # {} THEN Hit(t.allow, a)
                            ELSE global.allow = {} \/ Hit(global.allow, a)
  BY DEF Check
<1>5. Check(s, a)' <=> \/ a \in Unread
                       \/ /\ ~Hit(global'.block, a)
                          /\ ~Hit(t'.block, a)
                          /\ IF t'.allow # {} THEN Hit(t'.allow, a)
                             ELSE global'.allow = {} \/ Hit(global'.allow, a)
  BY DEF Check, Hit
<1> HIDE DEF t
<1>6. Check(s, a)' <=> Check(s, a)
  BY <1>2, <1>3, <1>4, <1>5
<1>7. Check(s, a) \in BOOLEAN /\ Check(s, a)' \in BOOLEAN
  BY DEF Check
<1> QED  BY <1>6, <1>7

\* saveLocked and load lose nothing that a visitor could notice.
THEOREM RestartsKeepVerdicts == AclSpec => RestartKeepsVerdicts
<1> DEFINE Kept ==
      Reload /\ (\A r \in Rule : said[r] # "unsure") =>
        \A s \in Sub \cup {None}, a \in Addr : Check(s, a)' = Check(s, a)
<1>1. AclInv /\ [AclNext]_aclVars => [Kept]_aclVars
  BY RestartStep
<1>2. RestartKeepsVerdicts <=> [][Kept]_aclVars
  BY DEF RestartKeepsVerdicts
<1> HIDE DEF Kept
<1> QED  BY <1>1, <1>2, AclInvariance, PTL DEF AclSpec
=============================================================================
