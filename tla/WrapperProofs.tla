---------------------------- MODULE WrapperProofs ----------------------------
(***************************************************************************)
(* Between an application and the compressor: numbers, UUIDs and tokens    *)
(* change nothing, remembered tokens are right, and counters add up.       *)
(*                                                                         *)
(* The invariant joins those of the compressor and of the token cache,     *)
(* whose lemmas are used for the compressor's own list of sessions.        *)
(***************************************************************************)
EXTENDS Wrapper, PersistenceProofs

Cache == INSTANCE SessionTokenProofs WITH sessions <- compressor.sessions

-----------------------------------------------------------------------------
(* Conversions. *)

LEMMA AsF64Type ==
    ASSUME NEW n \in Int
    PROVE  /\ AsF64(n) \in Int
           /\ n \in Nat => AsF64(n) \in Nat
BY DEF AsF64

LEMMA ExactAsF64 ==
    ASSUME NEW n \in Int, -ExactLimit <= n, n <= ExactLimit
    PROVE  AsF64(n) = n
BY AdapterAssumption DEF AsF64

(* A safe integer is no rounded one. *)
LEMMA SafeIsExact ==
    ASSUME NEW n \in Int, IsSafe(AsF64(n))
    PROVE  AsF64(n) = n
BY AdapterAssumption DEF AsF64, IsSafe

LEMMA IntegerCasts ==
    ASSUME NEW n \in Int
    PROVE  /\ AsI64(n) = n
           /\ n \in Nat => AsU64(n) = n
<1>1. n # NaN /\ n # WithFraction
  BY AdapterAssumption
<1>2. AsI64(n) = n
  BY <1>1 DEF AsI64
<1> QED BY <1>2 DEF AsU64

(* A session's UUID is read back as the session. *)
LEMMA SessionUuids ==
    ASSUME NEW s \in Sessions
    PROVE  FromUuidString(ToUuid(s)) = {s}
<1>1. s \in 0..(StableLimit - 1)
  <2>1. s \in Nat /\ s < StableLimit
    BY SessionsAssumption, WrapperAssumption
  <2>2. StableLimit \in Nat
    BY FieldSizesAssumption DEF StableLimit
  <2> QED BY <2>1, <2>2
<1> QED BY <1>1, StableIdsRoundTrip

-----------------------------------------------------------------------------
(* The token cache. *)

LEMMA CacheConstants == Cache!TokenConstants
BY WrapperAssumption DEF Cache!TokenConstants

(* The tokens of the cache are those of the compressor. *)
LEMMA CacheTokens ==
    ASSUME NEW s
    PROVE  Cache!GetToken(s) = Token(compressor, s)
BY DEF Cache!GetToken, Cache!TokenIn, Cache!Known, Cache!NilToken, Token, Known, Elements, NilToken

LEMMA CacheUndisturbed ==
    ASSUME Cache!IInv, UNCHANGED cache, UNCHANGED trapped, compressor'.sessions = compressor.sessions
    PROVE  Cache!IInv'
BY DEF Cache!IInv, Cache!TypeOK, Cache!SessionsDistinct, Cache!EntriesDistinct, Cache!LengthBounded,
       Cache!LastUsedIsCached, Cache!RememberedTokensCurrent, Cache!Cached, Cache!GetToken, cache

LEMMA CacheAsked ==
    ASSUME Cache!IInv, NEW origin \in Sessions, NEW kind \in Tokens!IdKinds,
           Tokens!NormalizeToSessionSpace(origin, kind)
    PROVE  Cache!IInv'
<1>1. kind \in Cache!IdKinds
  BY DEF Tokens!IdKinds, Cache!IdKinds
<1>2. Cache!NormalizeToSessionSpace(origin, kind)
  BY DEF Tokens!NormalizeToSessionSpace, Cache!NormalizeToSessionSpace,
         Tokens!LastUsed, Cache!LastUsed, Tokens!CacheHit, Cache!CacheHit,
         Tokens!CacheMiss, Cache!CacheMiss, Tokens!Use, Cache!Use, Tokens!Cached, Cache!Cached,
         Tokens!wrapper, Cache!wrapper, Tokens!GetToken, Cache!GetToken, Tokens!TokenIn, Cache!TokenIn,
         Tokens!Known, Cache!Known, Tokens!NilToken, Cache!NilToken, Tokens!Evict, Cache!Evict
<1> QED BY <1>1, <1>2, CacheConstants, Cache!NormalizeKeeps

LEMMA CacheFinalizes ==
    ASSUME Cache!IInv, NEW s \in Sessions, Tokens!Forget(s), ~trapped, UNCHANGED trapped,
           \/ compressor'.sessions = compressor.sessions
           \/ /\ s \notin Known(compressor)
              /\ compressor'.sessions = Append(compressor.sessions, s)
    PROVE  Cache!IInv'
<1>1. Cache!Forget(s)
  BY DEF Tokens!Forget, Cache!Forget, Tokens!Cached, Cache!Cached, Tokens!Delete, Cache!Delete,
         Tokens!wrapper, Cache!wrapper, Tokens!NilToken, Cache!NilToken
<1>2. Cache!Known(compressor.sessions) = Known(compressor)
  BY DEF Cache!Known, Known, Elements
<1>3. Cache!FinalizeCreationRange(s)
  BY <1>1, <1>2 DEF Cache!FinalizeCreationRange
<1> QED BY <1>3, CacheConstants, Cache!FinalizeKeeps

LEMMA CacheBegins ==
    ASSUME Init
    PROVE  Cache!IInv
<1>1. compressor.sessions = <<LocalSession>>
  BY DEF Init, NewCompressor
<1>2. Cache!Init
  BY <1>1 DEF Init, Tokens!Init, Cache!Init, Tokens!NilToken, Cache!NilToken
<1> QED BY <1>2, CacheConstants, Cache!InitEstablishes

LEMMA CacheEmptied ==
    ASSUME Cache!IInv, compressor'.sessions = compressor.sessions, UNCHANGED trapped,
           sessionTokens' = <<>>, lastUsedSessionId' = NoSession, lastUsedToken' = NilToken
    PROVE  Cache!IInv'
<1>1. Cache!TypeOK'
  BY DEF Cache!IInv, Cache!TypeOK, Cache!Tokens, Cache!NilToken, NilToken
<1>2. Cache!SessionsDistinct'
  BY DEF Cache!IInv, Cache!SessionsDistinct
<1>3. Cache!EntriesDistinct' /\ Cache!LengthBounded'
  BY CacheConstants DEF Cache!EntriesDistinct, Cache!LengthBounded, Cache!TokenConstants
<1>4. Cache!LastUsedIsCached' /\ Cache!RememberedTokensCurrent'
  BY DEF Cache!LastUsedIsCached, Cache!RememberedTokensCurrent
<1> QED BY <1>1, <1>2, <1>3, <1>4 DEF Cache!IInv

(* What the wrapper has of the cache. *)
LEMMA CacheIsWrapped ==
    ASSUME Cache!IInv
    PROVE  Tokens!TypeOK /\ TokensCurrent /\ LastUsedIsCached /\ CacheBounded
<1>1. Tokens!TypeOK
  BY DEF Cache!IInv, Cache!TypeOK, Tokens!TypeOK, Cache!Tokens, Tokens!Tokens,
         Cache!NilToken, Tokens!NilToken
<1>2. TokensCurrent
  BY DEF Cache!IInv, Cache!RememberedTokensCurrent, TokensCurrent, Tokens!RememberedTokensCurrent,
         Tokens!GetToken, Cache!GetToken, Tokens!TokenIn, Cache!TokenIn,
         Tokens!Known, Cache!Known, Tokens!NilToken, Cache!NilToken
<1>3. LastUsedIsCached
  BY DEF Cache!IInv, Cache!LastUsedIsCached, LastUsedIsCached, Tokens!LastUsedIsCached,
         Tokens!Cached, Cache!Cached
<1>4. CacheBounded
  BY DEF CacheBounded, Tokens!CacheBounded, Cache!IInv, Cache!LengthBounded, Cache!EntriesDistinct
<1> QED BY <1>1, <1>2, <1>3, <1>4

-----------------------------------------------------------------------------
(* The numbers of IDs. *)

LEMMA NumbersOfIssued ==
    ASSUME NEW c, NEW g, NEW x
    PROVE  IsNumberOf(c, g, x) <=> \E id : Issued(c, g, id) /\ x = AsF64(id)
<1>1. CASE -g \in c.normalizer
  BY <1>1 DEF IsNumberOf, Issued
<1>2. CASE -g \notin c.normalizer
  BY <1>2 DEF IsNumberOf, Issued
<1> QED BY <1>1, <1>2

(* An issued ID is an integer. *)
LEMMA IssuedType ==
    ASSUME NEW c, CompressorInv(c), NEW g \in 1..c.generatedIdCount, NEW id, Issued(c, g, id)
    PROVE  id \in Int
<1>1. CASE -g \in c.normalizer
  BY <1>1, GenCounts DEF Issued
<1>2. CASE -g \notin c.normalizer
  <2>1. PICK i \in Chain(c.clusters, c.sessionId) :
            HoldsLocal(c.clusters[i], -g) /\ id = AllocatedFinal(c.clusters[i], -g)
    BY <1>2 DEF Issued
  <2>2. TableInv(c.clusters) /\ i \in DOMAIN c.clusters /\ -g \in Int
    BY CompressorFacts, GenCounts DEF Chain
  <2> QED BY <2>1, <2>2, FinalOfLocal
<1> QED BY <1>1, <1>2

(* A number stays that of its ID. *)
LEMMA NumbersStay ==
    ASSUME NEW c, CompressorInv(c), NEW d, CompressorInv(d), Extends(c, d),
           NEW g \in 1..c.generatedIdCount, NEW x, IsNumberOf(c, g, x)
    PROVE  IsNumberOf(d, g, x)
<1>1. PICK id : Issued(c, g, id) /\ x = AsF64(id)
  BY NumbersOfIssued
<1>2. Issued(d, g, id)
  BY <1>1, CompressorFacts, IssuedStays
<1> QED BY <1>1, <1>2, NumbersOfIssued

-----------------------------------------------------------------------------
(* The counters. *)

Tallied(c, all) ==
    /\ all.local = Cardinality(c.normalizer)
    /\ all.eager = c.generatedIdCount - Cardinality(c.normalizer)
    /\ all.creations = Len(c.clusters)

LEMMA SumOf ==
    ASSUME NEW a \in Stats, NEW b \in Stats, NEW x, x = Sum(a, b)
    PROVE  /\ x \in Stats
           /\ x.eager = a.eager + b.eager /\ x.local = a.local + b.local
           /\ x.expansions = a.expansions + b.expansions
           /\ x.creations = a.creations + b.creations
<1>1. DOMAIN a = {"eager", "local", "expansions", "creations"}
  BY DEF Stats
<1>2. /\ a.eager \in Nat /\ a.local \in Nat /\ a.expansions \in Nat /\ a.creations \in Nat
      /\ b.eager \in Nat /\ b.local \in Nat /\ b.expansions \in Nat /\ b.creations \in Nat
  BY DEF Stats
<1>3. x = [eager |-> a.eager + b.eager, local |-> a.local + b.local,
           expansions |-> a.expansions + b.expansions, creations |-> a.creations + b.creations]
  BY <1>1 DEF Sum
<1> QED BY <1>2, <1>3 DEF Stats

LEMMA EmptyStatsType ==
    /\ EmptyStats \in Stats
    /\ EmptyStats.eager = 0 /\ EmptyStats.local = 0
    /\ EmptyStats.expansions = 0 /\ EmptyStats.creations = 0
BY DEF EmptyStats, Stats

(* Nothing is lost or counted twice when the counters are handed out. *)
LEMMA SumHandedOut ==
    ASSUME NEW a \in Stats, NEW b \in Stats
    PROVE  Sum(Sum(a, b), EmptyStats) = Sum(a, b)
<1> DEFINE x == Sum(a, b)
           y == Sum(x, EmptyStats)
<1>1. x \in Stats
  BY SumOf
<1> HIDE DEF x
<1>2. /\ y \in Stats /\ y.eager = x.eager + 0 /\ y.local = x.local + 0
      /\ y.expansions = x.expansions + 0 /\ y.creations = x.creations + 0
  BY <1>1, EmptyStatsType, SumOf
<1> HIDE DEF y
<1>3. y = x
  BY <1>1, <1>2 DEF Stats
<1> QED BY <1>3 DEF x, y

LEMMA LocalsAreFinite ==
    ASSUME NEW c, CompressorInv(c)
    PROVE  IsFiniteSet(c.normalizer) /\ Cardinality(c.normalizer) \in Nat
<1> DEFINE n == c.generatedIdCount
<1>1. n \in Nat /\ c.normalizer \subseteq {-g : g \in 1..n}
  BY CompressorFacts DEF CompressorInv
<1>2. c.normalizer \subseteq (-n)..(-1)
  BY <1>1
<1>3. IsFiniteSet((-n)..(-1))
  BY <1>1, FS_Interval
<1> QED BY <1>2, <1>3, FS_Subset, FS_CardinalityType

(* Counters stay right if each grows as what it counts. *)
LEMMA TalliedAfter ==
    ASSUME NEW before \in Stats, NEW now \in Stats, NEW after \in Stats,
           NEW c, Tallied(c, Sum(before, now)), NEW d,
           c.generatedIdCount \in Nat, Cardinality(c.normalizer) \in Nat, Len(c.clusters) \in Nat,
           NEW a \in Nat, NEW b \in Nat, NEW k \in Nat,
           after.local = now.local + a, after.eager = now.eager + b,
           after.creations = now.creations + k,
           Cardinality(d.normalizer) = Cardinality(c.normalizer) + a,
           d.generatedIdCount = c.generatedIdCount + a + b,
           Len(d.clusters) = Len(c.clusters) + k
    PROVE  Tallied(d, Sum(before, after))
<1> DEFINE x == Sum(before, now)
           y == Sum(before, after)
           n == c.generatedIdCount
           m == Cardinality(c.normalizer)
           len == Len(c.clusters)
<1>1. /\ now.eager \in Nat /\ now.local \in Nat /\ now.creations \in Nat
      /\ before.eager \in Nat /\ before.local \in Nat /\ before.creations \in Nat
  BY DEF Stats
<1>2. /\ x.eager = before.eager + now.eager /\ x.local = before.local + now.local
      /\ x.creations = before.creations + now.creations
  BY SumOf
<1>3. /\ y.eager = before.eager + after.eager /\ y.local = before.local + after.local
      /\ y.creations = before.creations + after.creations
  BY SumOf
<1>4. x.local = m /\ x.eager = n - m /\ x.creations = len
  BY DEF Tallied
<1>5. n \in Nat /\ m \in Nat /\ len \in Nat
  OBVIOUS
<1>6. Cardinality(d.normalizer) = m + a /\ d.generatedIdCount = n + a + b /\ Len(d.clusters) = len + k
  OBVIOUS
<1> HIDE DEF x, y, n, m, len
<1>7. y.local = m + a
  <2> DEFINE p == before.local
             q == now.local
  <2>1. p \in Nat /\ q \in Nat /\ p + q = m /\ y.local = p + (q + a)
    BY <1>1, <1>2, <1>3, <1>4
  <2> HIDE DEF p, q
  <2>2. p + (q + a) = (p + q) + a
    BY <2>1
  <2> QED BY <2>1, <2>2
<1>8. y.eager = (n + a + b) - (m + a)
  <2> DEFINE p == before.eager
             q == now.eager
  <2>1. p \in Nat /\ q \in Nat /\ p + q = n - m /\ y.eager = p + (q + b)
    BY <1>1, <1>2, <1>3, <1>4
  <2> HIDE DEF p, q
  <2>2. p + (q + b) = (p + q) + b
    BY <2>1
  <2>3. (n - m) + b = (n + a + b) - (m + a)
    BY <1>5
  <2> QED BY <2>1, <2>2, <2>3
<1>9. y.creations = len + k
  <2> DEFINE p == before.creations
             q == now.creations
  <2>1. p \in Nat /\ q \in Nat /\ p + q = len /\ y.creations = p + (q + k)
    BY <1>1, <1>2, <1>3, <1>4
  <2> HIDE DEF p, q
  <2>2. p + (q + k) = (p + q) + k
    BY <2>1
  <2> QED BY <2>1, <2>2
<1>10. Tallied(d, y)
  BY <1>6, <1>7, <1>8, <1>9 DEF Tallied
<1> QED BY <1>10 DEF y

LEMMA GenerateTallied ==
    ASSUME NEW c, CompressorInv(c), NEW before \in Stats, NEW now \in Stats,
           Tallied(c, Sum(before, now)),
           NEW d, d = GenerateNextId(c), NEW after, after = StatsAfterGenerate(c, now)
    PROVE  /\ after \in Stats
           /\ after.creations = now.creations /\ after.expansions = now.expansions
           /\ Tallied(d, Sum(before, after))
<1> DEFINE n == c.generatedIdCount
           m == Cardinality(c.normalizer)
           len == Len(c.clusters)
<1>1. n \in Nat /\ m \in Nat /\ len \in Nat /\ IsFiniteSet(c.normalizer)
  BY CompressorFacts, LocalsAreFinite
<1>2. /\ now.eager \in Nat /\ now.local \in Nat /\ now.expansions \in Nat /\ now.creations \in Nat
  BY DEF Stats
<1>3. now.creations = now.creations + 0 /\ m = m + 0 /\ len = len + 0
      /\ n + 1 = n + 0 + 1 /\ n + 1 = n + 1 + 0
      /\ now.local = now.local + 0 /\ now.eager = now.eager + 0
  BY <1>1, <1>2
<1>4. d.generatedIdCount = n + 1 /\ d.clusters = c.clusters
  BY GenerateEffect
<1>5. d.normalizer = IF IsNextEager(c) THEN c.normalizer ELSE c.normalizer \cup {NextId(c)}
  BY CompressorFacts DEF GenerateNextId, Compressors
<1>6. CASE IsNextEager(c)
  <2>1. /\ after \in Stats /\ after.eager = now.eager + 1 /\ after.local = now.local
        /\ after.expansions = now.expansions /\ after.creations = now.creations
    BY <1>2, <1>6 DEF StatsAfterGenerate, Stats
  <2>2. /\ after.local = now.local + 0 /\ after.creations = now.creations + 0
        /\ Cardinality(d.normalizer) = Cardinality(c.normalizer) + 0
        /\ d.generatedIdCount = c.generatedIdCount + 0 + 1
        /\ Len(d.clusters) = Len(c.clusters) + 0
    BY <1>3, <1>4, <1>5, <1>6, <2>1
  <2>3. Tallied(d, Sum(before, after))
    BY <1>1, <2>1, <2>2, TalliedAfter
  <2> QED BY <2>1, <2>3
<1>7. CASE ~IsNextEager(c)
  <2>1. /\ after \in Stats /\ after.local = now.local + 1 /\ after.eager = now.eager
        /\ after.expansions = now.expansions /\ after.creations = now.creations
    BY <1>2, <1>7 DEF StatsAfterGenerate, Stats
  <2>2. NextId(c) = -(n + 1)
    BY <1>7 DEF NextId, NextGenCount
  <2>3. NextId(c) \notin c.normalizer
    BY <1>1, <2>2 DEF CompressorInv
  <2>4. Cardinality(d.normalizer) = m + 1
    BY <1>1, <1>5, <1>7, <2>3, FS_AddElement
  <2>5. /\ after.eager = now.eager + 0 /\ after.creations = now.creations + 0
        /\ d.generatedIdCount = c.generatedIdCount + 1 + 0
        /\ Len(d.clusters) = Len(c.clusters) + 0
    BY <1>3, <1>4, <2>1
  <2>6. Tallied(d, Sum(before, after))
    BY <1>1, <2>1, <2>4, <2>5, TalliedAfter
  <2> QED BY <2>1, <2>6
<1> QED BY <1>6, <1>7

LEMMA ResizedLength ==
    ASSUME NEW t \in Seq(Cluster), NEW i \in DOMAIN t, NEW capacity, NEW count
    PROVE  /\ Len(Resize(t, i, capacity, count)) = Len(t)
           /\ \A c : Len(Append(Resize(t, i, capacity, count), c)) = Len(t) + 1
<1> DEFINE new == [t[i] EXCEPT !.capacity = capacity, !.count = count]
           u == Resize(t, i, capacity, count)
           n == Len(t)
<1>1. n \in Nat /\ DOMAIN t = 1..n /\ i \in 1..n /\ \A j \in 1..n : t[j] \in Cluster
  OBVIOUS
<1>2. u = [t EXCEPT ![i] = new]
  BY <1>1 DEF Resize
<1>3. u \in [1..n -> Cluster \cup {new}]
  BY <1>1, <1>2
<1> HIDE DEF u, new
<1>4. u \in Seq(Cluster \cup {new}) /\ Len(u) = n
  BY <1>1, <1>3
<1>5. ASSUME NEW c PROVE Len(Append(u, c)) = n + 1
  <2>1. u \in Seq((Cluster \cup {new}) \cup {c})
    BY <1>4
  <2> QED BY <1>4, <2>1
<1> QED BY <1>4, <1>5 DEF u

(* A claim adds a cluster exactly if a creation is counted. *)
LEMMA ClaimTallied ==
    ASSUME NEW c, CompressorInv(c), NEW r \in Ranges, FinalizeResult(c, r) = "Ok",
           NEW before \in Stats, NEW now \in Stats, Tallied(c, Sum(before, now)),
           NEW d, d.clusters = Claim(c.clusters, r, c.clusterCapacity),
           d.normalizer = c.normalizer, d.generatedIdCount = c.generatedIdCount,
           NEW after, after = StatsAfterClaim(c, now, r)
    PROVE  after \in Stats /\ Tallied(d, Sum(before, after))
<1> DEFINE t == c.clusters
           capacity == c.clusterCapacity
           n == Len(t)
<1>1. /\ TableInv(t) /\ t \in Seq(Cluster) /\ n \in Nat /\ r.session \in Sessions
      /\ c.generatedIdCount \in Nat /\ Cardinality(c.normalizer) \in Nat
  BY CompressorFacts, LocalsAreFinite DEF Ranges
<1>2. Chain(t, r.session) # {} => TailIndex(t, r.session) \in DOMAIN t
  BY <1>1, TailIndexIsTail
<1>3. now.eager \in Nat /\ now.local \in Nat /\ now.expansions \in Nat /\ now.creations \in Nat
  BY DEF Stats
<1>4. /\ Cardinality(d.normalizer) = Cardinality(c.normalizer) + 0
      /\ d.generatedIdCount = c.generatedIdCount + 0 + 0
      /\ now.eager = now.eager + 0 /\ now.local = now.local + 0
  BY <1>1, <1>3
<1>5. ASSUME NEW more \in {0, 1}, Len(d.clusters) = n + more, after \in Stats,
             after.creations = now.creations + more,
             after.eager = now.eager, after.local = now.local
      PROVE  Tallied(d, Sum(before, after))
  <2>1. /\ after.eager = now.eager + 0 /\ after.local = now.local + 0
        /\ Len(d.clusters) = Len(c.clusters) + more /\ more \in Nat
    BY <1>4, <1>5
  <2> QED BY <1>1, <1>4, <1>5, <2>1, TalliedAfter
<1> HIDE DEF t, capacity
<1>6. CASE Chain(t, r.session) = {}
  <2>1. Len(d.clusters) = n + 1
    BY <1>1, <1>6 DEF Claim, ClaimFirstCluster, t
  <2>2. after = [now EXCEPT !.creations = @ + 1]
    BY <1>6 DEF StatsAfterClaim, t
  <2>3. /\ after \in Stats /\ after.creations = now.creations + 1
        /\ after.eager = now.eager /\ after.local = now.local
    BY <1>3, <2>2 DEF Stats
  <2> QED BY <1>5, <2>1, <2>3
<1>7. CASE Chain(t, r.session) # {} /\ Remaining(t, r.session) >= r.len
  <2>1. Len(d.clusters) = n + 0
    BY <1>1, <1>2, <1>7, ResizedLength DEF Claim, FillTail, t
  <2>2. after = now
    BY <1>7 DEF StatsAfterClaim, t
  <2> QED BY <1>3, <1>5, <2>1, <2>2
<1>8. CASE /\ Chain(t, r.session) # {} /\ ~(Remaining(t, r.session) >= r.len)
           /\ TailIsLast(t, r.session)
  <2>1. Len(d.clusters) = n + 0
    BY <1>1, <1>2, <1>8, ResizedLength DEF Claim, ExpandTail, t
  <2>2. after = [now EXCEPT !.expansions = @ + 1]
    BY <1>8 DEF StatsAfterClaim, t
  <2>3. /\ after \in Stats /\ after.creations = now.creations + 0
        /\ after.eager = now.eager /\ after.local = now.local
    BY <1>3, <2>2 DEF Stats
  <2> QED BY <1>5, <2>1, <2>3
<1>9. CASE /\ Chain(t, r.session) # {} /\ ~(Remaining(t, r.session) >= r.len)
           /\ ~TailIsLast(t, r.session)
  <2>1. Len(d.clusters) = n + 1
    BY <1>1, <1>2, <1>9, ResizedLength DEF Claim, OverflowToNew, t
  <2>2. after = [now EXCEPT !.creations = @ + 1]
    BY <1>9 DEF StatsAfterClaim, t
  <2>3. /\ after \in Stats /\ after.creations = now.creations + 1
        /\ after.eager = now.eager /\ after.local = now.local
    BY <1>3, <2>2 DEF Stats
  <2> QED BY <1>5, <2>1, <2>3
<1> QED BY <1>6, <1>7, <1>8, <1>9
-----------------------------------------------------------------------------
(* The invariant: of the compressor and what the application has of it, of
   the counters, and of the cache.                                         *)
CoreInv ==
    /\ CompressorInv(compressor)
    /\ compressor.sessionId = LocalSession
    /\ compressor.generatedIdCount <= MaxGenerated
    /\ sent \in Seq([first : Nat, count : Nat])
    /\ issued \in Seq(Int)
    /\ IssuedInv /\ SentInv

CountersInv ==
    /\ stats \in Stats /\ counted \in Stats
    /\ stats.creations = 0 /\ stats.expansions = 0
    /\ Tallied(compressor, Sum(counted, stats))

IInv == CoreInv /\ CountersInv /\ Cache!IInv

LEMMA IInvMeans == IInv => WrapperInv
<1> SUFFICES ASSUME IInv PROVE WrapperInv
  OBVIOUS
<1>1. Tokens!TypeOK /\ TokensCurrent /\ LastUsedIsCached /\ CacheBounded
  BY CacheIsWrapped DEF IInv
<1>2. TypeOK
  BY <1>1, CompressorFacts DEF IInv, CoreInv, CountersInv, TypeOK
<1>3. StatsAddUp
  BY DEF IInv, CountersInv, StatsAddUp, Tallied
<1> QED BY <1>1, <1>2, <1>3 DEF IInv, CoreInv, WrapperInv

(* No step but generating gives an ID. *)
LEMMA CoreKept ==
    ASSUME CoreInv, NEW d, compressor' = d, CompressorInv(d), Extends(compressor, d),
           d.generatedIdCount = compressor.generatedIdCount,
           UNCHANGED issued, sent' \in Seq([first : Nat, count : Nat]),
           \A i \in DOMAIN sent' :
              /\ sent'[i].first # 0
              /\ sent'[i].first + sent'[i].count <= compressor.generatedIdCount + 1
    PROVE  CoreInv'
<1>1. d.sessionId = LocalSession
  BY DEF CoreInv, Extends
<1>2. issued \in Seq(Int) /\ Len(issued) = compressor.generatedIdCount
      /\ DOMAIN issued = 1..compressor.generatedIdCount
  BY DEF CoreInv, IssuedInv
<1>3. ASSUME NEW g \in DOMAIN issued PROVE IsNumberOf(d, g, issued[g])
  BY <1>2, <1>3, NumbersStay DEF CoreInv, IssuedInv
<1>4. IssuedInv'
  BY <1>2, <1>3 DEF IssuedInv
<1>5. SentInv'
  BY DEF SentInv
<1> QED BY <1>1, <1>2, <1>4, <1>5 DEF CoreInv

(* A range on its way is one that was generated. *)
LEMMA SentRange ==
    ASSUME CoreInv, NEW i \in DOMAIN sent
    PROVE  /\ sent[i] \in [first : Nat, count : Nat]
           /\ sent[i].first \in Nat /\ sent[i].count \in Nat
           /\ sent[i].first # 0
           /\ sent[i].first + sent[i].count <= compressor.generatedIdCount + 1
<1> DEFINE Sendable == [first : Nat, count : Nat]
<1>1. sent \in Seq(Sendable) /\ SentInv
  BY DEF CoreInv
<1> HIDE DEF Sendable
<1>2. sent[i] \in Sendable
  BY <1>1
<1>3. sent[i].first \in Nat /\ sent[i].count \in Nat
  BY <1>2 DEF Sendable
<1>4. sent[i].first # 0 /\ sent[i].first + sent[i].count <= compressor.generatedIdCount + 1
  BY <1>1, ZenonT(30) DEF SentInv
<1> QED BY <1>2, <1>3, <1>4 DEF Sendable

LEMMA SentKept ==
    ASSUME CoreInv, UNCHANGED sent
    PROVE  /\ sent' \in Seq([first : Nat, count : Nat])
           /\ \A i \in DOMAIN sent' :
                 /\ sent'[i].first # 0
                 /\ sent'[i].first + sent'[i].count <= compressor.generatedIdCount + 1
BY SentRange DEF CoreInv

(* What counts neither IDs nor clusters leaves the counters right. *)
LEMMA CountersKept ==
    ASSUME CountersInv, NEW d, compressor' = d,
           d.generatedIdCount = compressor.generatedIdCount,
           d.normalizer = compressor.normalizer, d.clusters = compressor.clusters,
           UNCHANGED <<stats, counted>>
    PROVE  CountersInv'
BY DEF CountersInv, Tallied

LEMMA ReportKeeps ==
    ASSUME CountersInv, NEW after \in Stats, Report(after),
           Tallied(compressor', Sum(counted, after))
    PROVE  CountersInv'
<1>1. counted' = Sum(counted, after) /\ stats' = EmptyStats
  BY DEF Report
<1>2. counted' \in Stats
  BY <1>1, SumOf DEF CountersInv
<1>3. Sum(counted', stats') = Sum(counted, after)
  BY <1>1, SumHandedOut DEF CountersInv
<1> QED BY <1>1, <1>2, <1>3, EmptyStatsType DEF CountersInv

-----------------------------------------------------------------------------
(* Each action keeps it. *)

LEMMA InitHolds == Init => IInv
<1> SUFFICES ASSUME Init PROVE IInv
  OBVIOUS
<1> DEFINE c == NewCompressor(LocalSession)
<1>1. compressor = c /\ stats = EmptyStats /\ counted = EmptyStats /\ sent = <<>> /\ issued = <<>>
  BY DEF Init
<1>2. /\ CompressorInv(c) /\ c.sessionId = LocalSession /\ c.generatedIdCount = 0
      /\ c.clusters = <<>> /\ c.normalizer = {}
  BY WrapperAssumption, NewCompressorInv
<1> HIDE DEF c
<1>3. CoreInv
  <2>1. Len(issued) = 0 /\ DOMAIN issued = {} /\ DOMAIN sent = {}
    BY <1>1
  <2>2. IssuedInv /\ SentInv
    BY <1>1, <1>2, <2>1 DEF IssuedInv, SentInv
  <2>3. 0 <= MaxGenerated
    BY WrapperAssumption
  <2>4. sent \in Seq([first : Nat, count : Nat]) /\ issued \in Seq(Int)
    BY <1>1
  <2> QED BY <1>1, <1>2, <2>2, <2>3, <2>4 DEF CoreInv
<1>4. CountersInv
  <2> DEFINE x == Sum(counted, stats)
  <2>1. /\ x.eager = 0 + 0 /\ x.local = 0 + 0 /\ x.creations = 0 + 0
    BY <1>1, EmptyStatsType, SumOf
  <2> HIDE DEF x
  <2>2. Cardinality(c.normalizer) = 0 /\ Len(c.clusters) = 0
    BY <1>2, FS_EmptySet
  <2>3. Tallied(c, x)
    BY <1>2, <2>1, <2>2 DEF Tallied
  <2> QED BY <1>1, <2>3, EmptyStatsType DEF CountersInv, x
<1>5. Cache!IInv
  BY CacheBegins
<1> QED BY <1>3, <1>4, <1>5 DEF IInv

LEMMA GenerateKeeps ==
    ASSUME IInv, Generate
    PROVE  IInv'
<1> DEFINE c == compressor
           n == c.generatedIdCount
           x == NextIdNumber(c)
           d == GenerateNextId(c)
<1>1. /\ n < MaxGenerated /\ compressor' = d /\ stats' = StatsAfterGenerate(c, stats)
      /\ issued' = Append(issued, x)
      /\ UNCHANGED <<counted, cache, trapped, sent>>
  BY DEF Generate
<1>2. /\ CompressorInv(d) /\ Extends(c, d) /\ NextId(c) \in Int
      /\ Issued(d, d.generatedIdCount, NextId(c))
      /\ d.sessionId = c.sessionId /\ d.generatedIdCount = n + 1 /\ d.sessions = c.sessions
  BY GenerateEffect DEF IInv, CoreInv
<1>3. n \in Nat /\ MaxGenerated \in Nat /\ CompressorInv(c) /\ c.sessionId = LocalSession
  BY CompressorFacts, WrapperAssumption DEF IInv, CoreInv
<1>4. x \in Int /\ IsNumberOf(d, n + 1, x)
  BY <1>2, AsF64Type, NumbersOfIssued DEF NextIdNumber
<1> HIDE DEF d, x
<1>5. issued \in Seq(Int) /\ Len(issued) = n
      /\ \A g \in 1..n : IsNumberOf(c, g, issued[g])
  BY DEF IInv, CoreInv, IssuedInv
<1>6. /\ issued' \in Seq(Int) /\ Len(issued') = n + 1
      /\ \A g \in 1..n : issued'[g] = issued[g]
      /\ issued'[n + 1] = x
  BY <1>1, <1>4, <1>5, AppendProperties
<1>7. IssuedInv'
  <2>1. ASSUME NEW g \in 1..(n + 1) PROVE IsNumberOf(d, g, issued'[g])
    <3>1. CASE g = n + 1
      BY <1>4, <1>6, <3>1
    <3>2. CASE g # n + 1
      <4>1. g \in 1..n
        BY <1>3, <3>2
      <4> QED BY <1>2, <1>3, <1>5, <1>6, <4>1, NumbersStay
    <3> QED BY <3>1, <3>2
  <2>2. DOMAIN issued' = 1..(n + 1)
    BY <1>6
  <2> QED BY <1>1, <1>2, <1>6, <2>1, <2>2 DEF IssuedInv
<1>8. SentInv'
  <2>1. ASSUME NEW i \in DOMAIN sent
        PROVE  sent[i].first # 0 /\ sent[i].first + sent[i].count <= n + 1 + 1
    <3>1. /\ sent[i].first \in Nat /\ sent[i].count \in Nat
          /\ sent[i].first # 0 /\ sent[i].first + sent[i].count <= n + 1
      BY SentRange DEF IInv
    <3> QED BY <1>3, <3>1
  <2> QED BY <1>1, <1>2, <2>1 DEF SentInv
<1>9. CoreInv'
  <2>1. n + 1 <= MaxGenerated
    BY <1>1, <1>3
  <2>2. sent' \in Seq([first : Nat, count : Nat])
    BY <1>1 DEF IInv, CoreInv
  <2> QED BY <1>1, <1>2, <1>3, <1>6, <1>7, <1>8, <2>1, <2>2 DEF CoreInv
<1>10. CountersInv'
  <2>1. /\ stats' \in Stats
        /\ stats'.creations = stats.creations /\ stats'.expansions = stats.expansions
        /\ Tallied(d, Sum(counted, stats'))
    BY <1>1, <1>3, GenerateTallied DEF IInv, CountersInv, d
  <2> QED BY <1>1, <2>1 DEF IInv, CountersInv
<1>11. Cache!IInv'
  BY <1>1, <1>2, CacheUndisturbed DEF IInv
<1> QED BY <1>9, <1>10, <1>11 DEF IInv

LEMMA TakeKeeps ==
    ASSUME CountsExact, IInv, Take
    PROVE  IInv'
<1> DEFINE c == compressor
           n == c.generatedIdCount
           base == c.nextRangeBase
           len == UntakenCount(c)
           d == TakeNextRange(c)
           x == NextRangeNumbers(c)
<1>1. /\ len # 0 /\ compressor' = d /\ sent' = Append(sent, x)
      /\ UNCHANGED <<stats, counted, cache, trapped, issued>>
  BY DEF Take
<1>2. /\ CompressorInv(d) /\ Extends(c, d)
      /\ d.generatedIdCount = n /\ d.sessions = c.sessions
      /\ d.clusters = c.clusters /\ d.normalizer = c.normalizer
      /\ NextRange(c) \in Ranges /\ NextRange(c).base = base /\ NextRange(c).len = len
      /\ base + len = n + 1
  BY TakeEffect DEF IInv, CoreInv
<1>3. base \in Nat /\ base > 0 /\ len \in Nat
  BY <1>2 DEF Ranges, Positive
<1>4. n \in Nat /\ n <= ExactLimit /\ ExactLimit \in Nat
  <2>1. /\ n \in Nat /\ MaxGenerated \in Nat /\ ExactLimit \in Nat
        /\ n <= MaxGenerated /\ MaxGenerated <= ExactLimit
    BY CompressorFacts, AdapterAssumption, WrapperAssumption DEF IInv, CoreInv, CountsExact
  <2> HIDE DEF n
  <2> QED BY <2>1
<1> HIDE DEF d, len, base, n
<1>5. base <= ExactLimit /\ len <= ExactLimit /\ -ExactLimit <= base /\ -ExactLimit <= len
  BY <1>1, <1>2, <1>3, <1>4
<1>6. x.first = base /\ x.count = len
  BY <1>2, <1>3, <1>5, ExactAsF64 DEF NextRangeNumbers
<1>7. x \in [first : Nat, count : Nat]
  BY <1>3, <1>6 DEF NextRangeNumbers
<1> HIDE DEF x
<1>8. sent \in Seq([first : Nat, count : Nat])
  BY DEF IInv, CoreInv
<1>9. /\ sent' \in Seq([first : Nat, count : Nat]) /\ Len(sent') = Len(sent) + 1
      /\ \A i \in 1..Len(sent) : sent'[i] = sent[i]
      /\ sent'[Len(sent) + 1] = x
  BY <1>1, <1>7, <1>8, AppendProperties
<1>10. ASSUME NEW i \in DOMAIN sent'
       PROVE  sent'[i].first # 0 /\ sent'[i].first + sent'[i].count <= n + 1
  <2>1. CASE i = Len(sent) + 1
    <3>1. base + len <= n + 1
      BY <1>2, <1>3, <1>4
    <3>2. sent'[i] = x /\ base # 0
      BY <1>3, <1>9, <2>1
    <3> QED BY <1>6, <3>1, <3>2
  <2>2. CASE i # Len(sent) + 1
    <3>1. i \in 1..Len(sent)
      BY <1>8, <1>9, <2>2
    <3>2. i \in DOMAIN sent
      BY <1>8, <3>1
    <3> QED BY <1>9, <3>1, <3>2, SentRange DEF IInv, n
  <2> QED BY <2>1, <2>2
<1>11. CoreInv'
  BY <1>1, <1>2, <1>9, <1>10, CoreKept DEF IInv, n
<1>12. CountersInv'
  BY <1>1, <1>2, CountersKept DEF IInv, n
<1>13. Cache!IInv'
  BY <1>1, <1>2, CacheUndisturbed DEF IInv
<1> QED BY <1>11, <1>12, <1>13 DEF IInv

(* A finalization that is acceptable: by a number that is right, of a range
   whose IDs were generated if it is the client's own.                     *)
LEMMA FinalizeKeeps ==
    ASSUME IInv, ~trapped, NEW s \in Sessions, NEW first \in Positive, NEW count \in Nat,
           s = LocalSession => first + count <= compressor.generatedIdCount + 1,
           FinalizeCreationRange(s, first, count),
           sent' \in Seq([first : Nat, count : Nat]),
           \A i \in DOMAIN sent' :
              /\ sent'[i].first # 0
              /\ sent'[i].first + sent'[i].count <= compressor.generatedIdCount + 1
    PROVE  IInv'
<1> DEFINE c == compressor
           r == [session |-> s, base |-> first, len |-> count]
           d == FinalizeRange(c, r)
<1>1. AsU64(first) = first /\ AsU64(count) = count
  BY IntegerCasts DEF Positive
<1>2. RangeOfNumbers(ToUuid(s), first, count) = {r}
  BY <1>1, SessionUuids DEF RangeOfNumbers
<1>3. /\ compressor' = d /\ Tokens!Forget(s) /\ UNCHANGED <<trapped, issued>>
      /\ IF FinalizeResult(c, r) = "Ok" THEN Report(StatsAfterClaim(c, stats, r))
         ELSE UNCHANGED <<stats, counted>>
  BY <1>2 DEF FinalizeCreationRange
<1>4. r \in Ranges /\ r.session = s /\ r.base = first /\ r.len = count
  BY DEF Ranges
<1>5. CompressorInv(c) /\ c.sessionId = LocalSession
  BY DEF IInv, CoreInv
<1>6. c \in Compressors
  BY <1>5, CompressorFacts
<1>7. \/ d.sessions = c.sessions
      \/ s \notin Known(c) /\ d.sessions = Append(c.sessions, s)
  <2>1. d.sessions = c.sessions \/ d.sessions = GetOrCreate(c.sessions, s)
    BY <1>4, <1>6 DEF FinalizeRange, Compressors
  <2> QED BY <2>1 DEF GetOrCreate, Known
<1> HIDE DEF r
<1>8. /\ CompressorInv(d) /\ Extends(c, d)
      /\ d.generatedIdCount = c.generatedIdCount /\ d.normalizer = c.normalizer
      /\ FinalizeResult(c, r) = "Ok" => d.clusters = Claim(c.clusters, r, c.clusterCapacity)
      /\ FinalizeResult(c, r) # "Ok" => d.clusters = c.clusters
  BY <1>4, <1>5, FinalizeEffect
<1> HIDE DEF d
<1>9. CoreInv'
  BY <1>3, <1>8, CoreKept DEF IInv
<1>10. CASE FinalizeResult(c, r) = "Ok"
  <2> DEFINE after == StatsAfterClaim(c, stats, r)
  <2>1. CountersInv
    BY DEF IInv
  <2>2. after \in Stats /\ Tallied(d, Sum(counted, after))
    BY <1>4, <1>5, <1>8, <1>10, <2>1, ClaimTallied DEF CountersInv
  <2>3. Report(after)
    BY <1>3, <1>10
  <2>4. CountersInv'
    BY <1>3, <2>1, <2>2, <2>3, ReportKeeps
  <2> QED BY <1>3, <1>7, <1>9, <2>4, CacheFinalizes DEF IInv
<1>11. CASE FinalizeResult(c, r) # "Ok"
  <2>1. CountersInv'
    BY <1>3, <1>8, <1>11, CountersKept DEF IInv
  <2> QED BY <1>3, <1>7, <1>9, <2>1, CacheFinalizes DEF IInv
<1> QED BY <1>10, <1>11

LEMMA FinalizeOwnKeeps ==
    ASSUME IInv, ~trapped, FinalizeOwn
    PROVE  IInv'
<1> DEFINE x == Head(sent)
           n == compressor.generatedIdCount
<1>1. sent # <<>> /\ FinalizeCreationRange(LocalSession, x.first, x.count) /\ sent' = Tail(sent)
  BY DEF FinalizeOwn
<1>2. sent \in Seq([first : Nat, count : Nat])
  BY DEF IInv, CoreInv
<1>3. x = sent[1] /\ 1 \in DOMAIN sent
  BY <1>1, <1>2
<1>4. x \in [first : Nat, count : Nat] /\ x.first # 0 /\ x.first + x.count <= n + 1
  BY <1>3, SentRange DEF IInv
<1>5. x.first \in Positive /\ x.count \in Nat
  BY <1>4 DEF Positive
<1>6. /\ sent' \in Seq([first : Nat, count : Nat])
      /\ \A i \in DOMAIN sent' : i + 1 \in DOMAIN sent /\ sent'[i] = sent[i + 1]
  BY <1>1, <1>2
<1>7. ASSUME NEW i \in DOMAIN sent'
      PROVE  sent'[i].first # 0 /\ sent'[i].first + sent'[i].count <= n + 1
  <2>1. i + 1 \in DOMAIN sent /\ sent'[i] = sent[i + 1]
    BY <1>6
  <2> QED BY <2>1, SentRange DEF IInv
<1> HIDE DEF x
<1> QED BY <1>1, <1>4, <1>5, <1>6, <1>7, WrapperAssumption, FinalizeKeeps

LEMMA FinalizeOtherKeeps ==
    ASSUME IInv, ~trapped, FinalizeOther
    PROVE  IInv'
<1>1. PICK r \in RemoteRanges : FinalizeCreationRange(r.session, r.first, r.count)
  BY DEF FinalizeOther
<1>2. /\ r.session \in Sessions /\ r.session # LocalSession
      /\ r.first \in Positive /\ r.count \in Nat
  BY WrapperAssumption
<1>3. UNCHANGED sent
  BY DEF FinalizeOther
<1> QED BY <1>1, <1>2, <1>3, SentKept, FinalizeKeeps DEF IInv

(* Steps that leave the compressor and the counters. *)
LEMMA AsideKeeps ==
    ASSUME IInv, UNCHANGED <<compressor, stats, counted, sent, issued>>
    PROVE  CoreInv' /\ CountersInv'
BY DEF IInv, CoreInv, CountersInv, Tallied, IssuedInv, SentInv

LEMMA FinalizeNothingKeeps ==
    ASSUME IInv, ~trapped, FinalizeNothing
    PROVE  IInv'
<1>1. PICK s \in Sessions : Tokens!Forget(s)
  BY DEF FinalizeNothing
<1>2. UNCHANGED <<compressor, stats, counted, trapped, sent, issued>>
  BY DEF FinalizeNothing
<1>3. Cache!IInv'
  BY <1>1, <1>2, CacheFinalizes DEF IInv
<1> QED BY <1>2, <1>3, AsideKeeps DEF IInv

LEMMA SetCapacityKeeps ==
    ASSUME IInv, SetCapacity
    PROVE  IInv'
<1> DEFINE c == compressor
<1>1. PICK number \in CapacityNumbers : compressor' = SetClusterCapacityNumber(c, number)
  BY DEF SetCapacity
<1>2. UNCHANGED <<stats, counted, cache, trapped, sent, issued>>
  BY DEF SetCapacity
<1>3. CompressorInv(c)
  BY DEF IInv, CoreInv
<1>4. CASE compressor' = c
  <2>1. CoreInv' /\ CountersInv'
    BY <1>2, <1>4, AsideKeeps
  <2> QED BY <1>2, <1>4, <2>1, CacheUndisturbed DEF IInv
<1>5. CASE compressor' # c
  <2>1. number \in Int /\ number >= 0 /\ number # 0 /\ compressor' = SetClusterCapacity(c, AsU64(number))
    BY <1>1, <1>5 DEF SetClusterCapacityNumber
  <2>2. number \in Positive /\ AsU64(number) = number
    BY <2>1, IntegerCasts DEF Positive
  <2> DEFINE d == SetClusterCapacity(c, number)
  <2>3. /\ CompressorInv(d) /\ Extends(c, d) /\ d.generatedIdCount = c.generatedIdCount
        /\ d.sessions = c.sessions /\ d.clusters = c.clusters /\ d.normalizer = c.normalizer
    BY <1>3, <2>2, SetCapacityEffect
  <2>4. compressor' = d
    BY <2>1, <2>2
  <2> HIDE DEF d
  <2>5. CoreInv'
    BY <1>2, <2>3, <2>4, SentKept, CoreKept DEF IInv
  <2>6. CountersInv'
    BY <1>2, <2>3, <2>4, CountersKept DEF IInv
  <2> QED BY <1>2, <2>3, <2>4, <2>5, <2>6, CacheUndisturbed DEF IInv
<1> QED BY <1>4, <1>5

LEMMA NormalizeKeeps ==
    ASSUME IInv, Normalize
    PROVE  IInv'
<1>1. UNCHANGED <<compressor, stats, counted, sent, issued>>
  BY DEF Normalize
<1>2. PICK origin \in Sessions, kind \in Tokens!IdKinds :
          Tokens!NormalizeToSessionSpace(origin, kind)
  BY DEF Normalize
<1>3. Cache!IInv'
  BY <1>2, CacheAsked DEF IInv
<1> QED BY <1>1, <1>3, AsideKeeps DEF IInv

(* Closing and opening again gives back the very compressor. *)
LEMMA ReopenKeeps ==
    ASSUME CountsExact, IInv, Reopen
    PROVE  IInv'
<1> DEFINE c == compressor
           words == SerializeWithLocal(c)
<1>1. CompressorInv(c) /\ c.sessionId = LocalSession /\ c.sessionId < StableLimit
  BY WrapperAssumption DEF IInv, CoreInv
<1>2. IndexFits(c)
  BY <1>1, IndicesFit DEF CountsExact
<1>3. Deserialize(words, LocalSession) = {c}
  BY <1>1, <1>2, LocalStateLoads
<1>4. DeserializeFor(words, ToUuid(LocalSession)) = Deserialize(words, LocalSession)
  BY SessionUuids, WrapperAssumption DEF DeserializeFor
<1>5. /\ compressor' \in DeserializeFor(words, ToUuid(LocalSession))
      /\ stats' = EmptyStats /\ counted' = Sum(counted, stats)
      /\ sessionTokens' = <<>> /\ lastUsedSessionId' = NoSession /\ lastUsedToken' = NilToken
      /\ UNCHANGED <<trapped, sent, issued>>
  BY DEF Reopen
<1>6. compressor' = c
  BY <1>3, <1>4, <1>5
<1> HIDE DEF words
<1>7. CoreInv'
  BY <1>5, <1>6 DEF IInv, CoreInv, IssuedInv, SentInv
<1>8. CountersInv'
  BY <1>5, <1>6, ReportKeeps DEF IInv, CountersInv, Report
<1>9. Cache!IInv'
  BY <1>5, <1>6, CacheEmptied DEF IInv
<1> QED BY <1>7, <1>8, <1>9 DEF IInv

LEMMA Stutters ==
    ASSUME IInv, UNCHANGED vars
    PROVE  IInv'
<1>1. UNCHANGED <<compressor, stats, counted, sent, issued>> /\ UNCHANGED cache /\ UNCHANGED trapped
  BY DEF vars
<1> QED BY <1>1, AsideKeeps, CacheUndisturbed DEF IInv

LEMMA IInvHolds == CountsExact => (Spec => []IInv)
<1> SUFFICES ASSUME CountsExact PROVE Spec => []IInv
  OBVIOUS
<1>1. IInv /\ [Next]_vars => IInv'
  <2> SUFFICES ASSUME IInv, [Next]_vars PROVE IInv'
    OBVIOUS
  <2>1. CASE Next
    <3>1. ~trapped
      BY <2>1 DEF Next
    <3>2. CASE Generate
      BY <3>2, GenerateKeeps
    <3>3. CASE Take
      BY <3>3, TakeKeeps
    <3>4. CASE FinalizeOwn
      BY <3>1, <3>4, FinalizeOwnKeeps
    <3>5. CASE FinalizeOther
      BY <3>1, <3>5, FinalizeOtherKeeps
    <3>6. CASE FinalizeNothing
      BY <3>1, <3>6, FinalizeNothingKeeps
    <3>7. CASE SetCapacity
      BY <3>7, SetCapacityKeeps
    <3>8. CASE Normalize
      BY <3>8, NormalizeKeeps
    <3>9. CASE Reopen
      BY <3>9, ReopenKeeps
    <3> QED BY <2>1, <3>2, <3>3, <3>4, <3>5, <3>6, <3>7, <3>8, <3>9 DEF Next
  <2>2. CASE UNCHANGED vars
    BY <2>2, Stutters
  <2> QED BY <2>1, <2>2
<1> QED BY <1>1, InitHolds, PTL DEF Spec
-----------------------------------------------------------------------------
(* Theorems. *)

(* The inductive invariant of a client as its application sees it: through
   every conversion of the adapter, calls that fail and reopenings the
   compressor stays correct, each ID's number stays that of the ID, no range
   on its way names an ID that is yet to be generated.                     *)
THEOREM WrapperInvHolds == CountsExact => (Spec => []WrapperInv)
<1> SUFFICES ASSUME CountsExact PROVE Spec => []WrapperInv
  OBVIOUS
<1> QED BY IInvHolds, IInvMeans, PTL

(* A remembered token is what the compressor would answer, and stays so when
   compressors are closed and opened again (IdCompressor.ts:84-90).        *)
THEOREM TokensCurrentHolds == CountsExact => (Spec => []TokensCurrent)
<1> SUFFICES ASSUME CountsExact PROVE Spec => []TokensCurrent
  OBVIOUS
<1>1. WrapperInv => TokensCurrent
  BY DEF WrapperInv
<1> QED BY <1>1, WrapperInvHolds, PTL

(* The last originator is never outside the Map, where it would be missed. *)
THEOREM LastUsedIsCachedHolds == CountsExact => (Spec => []LastUsedIsCached)
<1> SUFFICES ASSUME CountsExact PROVE Spec => []LastUsedIsCached
  OBVIOUS
<1>1. WrapperInv => LastUsedIsCached
  BY DEF WrapperInv
<1> QED BY <1>1, WrapperInvHolds, PTL

(* The Map keeps its limit, with one entry to a session. *)
THEOREM CacheBoundedHolds == CountsExact => (Spec => []CacheBounded)
<1> SUFFICES ASSUME CountsExact PROVE Spec => []CacheBounded
  OBVIOUS
<1>1. WrapperInv => CacheBounded
  BY DEF WrapperInv
<1> QED BY <1>1, WrapperInvHolds, PTL

(* Telemetry counts every ID and every cluster once, as what it is, whatever
   calls fail and whenever the counters are handed out.                    *)
THEOREM StatsAddUpHolds == CountsExact => (Spec => []StatsAddUp)
<1> SUFFICES ASSUME CountsExact PROVE Spec => []StatsAddUp
  OBVIOUS
<1>1. WrapperInv => StatsAddUp
  BY DEF WrapperInv
<1> QED BY <1>1, WrapperInvHolds, PTL

-----------------------------------------------------------------------------
(* Answers by token. *)

LEMMA OrNaNOfOne ==
    ASSUME NEW id
    PROVE  OrNaN({id}) = AsF64(id)
<1>1. (CHOOSE x \in {id} : TRUE) = id
  OBVIOUS
<1> QED BY <1>1 DEF OrNaN

(* A token is an exact number, and the place of its session. *)
LEMMA TokenIsPlace ==
    ASSUME CountsExact, NEW c, CompressorInv(c), NEW s
    PROVE  /\ Token(c, s) \in Int /\ AsF64(Token(c, s)) = Token(c, s)
           /\ Token(c, s) # NilToken =>
                 /\ s \in Known(c) /\ Token(c, s) \in Nat
                 /\ Token(c, s) + 1 \in DOMAIN c.sessions
                 /\ c.sessions[Token(c, s) + 1] = s
                 /\ Token(c, s) = 0 <=> s = c.sessionId
<1> DEFINE list == c.sessions
           n == Len(list)
           token == Token(c, s)
<1>1. /\ list \in Seq(Sessions) /\ n \in Nat /\ DOMAIN list = 1..n
      /\ Distinct(list) /\ n >= 1 /\ list[1] = c.sessionId
  BY CompressorTypes DEF CompressorInv
<1>2. n <= Cardinality(Sessions)
  BY SessionsCounted DEF CountsExact, SessionsFit
<1>3. Cardinality(Sessions) \in Nat /\ Cardinality(Sessions) <= ExactLimit /\ ExactLimit \in Nat
  BY FS_CardinalityType, AdapterAssumption DEF CountsExact, SessionsFit
<1>4. CASE s \notin Known(c)
  <2>1. token = NilToken
    BY <1>4 DEF Token
  <2> HIDE DEF n
  <2>2. -ExactLimit <= -1 /\ -1 <= ExactLimit /\ -1 \in Int
    BY <1>1, <1>2, <1>3
  <2>3. AsF64(-1) = -1
    BY <2>2, ExactAsF64
  <2> QED BY <2>1, <2>2, <2>3 DEF NilToken
<1>5. CASE s \in Known(c)
  <2> DEFINE j == CHOOSE i \in DOMAIN list : list[i] = s
  <2>1. j \in DOMAIN list /\ list[j] = s
    BY <1>5 DEF Known, Elements
  <2>2. token = j - 1
    BY <1>5 DEF Token
  <2> HIDE DEF j, list, n, token
  <2>3. j \in 1..n
    BY <1>1, <2>1
  <2>4. token \in Nat /\ token + 1 = j /\ token <= ExactLimit /\ -ExactLimit <= token
    BY <1>1, <1>2, <1>3, <2>2, <2>3
  <2>5. AsF64(token) = token
    BY <2>4, ExactAsF64
  <2>6. token = 0 <=> s = c.sessionId
    <3>1. j = 1 => s = c.sessionId
      BY <1>1, <2>1
    <3>2. s = c.sessionId => j = 1
      <4>1. 1 \in DOMAIN list
        BY <1>1
      <4> QED BY <1>1, <2>1, <4>1 DEF Distinct
    <3>3. token = 0 <=> j = 1
      BY <2>2, <2>3
    <3> QED BY <3>1, <3>2, <3>3
  <2> QED BY <1>5, <2>1, <2>4, <2>5, <2>6 DEF list, token
<1> QED BY <1>4, <1>5

(* Whichever way it gets it, the wrapper has the session's token. *)
LEMMA TokenForIsToken ==
    ASSUME CountsExact, WrapperInv, NEW origin \in Sessions, NEW token \in TokenFor(origin)
    PROVE  token = Token(compressor, origin)
<1>1. /\ \A i \in DOMAIN sessionTokens :
             sessionTokens[i].token = Tokens!GetToken(sessionTokens[i].session)
      /\ lastUsedSessionId # NoSession => lastUsedToken = Tokens!GetToken(lastUsedSessionId)
  BY DEF WrapperInv, TokensCurrent, Tokens!RememberedTokensCurrent
<1>2. Tokens!GetToken(origin) = Token(compressor, origin)
  BY DEF Tokens!GetToken, Tokens!TokenIn, Tokens!Known, Tokens!NilToken, Token, Known, Elements, NilToken
<1>3. CASE origin = lastUsedSessionId
  <2>1. lastUsedSessionId # NoSession
    BY <1>3, WrapperAssumption
  <2>2. token = lastUsedToken
    BY <1>3 DEF TokenFor
  <2> QED BY <1>1, <1>2, <1>3, <2>1, <2>2
<1>4. CASE origin # lastUsedSessionId /\ Tokens!Cached(origin) # {}
  <2>1. PICK i \in Tokens!Cached(origin) : token = sessionTokens[i].token
    BY <1>4 DEF TokenFor
  <2>2. i \in DOMAIN sessionTokens /\ sessionTokens[i].session = origin
    BY DEF Tokens!Cached
  <2> QED BY <1>1, <1>2, <2>1, <2>2
<1>5. CASE origin # lastUsedSessionId /\ Tokens!Cached(origin) = {}
  <2>1. token \in {AsF64(Token(compressor, s)) : s \in FromUuidString(ToUuid(origin))}
    BY <1>5 DEF TokenFor, GetToken
  <2>2. token = AsF64(Token(compressor, origin))
    BY <2>1, SessionUuids
  <2> QED BY <2>2, TokenIsPlace DEF WrapperInv
<1> QED BY <1>3, <1>4, <1>5

(* An answer by a remembered token is the answer by the session's ID, after
   any finalizations, evictions and reopenings (wasm lib.rs:164-189).      *)
THEOREM AnswersAreCurrentHolds == CountsExact => (Spec => []AnswersAreCurrent)
<1> SUFFICES ASSUME CountsExact PROVE Spec => []AnswersAreCurrent
  OBVIOUS
<1>1. ASSUME WrapperInv PROVE AnswersAreCurrent
  <2> DEFINE c == compressor
  <2> SUFFICES ASSUME NEW origin \in Sessions, NEW token \in TokenFor(origin) \ {NilToken},
                      NEW id \in -(MaxGenerated + 1)..-1
               PROVE  NormalizeToSessionSpaceNumber(c, id, token)
                          = OrNaN(NormalizeToSessionSpace(c, id, origin))
    BY DEF AnswersAreCurrent
  <2>1. token = Token(c, origin)
    BY <1>1, TokenForIsToken
  <2>2. /\ origin \in Known(c) /\ token \in Nat
        /\ c.sessions[token + 1] = origin
        /\ token = 0 <=> origin = c.sessionId
    <3> HIDE DEF c
    <3> QED BY <1>1, <2>1, TokenIsPlace DEF WrapperInv, c
  <2>3. id \in Int /\ ~(id >= 0)
    BY WrapperAssumption
  <2>4. AsI64(id) = id /\ AsI64(token) = token
    BY <2>2, <2>3, IntegerCasts
  <2>5. NormalizeToSessionSpaceNumber(c, id, token)
            = OrNaN(IF token = 0 THEN NormalizeOwnLocal(c, id)
                    ELSE TryConvertToFinal(c.clusters, c.sessions[token + 1], id))
    BY <2>3, <2>4 DEF NormalizeToSessionSpaceNumber
  <2>6. NormalizeToSessionSpace(c, id, origin)
            = IF origin = c.sessionId THEN NormalizeOwnLocal(c, id)
              ELSE TryConvertToFinal(c.clusters, origin, id)
    BY <2>2, <2>3 DEF NormalizeToSessionSpace
  <2> QED BY <2>2, <2>5, <2>6
<1> QED BY <1>1, WrapperInvHolds, PTL

-----------------------------------------------------------------------------
(* Numbers there and back. *)

(* No other session is nearer to the UUIDs of the client's own IDs. *)
LEMMA OwnIsNearest ==
    ASSUME OwnIdsApart, NEW known, known \subseteq Sessions, LocalSession \in known,
           NEW uuid \in Int, LocalSession <= uuid, uuid < LocalSession + MaxGenerated
    PROVE  Nearest(known, uuid) = {LocalSession}
<1>1. /\ MaxGenerated \in Int /\ LocalSession \in Int /\ \A u \in known : u \in Int
      /\ \A u \in known : LocalSession < u => LocalSession + MaxGenerated <= u
  BY SessionsAssumption, WrapperAssumption DEF OwnIdsApart
<1>2. ASSUME NEW u \in known, u <= uuid
      PROVE  u <= LocalSession
  <2>1. u \in Int /\ (LocalSession < u => LocalSession + MaxGenerated <= u)
    BY <1>1
  <2> QED BY <1>1, <1>2, <2>1
<1>3. LocalSession \in Nearest(known, uuid)
  BY <1>2 DEF Nearest
<1>4. ASSUME NEW u \in Nearest(known, uuid)
      PROVE  u = LocalSession
  <2>1. u \in known /\ u <= uuid /\ LocalSession <= u
    BY DEF Nearest
  <2>2. u \in Int /\ u <= LocalSession
    BY <1>1, <1>2, <2>1
  <2> QED BY <1>1, <2>1, <2>2
<1> QED BY <1>3, <1>4

(* The UUID of an issued ID is one the adapter accepts, and compresses into it. *)
LEMMA OwnUuidReadBack ==
    ASSUME OwnIdsApart, NEW c, CompressorInv(c), c.sessionId = LocalSession,
           c.generatedIdCount <= MaxGenerated,
           NEW g \in 1..c.generatedIdCount, NEW id, Issued(c, g, id),
           NEW stable, stable = StableOf(c.sessionId, -g)
    PROVE  Recompress(c, stable) = {id} /\ FromUuidString(ToUuid(stable)) = {stable}
<1>1. /\ g \in Int /\ 1 <= g /\ g <= MaxGenerated /\ MaxGenerated \in Int
      /\ LocalSession \in Int /\ LocalSession >= 0 /\ StableLimit \in Int
      /\ LocalSession + MaxGenerated <= StableLimit
  <2>1. c.generatedIdCount \in Int /\ MaxGenerated \in Int
    BY CompressorFacts, WrapperAssumption
  <2>2. g \in Int /\ 1 <= g /\ g <= MaxGenerated
    BY <2>1
  <2>3. StableLimit \in Int
    BY FieldSizesAssumption DEF StableLimit
  <2> QED BY <2>1, <2>2, <2>3, SessionsAssumption, WrapperAssumption DEF OwnIdsApart
<1>2. stable = LocalSession + g - 1
  BY GenCounts
<1>3. /\ stable \in 0..(StableLimit - 1) /\ stable \in Int
      /\ LocalSession <= stable /\ stable < LocalSession + MaxGenerated
  BY <1>1, <1>2
<1>4. Known(c) \subseteq Sessions /\ LocalSession \in Known(c)
  BY CompressorFacts
<1>5. Nearest(Known(c), stable) = {c.sessionId}
  BY <1>3, <1>4, OwnIsNearest
<1>6. Recompress(c, stable) = {id}
  BY <1>5, IssuedRecompresses
<1> QED BY <1>3, <1>6, StableIdsRoundTrip

(* An issued ID comes back from op space: as a local ID if its cluster is yet
   to come, as the cluster's final ID if not.                              *)
LEMMA BackFromOpSpace ==
    ASSUME NEW c, CompressorInv(c), NEW g \in 1..c.generatedIdCount, NEW id, Issued(c, g, id),
           NEW opId, opId = NormalizeToOpSpaceNumber(c, id), IsSafe(opId)
    PROVE  NormalizeToSessionSpaceNumber(c, opId, 0) = AsF64(id)
<1>1. id \in Int /\ AsI64(id) = id /\ AsI64(0) = 0
  BY IssuedType, IntegerCasts
<1>2. opId = OrNaN(NormalizeToOpSpace(c, id))
  BY <1>1 DEF NormalizeToOpSpaceNumber
<1>3. CASE NormalizeToOpSpace(c, id) = {-g}
  <2>1. -g \in Int /\ ~(-g >= 0) /\ g \in Int
    BY CompressorFacts
  <2>2. opId = AsF64(-g)
    BY <1>2, <1>3, OrNaNOfOne
  <2>3. opId = -g /\ AsI64(-g) = -g
    BY <2>1, <2>2, SafeIsExact, IntegerCasts
  <2>4. NormalizeToSessionSpace(c, -g, c.sessionId) = {id}
    BY OwnLocalNormalizes
  <2>5. NormalizeOwnLocal(c, -g) = {id}
    BY <2>1, <2>4, CompressorFacts DEF NormalizeToSessionSpace
  <2>6. NormalizeToSessionSpaceNumber(c, -g, 0) = OrNaN({id})
    BY <1>1, <2>1, <2>3, <2>5 DEF NormalizeToSessionSpaceNumber
  <2> QED BY <2>3, <2>6, OrNaNOfOne
<1>4. CASE \E i \in Chain(c.clusters, c.sessionId) :
               /\ HoldsLocal(c.clusters[i], -g)
               /\ NormalizeToOpSpace(c, id) = {AllocatedFinal(c.clusters[i], -g)}
  <2>1. PICK i \in Chain(c.clusters, c.sessionId) :
               /\ HoldsLocal(c.clusters[i], -g)
               /\ NormalizeToOpSpace(c, id) = {AllocatedFinal(c.clusters[i], -g)}
    BY <1>4
  <2> DEFINE final == AllocatedFinal(c.clusters[i], -g)
  <2>2. i \in DOMAIN c.clusters /\ TableInv(c.clusters) /\ -g \in Int
    BY CompressorFacts DEF Chain
  <2>3. final \in Nat
    BY <2>1, <2>2, FinalOfLocal
  <2>4. NormalizeFinal(c, final) = {id}
    BY <2>1, OwnFinalNormalizes
  <2>5. opId = AsF64(final)
    BY <1>2, <2>1, OrNaNOfOne
  <2> HIDE DEF final
  <2>6. opId = final /\ AsI64(final) = final /\ final >= 0
    BY <2>3, <2>5, SafeIsExact, IntegerCasts
  <2>7. NormalizeToSessionSpaceNumber(c, final, 0) = OrNaN({id})
    BY <2>4, <2>6 DEF NormalizeToSessionSpaceNumber
  <2> QED BY <2>6, <2>7, OrNaNOfOne
<1> QED BY <1>3, <1>4, IssuedInOpSpace

(* An ID whose number is a safe integer decompresses to its UUID, that UUID
   compresses into the number, and the number comes back from op space: both
   casts, the UUID's fields and the tables in between lose nothing
   (stable_id.rs:39-63, wasm lib.rs:106-213).                              *)
THEOREM IdsCrossTheBoundaryHolds ==
    CountsExact /\ OwnIdsApart => (Spec => []IdsCrossTheBoundary)
<1> SUFFICES ASSUME CountsExact, OwnIdsApart PROVE Spec => []IdsCrossTheBoundary
  OBVIOUS
<1>1. ASSUME WrapperInv PROVE IdsCrossTheBoundary
  <2> DEFINE c == compressor
             n == c.generatedIdCount
  <2> SUFFICES ASSUME NEW g \in DOMAIN issued, IsSafe(issued[g])
               PROVE  LET uuid == ToUuid(LocalSession + g - 1)
                          opId == NormalizeToOpSpaceNumber(c, issued[g])
                      IN  /\ DecompressNumber(c, issued[g]) = {uuid}
                          /\ RecompressUuid(c, uuid) = {issued[g]}
                          /\ IsSafe(opId) =>
                                NormalizeToSessionSpaceNumber(c, opId, 0) = issued[g]
    BY DEF IdsCrossTheBoundary
  <2> DEFINE place == LocalSession + g - 1
             uuid == ToUuid(place)
             x == issued[g]
  <2>1. /\ CompressorInv(c) /\ c.sessionId = LocalSession /\ n <= MaxGenerated
        /\ IsNumberOf(c, g, x) /\ Len(issued) = n /\ issued \in Seq(Int)
    BY <1>1 DEF WrapperInv, IssuedInv, TypeOK
  <2>2. g \in 1..n /\ n \in Nat
    BY <2>1, CompressorFacts
  <2>3. PICK id : Issued(c, g, id) /\ x = AsF64(id)
    BY <2>1, NumbersOfIssued
  <2>4. id \in Int
    BY <2>1, <2>2, <2>3, IssuedType
  <2>5. x = id /\ AsI64(x) = id
    BY <2>3, <2>4, SafeIsExact, IntegerCasts
  <2>6. DecompressNumber(c, x) = {uuid}
    <3>1. Decompress(c, id) = {place}
      BY <2>1, <2>2, <2>3, IssuedDecompresses
    <3> QED BY <2>5, <3>1 DEF DecompressNumber
  <2>7. RecompressUuid(c, uuid) = {x}
    <3>1. place = StableOf(c.sessionId, -g)
      BY <2>1, <2>2, GenCounts
    <3>2. /\ g \in 1..c.generatedIdCount /\ c.generatedIdCount <= MaxGenerated
          /\ CompressorInv(c) /\ c.sessionId = LocalSession /\ Issued(c, g, id)
      BY <2>1, <2>2, <2>3
    <3> HIDE DEF place, n, c, x
    <3>3. Recompress(c, place) = {id} /\ FromUuidString(ToUuid(place)) = {place}
      BY <3>1, <3>2, OwnUuidReadBack
    <3>4. RecompressUuid(c, uuid) = {AsF64(id)}
      BY <3>3 DEF RecompressUuid
    <3> QED BY <2>3, <3>4
  <2>8. IsSafe(NormalizeToOpSpaceNumber(c, x))
            => NormalizeToSessionSpaceNumber(c, NormalizeToOpSpaceNumber(c, x), 0) = x
    BY <2>1, <2>2, <2>3, <2>5, BackFromOpSpace
  <2> QED BY <2>6, <2>7, <2>8
<1> QED BY <1>1, WrapperInvHolds, PTL
=============================================================================
