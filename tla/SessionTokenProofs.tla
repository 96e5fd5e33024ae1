------------------------- MODULE SessionTokenProofs -------------------------
(***************************************************************************)
(* The token cache remembers nothing outdated, for any sessions and any    *)
(* sizes of the cache.                                                     *)
(*                                                                         *)
(* RememberedTokensCurrent is not inductive: that an unknown session's nil *)
(* token is forgotten depends on the session being in the Map, once, when  *)
(* it is the last originator, and that a token stays current on the        *)
(* compressor holding a session once.                                      *)
(***************************************************************************)
EXTENDS SessionTokens, SequenceTheorems, TLAPS

Unique(list) == \A i, j \in DOMAIN list : list[i] = list[j] => i = j

SessionsDistinct == Unique(sessions)

EntriesDistinct ==
    \A i, j \in DOMAIN sessionTokens :
        sessionTokens[i].session = sessionTokens[j].session => i = j

LengthBounded == Len(sessionTokens) <= MaxSize

IInv ==
    /\ TypeOK
    /\ SessionsDistinct
    /\ EntriesDistinct
    /\ LengthBounded
    /\ LastUsedIsCached
    /\ RememberedTokensCurrent

Entries == [session : Sessions, token : Tokens]

-----------------------------------------------------------------------------
(* Tokens. *)

(* A token is the nil token exactly if the session is not known. *)
LEMMA TokenTypes ==
    ASSUME NEW list \in Seq(Sessions), NEW s
    PROVE  /\ TokenIn(list, s) \in Tokens
           /\ TokenIn(list, s) = NilToken <=> s \notin Known(list)
  <1>1. CASE s \in Known(list)
    <2>1. PICK i \in DOMAIN list : list[i] = s
      BY <1>1 DEF Known
    <2>2. TokenIn(list, s) \in Nat
      BY <1>1, <2>1 DEF TokenIn
    <2> QED BY <1>1, <2>2 DEF Tokens, NilToken
  <1>2. CASE s \notin Known(list)
    BY <1>2 DEF TokenIn, Tokens, NilToken
  <1> QED BY <1>1, <1>2

(* Adding a session changes no other session's token. *)
LEMMA TokenStays ==
    ASSUME NEW list \in Seq(Sessions), Unique(list),
           NEW s \in Sessions, s \notin Known(list)
    PROVE  /\ Append(list, s) \in Seq(Sessions) /\ Unique(Append(list, s))
           /\ \A other : other # s => TokenIn(Append(list, s), other) = TokenIn(list, other)
  <1> DEFINE longer == Append(list, s)
  <1>1. /\ longer \in Seq(Sessions) /\ Len(list) \in Nat
        /\ DOMAIN list = 1..Len(list)
        /\ DOMAIN longer = 1..(Len(list) + 1)
        /\ \A i \in DOMAIN list : longer[i] = list[i]
        /\ longer[Len(list) + 1] = s
    OBVIOUS
  <1> HIDE DEF longer
  <1>2. Unique(longer)
    BY <1>1 DEF Unique, Known
  <1>3. ASSUME NEW other, other # s
        PROVE  TokenIn(longer, other) = TokenIn(list, other)
    <2>1. other \in Known(list) <=> other \in Known(longer)
      BY <1>1, <1>3 DEF Known
    <2>2. CASE other \in Known(list)
      <3>1. PICK i \in DOMAIN list : list[i] = other
        BY <2>2 DEF Known
      <3>2. TokenIn(list, other) = i - 1
        <4>1. (CHOOSE j \in DOMAIN list : list[j] = other) = i
          BY <3>1 DEF Unique
        <4> QED BY <2>2, <4>1 DEF TokenIn
      <3>3. TokenIn(longer, other) = i - 1
        <4>1. i \in DOMAIN longer /\ longer[i] = other
          BY <1>1, <3>1
        <4>2. (CHOOSE j \in DOMAIN longer : longer[j] = other) = i
          BY <1>2, <4>1 DEF Unique
        <4> QED BY <2>1, <2>2, <4>2 DEF TokenIn
      <3> QED BY <3>2, <3>3
    <2>3. CASE other \notin Known(list)
      BY <2>1, <2>3 DEF TokenIn
    <2> QED BY <2>2, <2>3
  <1> QED BY <1>1, <1>2, <1>3 DEF longer

-----------------------------------------------------------------------------
(* The Map. *)

(* Eviction keeps the newest entries, in order, and the very last one. *)
LEMMA EvictedTail ==
    ASSUME TokenConstants, NEW entries \in Seq(Entries), Len(entries) <= MaxSize + 1
    PROVE  \E skipped \in Nat :
              /\ skipped <= Len(entries) /\ (Len(entries) > 0 => skipped < Len(entries))
              /\ Evict(entries) \in Seq(Entries)
              /\ Len(Evict(entries)) = Len(entries) - skipped
              /\ Len(Evict(entries)) <= MaxSize
              /\ \A i \in 1..Len(Evict(entries)) : Evict(entries)[i] = entries[skipped + i]
  <1>1. CASE Len(entries) > MaxSize
    <2> DEFINE skipped == Len(entries) - Target
    <2>1. skipped \in Nat /\ skipped < Len(entries) /\ Target \in Nat /\ MaxSize \in Nat
      BY <1>1 DEF TokenConstants
    <2>2. Evict(entries) = SubSeq(entries, skipped + 1, Len(entries))
      BY <1>1 DEF Evict
    <2>3. /\ Evict(entries) \in Seq(Entries)
          /\ Len(Evict(entries)) = Target
          /\ \A i \in 1..Target : Evict(entries)[i] = entries[skipped + i]
      BY <2>1, <2>2
    <2>4. /\ skipped \in Nat /\ skipped <= Len(entries) /\ skipped < Len(entries)
          /\ Len(Evict(entries)) = Len(entries) - skipped
          /\ Len(Evict(entries)) <= MaxSize
          /\ \A i \in 1..Len(Evict(entries)) : Evict(entries)[i] = entries[skipped + i]
      BY <2>1, <2>3 DEF TokenConstants
    <2> HIDE DEF skipped
    <2> QED BY <2>3, <2>4
  <1>2. CASE ~(Len(entries) > MaxSize)
    <2>1. Evict(entries) = entries
      BY <1>2 DEF Evict
    <2> QED BY <1>2, <2>1 DEF TokenConstants
  <1> QED BY <1>1, <1>2

(* Deleting takes out the session's entry and leaves the others in order. *)
LEMMA Deleted ==
    ASSUME sessionTokens \in Seq(Entries), EntriesDistinct,
           NEW s \in Sessions, NEW i \in Cached(s)
    PROVE  /\ Delete(s) \in Seq(Entries)
           /\ Len(Delete(s)) = Len(sessionTokens) - 1
           /\ \A j \in 1..Len(Delete(s)) :
                 Delete(s)[j] = IF j < i THEN sessionTokens[j] ELSE sessionTokens[j + 1]
  <1>1. i \in 1..Len(sessionTokens) /\ Len(sessionTokens) \in Nat
    BY DEF Cached
  <1>2. (CHOOSE j \in Cached(s) : TRUE) = i
    BY DEF Cached, EntriesDistinct
  <1> DEFINE before == SubSeq(sessionTokens, 1, i - 1)
             after == SubSeq(sessionTokens, i + 1, Len(sessionTokens))
  <1>3. Delete(s) = before \o after
    BY <1>2 DEF Delete
  <1>4. /\ before \in Seq(Entries) /\ Len(before) = i - 1
        /\ \A j \in 1..(i - 1) : before[j] = sessionTokens[j]
    BY <1>1
  <1>5. /\ after \in Seq(Entries) /\ Len(after) = Len(sessionTokens) - i
        /\ \A j \in 1..(Len(sessionTokens) - i) : after[j] = sessionTokens[i + j]
    BY <1>1
  <1> HIDE DEF before, after
  <1>6. /\ before \o after \in Seq(Entries)
        /\ Len(before \o after) = Len(before) + Len(after)
        /\ \A j \in 1..(Len(before) + Len(after)) :
              (before \o after)[j] = IF j <= Len(before) THEN before[j] ELSE after[j - Len(before)]
    BY <1>4, <1>5, ConcatProperties, Zenon
  <1>7. Len(Delete(s)) = Len(sessionTokens) - 1
    BY <1>1, <1>3, <1>4, <1>5, <1>6
  <1>8. ASSUME NEW j \in 1..Len(Delete(s))
        PROVE  Delete(s)[j] = IF j < i THEN sessionTokens[j] ELSE sessionTokens[j + 1]
    <2>1. CASE j < i
      BY <1>1, <1>3, <1>4, <1>6, <2>1
    <2>2. CASE ~(j < i)
      <3>1. j - Len(before) \in 1..(Len(sessionTokens) - i)
        BY <1>1, <1>4, <1>7, <2>2
      <3>2. Delete(s)[j] = after[j - Len(before)]
        BY <1>1, <1>3, <1>4, <1>6, <2>2
      <3> QED BY <1>1, <1>4, <1>5, <2>2, <3>1, <3>2
    <2> QED BY <2>1, <2>2
  <1> QED BY <1>3, <1>6, <1>7, <1>8

-----------------------------------------------------------------------------
(* The invariant. *)

LEMMA InitEstablishes ==
    ASSUME TokenConstants, Init
    PROVE  IInv
  <1>1. sessions = <<LocalSession>> /\ sessionTokens = <<>>
    BY DEF Init
  <1>2. TypeOK
    <2>1. <<LocalSession>> \in Seq(Sessions)
      BY DEF TokenConstants
    <2>2. sessionTokens \in Seq([session : Sessions, token : Tokens])
      BY <1>1
    <2> QED BY <1>1, <2>1, <2>2 DEF Init, TypeOK, Tokens
  <1>3. SessionsDistinct /\ EntriesDistinct /\ LengthBounded
    BY <1>1 DEF SessionsDistinct, Unique, EntriesDistinct, LengthBounded, TokenConstants
  <1>4. LastUsedIsCached /\ RememberedTokensCurrent
    BY DEF Init, LastUsedIsCached, RememberedTokensCurrent
  <1> QED BY <1>2, <1>3, <1>4 DEF IInv

LEMMA NormalizeKeeps ==
    ASSUME TokenConstants, IInv, NEW origin \in Sessions, NEW kind \in IdKinds,
           NormalizeToSessionSpace(origin, kind)
    PROVE  IInv'
  <1> USE DEF GetToken
  <1>1. sessions \in Seq(Sessions) /\ sessionTokens \in Seq(Entries) /\ Len(sessionTokens) \in Nat
    BY DEF IInv, TypeOK, Entries
  <1>2. UNCHANGED sessions
    BY DEF NormalizeToSessionSpace, LastUsed, CacheHit, CacheMiss, Use
  <1>3. SessionsDistinct'
    BY <1>2 DEF IInv, SessionsDistinct
  <1>4. \A s \in Sessions : GetToken(s) \in Tokens
    BY <1>1, TokenTypes
  <1>5. CASE LastUsed(origin, kind)
    <2>1. TypeOK'
      BY <1>5 DEF IInv, TypeOK, LastUsed, wrapper
    <2>2. RememberedTokensCurrent'
      BY <1>1, <1>2, <1>5 DEF IInv, TypeOK, RememberedTokensCurrent, LastUsed, wrapper
    <2>3. EntriesDistinct' /\ LengthBounded' /\ LastUsedIsCached'
      BY <1>5 DEF IInv, EntriesDistinct, LengthBounded, LastUsedIsCached, Cached, LastUsed, wrapper
    <2> QED BY <1>3, <2>1, <2>2, <2>3 DEF IInv
  <1>6. CASE CacheHit(origin)
    <2>1. PICK i \in Cached(origin) : Use(origin, sessionTokens[i].token)
      BY <1>6 DEF CacheHit
    <2>2. /\ i \in DOMAIN sessionTokens /\ sessionTokens[i].session = origin
          /\ sessionTokens[i].token = GetToken(origin)
      BY <2>1 DEF Cached, IInv, RememberedTokensCurrent
    <2>3. /\ UNCHANGED sessionTokens
          /\ lastUsedSessionId' = origin /\ lastUsedToken' = GetToken(origin)
      BY <1>6, <2>1, <2>2 DEF CacheHit, Use
    <2>4. TypeOK'
      BY <1>2, <1>4, <2>1, <2>3 DEF IInv, TypeOK, Use
    <2>5. RememberedTokensCurrent'
      BY <1>1, <1>2, <2>3 DEF IInv, RememberedTokensCurrent
    <2>6. LastUsedIsCached'
      BY <2>2, <2>3 DEF LastUsedIsCached, Cached
    <2>7. EntriesDistinct' /\ LengthBounded'
      BY <2>3 DEF IInv, EntriesDistinct, LengthBounded
    <2> QED BY <1>3, <2>4, <2>5, <2>6, <2>7 DEF IInv
  <1>7. CASE CacheMiss(origin)
    <2> DEFINE entry == [session |-> origin, token |-> GetToken(origin)]
               entries == Append(sessionTokens, entry)
               n == Len(sessionTokens)
    <2>1. /\ Cached(origin) = {} /\ sessionTokens' = Evict(entries)
          /\ lastUsedSessionId' = origin /\ lastUsedToken' = GetToken(origin)
          /\ UNCHANGED trapped
      BY <1>7 DEF CacheMiss, Use
    <2>2. entry \in Entries
      BY <1>4 DEF Entries
    <2>3. /\ entries \in Seq(Entries) /\ Len(entries) = n + 1
          /\ entries[n + 1] = entry
          /\ \A i \in 1..n : entries[i] = sessionTokens[i]
      BY <1>1, <2>2
    <2>4. Len(entries) <= MaxSize + 1
      BY <1>1, <2>3 DEF IInv, LengthBounded, TokenConstants
    <2>5. entry.session = origin /\ entry.token = GetToken(origin)
      OBVIOUS
    <2> HIDE DEF entries, entry
    <2>6. \A i \in 1..n : /\ sessionTokens[i].session # origin
                          /\ sessionTokens[i].session \in Sessions
                          /\ sessionTokens[i].token = GetToken(sessionTokens[i].session)
      <3>1. \A i \in 1..n : i \in DOMAIN sessionTokens /\ sessionTokens[i] \in Entries
        BY <1>1
      <3>2. \A i \in 1..n : sessionTokens[i].session \in Sessions
        BY <3>1 DEF Entries
      <3> QED BY <2>1, <3>1, <3>2 DEF Cached, IInv, RememberedTokensCurrent
    <2>7. \A i \in 1..(n + 1) : /\ entries[i].session \in Sessions
                                /\ entries[i].token = GetToken(entries[i].session)
                                /\ i # n + 1 => entries[i].session # origin
      BY <1>1, <2>3, <2>5, <2>6
    <2>14. \A i, j \in 1..(n + 1) : entries[i].session = entries[j].session => i = j
      <3>1. \A i, j \in 1..n : sessionTokens[i].session = sessionTokens[j].session => i = j
        BY <1>1 DEF IInv, EntriesDistinct
      <3>2. \A i, j \in 1..(n + 1) :
                i # n + 1 /\ j # n + 1 /\ entries[i].session = entries[j].session => i = j
        BY <1>1, <2>3, <3>1
      <3> QED BY <2>3, <2>5, <2>7, <3>2
    <2>8. PICK skipped \in Nat :
              /\ skipped < n + 1
              /\ sessionTokens' \in Seq(Entries)
              /\ Len(sessionTokens') = n + 1 - skipped
              /\ Len(sessionTokens') <= MaxSize
              /\ \A i \in 1..Len(sessionTokens') : sessionTokens'[i] = entries[skipped + i]
      <3>1. PICK skipped \in Nat :
                /\ Len(entries) > 0 => skipped < Len(entries)
                /\ Evict(entries) \in Seq(Entries)
                /\ Len(Evict(entries)) = Len(entries) - skipped
                /\ Len(Evict(entries)) <= MaxSize
                /\ \A i \in 1..Len(Evict(entries)) : Evict(entries)[i] = entries[skipped + i]
        BY <2>3, <2>4, EvictedTail, Zenon
      <3>2. skipped < n + 1 /\ Len(Evict(entries)) = n + 1 - skipped
        BY <1>1, <2>3, <3>1
      <3> QED BY <2>1, <3>1, <3>2, Zenon
    <2>9. /\ DOMAIN sessionTokens' = 1..(n + 1 - skipped)
          /\ \A i \in DOMAIN sessionTokens' :
                skipped + i \in 1..(n + 1) /\ sessionTokens'[i] = entries[skipped + i]
      BY <1>1, <2>8
    <2>10. TypeOK'
      BY <1>2, <1>4, <2>1, <2>8 DEF IInv, TypeOK, Entries
    <2>11. EntriesDistinct' /\ LengthBounded'
      <3>1. ASSUME NEW i \in DOMAIN sessionTokens', NEW j \in DOMAIN sessionTokens',
                   sessionTokens'[i].session = sessionTokens'[j].session
            PROVE  i = j
        <4>1. skipped + i = skipped + j
          BY <2>9, <2>14, <3>1
        <4> QED BY <2>9, <4>1
      <3> QED BY <2>8, <3>1 DEF EntriesDistinct, LengthBounded
    <2>12. RememberedTokensCurrent'
      BY <1>2, <2>1, <2>7, <2>9 DEF RememberedTokensCurrent
    <2>13. LastUsedIsCached'
      <3>1. n + 1 - skipped \in DOMAIN sessionTokens'
        BY <1>1, <2>8, <2>9
      <3>2. sessionTokens'[n + 1 - skipped].session = origin
        BY <1>1, <2>3, <2>5, <2>9, <3>1
      <3> QED BY <2>1, <3>1, <3>2 DEF LastUsedIsCached, Cached
    <2> QED BY <1>3, <2>10, <2>11, <2>12, <2>13 DEF IInv
  <1> QED BY <1>5, <1>6, <1>7 DEF NormalizeToSessionSpace

(* Finalizing a range of a session that gets to be known by it: its entry, if
   there is one, has the nil token and is deleted.                         *)
LEMMA FinalizeKeeps ==
    ASSUME TokenConstants, IInv, NEW s \in Sessions, FinalizeCreationRange(s)
    PROVE  IInv'
  <1> USE DEF GetToken
  <1>1. /\ sessions \in Seq(Sessions) /\ sessionTokens \in Seq(Entries)
        /\ Len(sessionTokens) \in Nat /\ Unique(sessions)
        /\ DOMAIN sessionTokens = 1..Len(sessionTokens)
    BY DEF IInv, TypeOK, Entries, SessionsDistinct
  <1>2. \A i \in DOMAIN sessionTokens :
            sessionTokens[i].session \in Sessions /\ sessionTokens[i].token \in Tokens
    <2>1. \A i \in DOMAIN sessionTokens : sessionTokens[i] \in Entries
      BY <1>1
    <2> QED BY <2>1 DEF Entries
  <1>3. /\ sessions' \in Seq(Sessions) /\ Unique(sessions')
        /\ \A other \in Sessions \ {s} : TokenIn(sessions', other) = TokenIn(sessions, other)
        /\ TokenIn(sessions, s) # NilToken => TokenIn(sessions', s) = TokenIn(sessions, s)
    <2>1. CASE UNCHANGED sessions
      BY <1>1, <2>1
    <2>2. CASE s \notin Known(sessions) /\ sessions' = Append(sessions, s)
      BY <1>1, <2>2, TokenStays, TokenTypes
    <2> QED BY <2>1, <2>2 DEF FinalizeCreationRange
  <1>4. UNCHANGED trapped /\ Forget(s)
    BY DEF FinalizeCreationRange
  <1>5. CASE \E i \in Cached(s) : sessionTokens[i].token = NilToken
    <2>1. PICK i \in Cached(s) : sessionTokens[i].token = NilToken
      BY <1>5
    <2>2. /\ i \in 1..Len(sessionTokens) /\ sessionTokens[i].session = s
          /\ \A j \in DOMAIN sessionTokens : j # i => sessionTokens[j].session # s
      BY <1>1, <2>1 DEF Cached, IInv, EntriesDistinct
    <2> DEFINE Old(j) == IF j < i THEN j ELSE j + 1
               m == Len(sessionTokens) - 1
    <2>3. /\ sessionTokens' = Delete(s)
          /\ lastUsedSessionId' = IF s = lastUsedSessionId THEN NoSession ELSE lastUsedSessionId
          /\ lastUsedToken' = IF s = lastUsedSessionId THEN NilToken ELSE lastUsedToken
      BY <1>4, <1>5 DEF Forget
    <2>4. /\ sessionTokens' \in Seq(Entries) /\ Len(sessionTokens') = m
          /\ DOMAIN sessionTokens' = 1..m
          /\ \A j \in 1..m :
                sessionTokens'[j] = IF j < i THEN sessionTokens[j] ELSE sessionTokens[j + 1]
      <3>1. EntriesDistinct
        BY DEF IInv
      <3>2. /\ Delete(s) \in Seq(Entries) /\ Len(Delete(s)) = m
            /\ \A j \in 1..Len(Delete(s)) :
                  Delete(s)[j] = IF j < i THEN sessionTokens[j] ELSE sessionTokens[j + 1]
        BY <1>1, <2>1, <3>1, Deleted
      <3> QED BY <2>3, <3>2
    <2>5. \A j \in 1..m : /\ Old(j) \in DOMAIN sessionTokens /\ Old(j) # i
                          /\ sessionTokens'[j] = sessionTokens[Old(j)]
      BY <1>1, <2>2, <2>4
    <2>6. \A j, k \in 1..m : Old(j) = Old(k) => j = k
      BY <1>1, <2>2
    <2>7. \A k \in DOMAIN sessionTokens : k # i => \E j \in 1..m : Old(j) = k
      <3>1. SUFFICES ASSUME NEW k \in DOMAIN sessionTokens, k # i
                     PROVE  \E j \in 1..m : Old(j) = k
        OBVIOUS
      <3>2. CASE k < i
        BY <1>1, <2>2, <3>2
      <3>3. CASE ~(k < i)
        <4>1. k - 1 \in 1..m /\ Old(k - 1) = k
          BY <1>1, <2>2, <3>1, <3>3
        <4> QED BY <4>1
      <3> QED BY <3>2, <3>3
    <2> HIDE DEF Old
    <2>8. TypeOK'
      <3>1. NilToken \in Tokens
        BY DEF Tokens
      <3> QED BY <1>3, <1>4, <2>3, <2>4, <3>1 DEF IInv, TypeOK, Entries
    <2>9. EntriesDistinct'
      <3>1. SUFFICES ASSUME NEW j \in 1..m, NEW k \in 1..m,
                            sessionTokens'[j].session = sessionTokens'[k].session
                     PROVE  j = k
        BY <2>4 DEF EntriesDistinct
      <3>2. sessionTokens[Old(j)].session = sessionTokens[Old(k)].session
        BY <2>5, <3>1
      <3>3. Old(j) = Old(k)
        BY <2>5, <3>2 DEF IInv, EntriesDistinct
      <3> QED BY <2>6, <3>3
    <2>10. LengthBounded'
      BY <1>1, <2>4 DEF IInv, LengthBounded, TokenConstants
    <2>11. RememberedTokensCurrent'
      <3>1. \A j \in DOMAIN sessionTokens' :
                sessionTokens'[j].token = TokenIn(sessions', sessionTokens'[j].session)
        BY <1>2, <1>3, <2>2, <2>4, <2>5 DEF IInv, RememberedTokensCurrent
      <3>2. lastUsedSessionId' # NoSession =>
                lastUsedToken' = TokenIn(sessions', lastUsedSessionId')
        BY <1>3, <2>3 DEF IInv, TypeOK, RememberedTokensCurrent
      <3> QED BY <3>1, <3>2 DEF RememberedTokensCurrent
    <2>12. LastUsedIsCached'
      <3>1. SUFFICES ASSUME lastUsedSessionId' # NoSession
                     PROVE  \E j \in DOMAIN sessionTokens' :
                                sessionTokens'[j].session = lastUsedSessionId'
        BY DEF LastUsedIsCached, Cached
      <3>2. lastUsedSessionId' = lastUsedSessionId /\ lastUsedSessionId # s
        BY <2>3, <3>1
      <3>3. PICK k \in DOMAIN sessionTokens : sessionTokens[k].session = lastUsedSessionId
        BY <3>1, <3>2 DEF IInv, LastUsedIsCached, Cached
      <3>4. PICK j \in 1..m : Old(j) = k
        BY <2>2, <2>7, <3>2, <3>3
      <3>5. sessionTokens'[j] = sessionTokens[k]
        BY <2>5, <3>4
      <3> QED BY <2>4, <3>2, <3>3, <3>4, <3>5
    <2> QED BY <1>3, <2>8, <2>9, <2>10, <2>11, <2>12 DEF IInv, SessionsDistinct
  <1>6. CASE ~\E i \in Cached(s) : sessionTokens[i].token = NilToken
    <2>1. UNCHANGED <<sessionTokens, lastUsedSessionId, lastUsedToken>>
      BY <1>4, <1>6 DEF Forget, wrapper
    <2>2. TypeOK' /\ EntriesDistinct' /\ LengthBounded'
      BY <1>3, <1>4, <2>1 DEF IInv, TypeOK, EntriesDistinct, LengthBounded
    <2>3. LastUsedIsCached'
      BY <2>1 DEF IInv, LastUsedIsCached, Cached
    <2>4. \A i \in DOMAIN sessionTokens :
              sessionTokens[i].token = TokenIn(sessions', sessionTokens[i].session)
      BY <1>2, <1>3, <1>6 DEF Cached, IInv, RememberedTokensCurrent
    <2>5. lastUsedSessionId # NoSession => lastUsedToken = TokenIn(sessions', lastUsedSessionId)
      <3>1. SUFFICES ASSUME lastUsedSessionId # NoSession
                     PROVE  lastUsedToken = TokenIn(sessions', lastUsedSessionId)
        OBVIOUS
      <3>2. PICK k \in DOMAIN sessionTokens : sessionTokens[k].session = lastUsedSessionId
        BY <3>1 DEF IInv, LastUsedIsCached, Cached
      <3>3. sessionTokens[k].token = lastUsedToken
        BY <3>1, <3>2 DEF IInv, RememberedTokensCurrent
      <3> QED BY <2>4, <3>2, <3>3
    <2>6. RememberedTokensCurrent'
      BY <2>1, <2>4, <2>5 DEF RememberedTokensCurrent
    <2> QED BY <1>3, <2>2, <2>3, <2>6 DEF IInv, SessionsDistinct
  <1> QED BY <1>5, <1>6

(* What the wrapper remembers of a session is what the compressor would
   answer now, the last originator is in the Map, and the Map within its
   limit, whatever the sessions and the sizes (IdCompressor.ts:82-200).    *)
THEOREM TokenCacheCurrent ==
    ASSUME TokenConstants
    PROVE  Spec => [](TypeOK /\ RememberedTokensCurrent /\ LastUsedIsCached /\ LengthBounded)
  <1>1. Init => IInv
    BY InitEstablishes
  <1>2. IInv /\ [Next]_vars => IInv'
    <2>1. SUFFICES ASSUME IInv, [Next]_vars
                   PROVE  IInv'
      OBVIOUS
    <2>2. CASE Next
      BY <2>1, <2>2, NormalizeKeeps, FinalizeKeeps DEF Next
    <2>3. CASE UNCHANGED vars
      BY <2>1, <2>3 DEF vars, wrapper, IInv, TypeOK, SessionsDistinct, EntriesDistinct,
                        LengthBounded, LastUsedIsCached, RememberedTokensCurrent, Cached, GetToken
    <2> QED BY <2>1, <2>2, <2>3
  <1>3. IInv => TypeOK /\ RememberedTokensCurrent /\ LastUsedIsCached /\ LengthBounded
    BY DEF IInv
  <1> QED BY <1>1, <1>2, <1>3, PTL DEF Spec
=============================================================================
