--------------------------- MODULE SessionTokens ----------------------------
(***************************************************************************)
(* The session-token cache of the TypeScript wrapper (IdCompressor.ts).    *)
(* Instead of a session's UUID the wrapper passes the wasm compressor the  *)
(* session's token, its index in the session list.  It remembers tokens in *)
(* a Map, and the token of the last originator outside it.  A session the  *)
(* compressor does not know has the nil token, which is remembered too and *)
(* has to be forgotten when a range of that session is finalized.          *)
(*                                                                         *)
(* Of the wasm compressor only the session list matters.  The Map is the   *)
(* sequence of its entries in insertion order, which is the order keys()   *)
(* yields them in.                                                         *)
(***************************************************************************)
EXTENDS Integers, Sequences

CONSTANTS Sessions,         \* the sessions that originate ops
          LocalSession,
          NoSession,        \* lastUsedSessionId = undefined
          MaxSize,          \* tokenCacheMaxSize, 300 in the code
          Target            \* tokenCacheTarget, 10 in the code

TokenConstants ==
    /\ LocalSession \in Sessions
    /\ NoSession \notin Sessions
    /\ MaxSize \in Nat /\ Target \in Nat
    /\ 0 < Target /\ Target <= MaxSize

VARIABLES sessions,             \* the session list of the wasm compressor
          sessionTokens,        \* the entries of the Map
          lastUsedSessionId,
          lastUsedToken,
          trapped               \* a call of the wasm compressor has trapped

wrapper == <<sessionTokens, lastUsedSessionId, lastUsedToken>>
vars == <<sessions, wrapper, trapped>>

NilToken == -1
Tokens == Nat \cup {NilToken}
IdKinds == {"local", "final"}

Known(list) == {list[i] : i \in DOMAIN list}

TokenIn(list, s) == IF s \in Known(list)
                    THEN (CHOOSE i \in DOMAIN list : list[i] = s) - 1
                    ELSE NilToken

GetToken(s) == TokenIn(sessions, s)

Cached(s) == {i \in DOMAIN sessionTokens : sessionTokens[i].session = s}

Delete(s) ==
    LET i == CHOOSE i \in Cached(s) : TRUE
    IN  SubSeq(sessionTokens, 1, i - 1) \o SubSeq(sessionTokens, i + 1, Len(sessionTokens))

\* Mutant of Evict: the newest entries go instead of the oldest.
EvictNewest(entries) ==
    IF Len(entries) > MaxSize THEN SubSeq(entries, 1, Target) ELSE entries

\* Mutant of Evict: the limit is noticed one entry late.
EvictLate(entries) ==
    IF Len(entries) > MaxSize + 1
    THEN SubSeq(entries, Len(entries) - Target + 1, Len(entries))
    ELSE entries

(* Deletes from the oldest key on while more than Target are left. *)
Evict(entries) ==
    IF Len(entries) > MaxSize
    THEN SubSeq(entries, Len(entries) - Target + 1, Len(entries))
    ELSE entries

Init ==
    /\ sessions = <<LocalSession>>
    /\ sessionTokens = <<>>
    /\ lastUsedSessionId = NoSession
    /\ lastUsedToken = NilToken
    /\ trapped = FALSE

-----------------------------------------------------------------------------
(* Normalizing an ID of an op from origin: three ways to its token. *)

(* A nil token traps as the index of a local ID's session, and the wasm
   object stays borrowed by the call that trapped.                         *)
LastUsed(origin, kind) ==
    /\ origin = lastUsedSessionId
    /\ trapped' = (lastUsedToken = NilToken /\ kind = "local")
    /\ UNCHANGED <<sessions, wrapper>>

(* A nil token for a local ID is refused here by an assertion, which throws
   when the cache is already written; with any other nothing traps.        *)
Use(origin, token) ==
    /\ lastUsedSessionId' = origin
    /\ lastUsedToken' = token
    /\ UNCHANGED <<sessions, trapped>>

CacheHit(origin) ==
    /\ origin # lastUsedSessionId
    /\ \E i \in Cached(origin) : Use(origin, sessionTokens[i].token)
    /\ UNCHANGED sessionTokens

CacheMiss(origin) ==
    LET entry == [session |-> origin, token |-> GetToken(origin)] IN
    /\ origin # lastUsedSessionId
    /\ Cached(origin) = {}
    /\ sessionTokens' = Evict(Append(sessionTokens, entry))
    /\ Use(origin, entry.token)

NormalizeToSessionSpace(origin, kind) ==
    ~trapped /\ (LastUsed(origin, kind) \/ CacheHit(origin) \/ CacheMiss(origin))

-----------------------------------------------------------------------------
(* Finalizing a range first forgets a nil token, then lets the compressor
   add the session, which it does unless the range is absent or refused
   before its session is looked at.                                        *)
\* Mutant of Forget: the Map forgets, the last-used shortcut does not.
ForgetInMapOnly(s) ==
    /\ sessionTokens' = IF \E i \in Cached(s) : sessionTokens[i].token = NilToken
                        THEN Delete(s) ELSE sessionTokens
    /\ UNCHANGED <<lastUsedSessionId, lastUsedToken>>

Forget(s) ==
    IF \E i \in Cached(s) : sessionTokens[i].token = NilToken
    THEN /\ sessionTokens' = Delete(s)
         /\ lastUsedSessionId' = IF s = lastUsedSessionId THEN NoSession ELSE lastUsedSessionId
         /\ lastUsedToken' = IF s = lastUsedSessionId THEN NilToken ELSE lastUsedToken
    ELSE UNCHANGED wrapper

FinalizeCreationRange(s) ==
    /\ ~trapped
    /\ Forget(s)
    /\ \/ UNCHANGED sessions
       \/ s \notin Known(sessions) /\ sessions' = Append(sessions, s)
    /\ UNCHANGED trapped

Next == \E s \in Sessions :
            \/ \E kind \in IdKinds : NormalizeToSessionSpace(s, kind)
            \/ FinalizeCreationRange(s)

Spec == Init /\ [][Next]_vars

-----------------------------------------------------------------------------
(* The types of the variables. *)
TypeOK ==
    /\ sessions \in Seq(Sessions)
    /\ sessionTokens \in Seq([session : Sessions, token : Tokens])
    /\ lastUsedSessionId \in Sessions \cup {NoSession}
    /\ lastUsedToken \in Tokens
    /\ trapped \in BOOLEAN

(* Whatever is remembered of a session, in the Map or outside it, is what the
   compressor would answer now: a nil token does not outlive the session's
   first range, not even in the shortcut for the last originator
   (IdCompressor.ts:84-90).                                                *)
RememberedTokensCurrent ==
    /\ \A i \in DOMAIN sessionTokens :
          sessionTokens[i].token = GetToken(sessionTokens[i].session)
    /\ lastUsedSessionId # NoSession => lastUsedToken = GetToken(lastUsedSessionId)

(* A session that is forgotten in the Map is not the last originator: the
   invalidation, which looks in the Map only, would miss it there.         *)
LastUsedIsCached ==
    lastUsedSessionId # NoSession => Cached(lastUsedSessionId) # {}

(* The Map stays within its limit and holds a session once. *)
CacheBounded ==
    /\ Len(sessionTokens) <= MaxSize
    /\ \A i, j \in DOMAIN sessionTokens :
          sessionTokens[i].session = sessionTokens[j].session => i = j

(* wasm-id-allocator/src/lib.rs:179: "the TS layer sends nil token iff passing
   FinalId and a SessionId it has not tokenized."                          *)
NilTokenOnlyForFinals == ~trapped
=============================================================================
