# A verification of the Distributed ID Allocator

TLA+ models of the ID compressor in this repository, the TLC runs that check
them on small instances, and proofs, checked by TLAPS, of what one compressor
promises its callers, of what it writes and loads, of what the clients of a
document promise each other, and that the TypeScript rewrite does what the Rust
compressor does.

Paths are relative to the root of the repository. Four are abbreviated:
`core/` is `src/rust-wasm-id-allocator/distributed-id-allocator/src/`,
`wasm/` is `src/rust-wasm-id-allocator/wasm-id-allocator/src/`,
`ts/` is `src/typescript-id-allocator/src/` and
`rewrite/` is `src/ff-rewrite-typescript-id-allocator/src/`.

## 1. The system

A *session* generates UUIDs that follow each other: the g-th one is its session
ID plus g-1. An `IdCompressor` maps UUIDs to small numbers. Every ID has a
negative *local* form, -g, at once, and a non-negative *final* form when a
*cluster* of final IDs that covers it has been claimed for the session. Clients
send the ranges of IDs they have generated through a service that orders them
totally, and every client finalizes every range in that order; all of them claim
the same clusters without any further agreement. Once its session has a cluster
with room, a client issues final IDs *eagerly*: it returns the final ID that the
cluster has reserved, long before the range comes back.

### Inventory

| part | state | operations | hard about it | correct if |
|---|---|---|---|---|
| compressor `core/compressor.rs` | generated count, base of the next range, capacity, final ID limit, normalizer, tables | `generate_next_id`, `take_next_range`, `finalize_range`, `set_cluster_capacity`, two normalizations, `decompress`, `recompress` | eager IDs between the claims of others; fill, expand or overflow at every boundary; refused ranges that leave traces | the invariants of `core/lib.rs:25-35` hold; nothing that was issued or finalized ever changes its meaning |
| tables `core/compressor/tables/` | a chain of clusters per session, the clusters by final ID | lookup by local ID, final ID, stable ID; collision check | three orders over one set of clusters, binary searches in each | clusters tile the final IDs, and each session's local IDs |
| normalizer `session_space_normalizer.rs` | list of ranges of local IDs | `add_local_range`, `contains` | merging ranges, off-by-one | it holds exactly the IDs issued as local ones |
| persistence `core/compressor/persistence.rs`, `persistence_utils.rs`, `tables/session_space_normalizer/persistence.rs` | none; bytes | `serialize` with and without local state, `deserialize` | session indices shift when the local session is left out; two widths; two forms of a session; base IDs are recomputed | a resumed compressor is the one that closed; a loaded summary converges |
| ID types `id-types/` | none | sign of an ID, generation counts, UUID arithmetic | carry across the version and variant bits | every UUID is a valid one, and arithmetic on UUIDs is arithmetic on integers |
| wasm adapter `wasm/lib.rs` | the compressor | forwards, converting from and to f64; hands out telemetry counters | integers in f64, NaN as error, tokens as indices, counters reset when read | no number changes on the way; nothing is counted twice or lost |
| TypeScript wrapper `ts/IdCompressor.ts` | cache of session tokens, last used token | forwards; caches on normalization, forgets on finalization | negative caching, eviction, exceptions between two writes | a cached token is the one wasm would return, and answers like the session ID |
| pure TypeScript rewrite `rewrite/` | as the compressor, in other structures | as the compressor | sorted maps, its own collision check and limits | it agrees with the Rust compressor |
| total order service (outside; simulated by `ts/test/id-compressor/idCompressorTestUtilities.ts:210-458`) | a log, and each client's place in it | order, deliver | clients are at different places | all ops are delivered in one order |

Callers reach the Rust compressor through the wasm adapter and that through the
wrapper; a compressor has no threads, callbacks or timers. All concurrency lies
in the interleaving of generating, sending, delivering, joining and resuming of
several clients.

## 2. Modules

| module | models | built on |
|---|---|---|
| `ClusterTable` | the tables, as operators on one sequence of clusters | |
| `Compressor` | every operation of the compressor, as an operator on the record of its fields | `ClusterTable` |
| `IdCompressor` | one compressor that is called in every possible way | `Compressor` |
| `StableIds` | the packing of a UUID into a number, in Rust and in the rewrite | |
| `LocalRanges` | the normalizer's list of ranges: how it grows and how it is searched | |
| `Persistence` | serialized form, both kinds, field by field, and loading | `Compressor`, `StableIds`, `LocalRanges` |
| `Ledger` | what a document promises about final IDs, without sessions and clusters (abstract) | |
| `Document` | clients with a compressor each, the ordering service, joining and resuming; implements `Ledger` | `Persistence` |
| `SessionSpaceNormalizer` | the normalizer of one session, queried in every possible way | `LocalRanges` |
| `SessionTokens` | the wrapper's token cache | |
| `WasmAdapter` | every operation of the wasm adapter, as an operator on the compressor, and the telemetry counters | `Persistence` |
| `Wrapper` | the TypeScript wrapper with its cache on the adapter on the compressor, closed and reopened | `WasmAdapter`, `SessionTokens` |
| `CompressorProofs`, `IdCompressorProofs`, `PersistenceProofs`, `DocumentProofs`, `NormalizerProofs`, `SessionTokenProofs`, `WrapperProofs`, `RewriteProofs` | lemmas and theorems; `CompressorProofs` has those of `ClusterTable` too, `PersistenceProofs` those of `StableIds` | the module each is named after (`SessionSpaceNormalizer`, `SessionTokens`, `RewriteSystem`) |
| `AppendOnlySortedMap` | the sorted map of the rewrite and its normalizer, binary search included | |
| `RewriteNormalizer` | both normalizers, side by side in one session | `SessionSpaceNormalizer`, `AppendOnlySortedMap` |
| `Rewrite` | every operation of the rewrite's compressor, as an operator on the record of its fields | `AppendOnlySortedMap` |
| `RewriteSystem` | one compressor of the rewrite that is called in every possible way; implements `IdCompressor` | `Rewrite` |
| `MCIdCompressor`, `MCDocument`, `MCNormalizer`, `MCSessionTokens`, `MCWrapper`, `MCRewrite` | constants for TLC | |

### How the state corresponds to the code

* **IDs.** A session ID is the number of its `StableId`, so `SessionId + LocalId`
  (`session_id.rs:94-99`) is integer arithmetic. 0 is the nil UUID, which the
  range queries exclude (`session_space.rs:98, 141`), and no session.
* **Clusters.** The code keeps a cluster in the chain of its session and a
  reference to it in the final space, and only ever appends to both
  (`add_empty_cluster`, `compressor.rs:298-319`). The model keeps one sequence in
  the order of the final space in which each cluster names its session. The
  chain of a session is a subsequence of it.
* **Lookups.** `None` and `Err` are `{}`, `Some(x)` and `Ok(x)` are `{x}`. A binary
  search is the set of the elements that its comparator calls equal. That it
  finds one of them needs the order, which is part of the invariant
  (`FinalsOrdered`, `ChainsOrdered`) and makes the set at most a singleton.
* **Sessions and tokens.** `sessions` is `session_list`; a token is an index less one.
* **Normalizer.** `Compressor` holds the set of local IDs; that the range list
  implements it is what `SessionSpaceNormalizer` shows. `Persistence` writes the list,
  built up from the set in the order the IDs were given (`LeadingLocals`).
* **finalize_range** is one action, with its returns in the order of the code
  (`FinalizeResult`): malformed, collision, out of order. An out-of-order range
  of an unknown session creates the session all the same. `Claim` has the four
  ways to place a range: first cluster, fill, expand, overflow to a new cluster.
* **Mutants.** A definition whose comment begins "Mutant of" is a plausible wrong
  version of the one it names. No specification uses it; substituted for the
  right one, it makes TLC refute a property, which `PROJECT.json` pairs it with.

### Document

`Document` is the network the tests simulate. An op is a range together with the
op-space form of *every* ID its sender has generated, not only of the new ones, and
with the final IDs of others that its sender knows (a client may refer to any ID in
any op). Taking a range and appending it to the log are one step. An op that is
still on its way while others are appended behaves like one that is appended at
once by a sender that lags behind in the log, for what an op holds depends only
on the sender's compressor, and `Deliver` may let any client lag. `Join` loads
what any client writes with `serialize(false)`, at any moment, and goes on from
that client's place in the log. Resuming needs no action: `ResumeIsExact`
says that it changes nothing, in any state.

`Ledger` is the abstract specification of it. An assignment is a final ID and its UUID.
A client *issues* an assignment when the cluster that holds its next ID reserves it,
and *hears* of those in the clusters that the log has filled. The mapping takes what a client
decompresses (`Assigned`) apart into what is finalized at that client and what is
eager. `Ledger` lets a client issue and hear what it likes and demands three things:
assignments are one to one over all clients at all times; none is ever withdrawn, an eager
one only becomes a finalized one; and any two clients have heard prefixes of the same order.

### Persistence

What is written is a sequence of 32-bit words: `U32` is one, `U64` two, low word first.
A `U128` counts as one, because nothing ever reads part of one. A reader is given
the words and a place, so that a field too many, a wrong width, or a count that does not
fit what follows makes it read other fields than were written. The local session is written as
a UUID and the list of sessions as stable IDs (`persistence.rs:86, 126`), and each
is read back by the conversion the code has for it.

### StableIds

The field sizes are constants (2^48, 2^12 and 2^62 in the code). A mask and a shift
are a remainder and a quotient by the size of the fields below. `ToUuid` drops what is
above the upper field, as the mask does.

### SessionTokens

Of wasm only the session list is kept. `FinalizeCreationRange` leaves open whether
the compressor adds the session (it does so also for a range it then refuses,
`compressor.rs:237`). A nil token with a local ID traps in wasm
(`session_space.rs:402`, or the index that it becomes in a release build), after which
the wrapper is not used any more (`trapped`).

### WasmAdapter and Wrapper

A JavaScript number is an integer, `NaN`, or `WithFraction`, which stands for all
that are between two integers. `AsF64` keeps the integers up to `ExactLimit` (2^53) and
rounds those beyond to every second one; `AsI64` and `AsU64` are Rust's casts: NaN is 0,
a fraction is cut off, a negative number saturates. A UUID that is refused is `{}`.
The adapter holds nothing but the compressor, so its operations are operators on
it. `Wrapper` has the actions: each is a method of the TypeScript class with the wasm
call it makes. `SessionTokens` is instantiated with the compressor's own session list.
`Reopen` is a `serialize(true)` followed by `deserialize`, which makes a wrapper with an empty
cache; the ranges that were sent before are still to come back.

The telemetry counters are a variable of `Wrapper` beside the compressor, as no
operation of the compressor reads them. `counted` adds up those that were handed out (by a
finalization that succeeds, whichever session it is of) or lost (on closing: they are not
serialized), so that `StatsAddUp` can compare the sum with what is there.

### The rewrite

`Rewrite` is translated from the TypeScript of its own and shares no definition with
`Compressor`. Clusters live in the chain of their session; the final space is a list
of references to them (session and place), for the code holds the same object in
both lists and compares it by identity (`rewrite/IdCompressor.ts:217`). The two can
come apart: `addEmptyCluster` pushes to the chain, then tests for a collision, then
throws (`:271-274`), and the model keeps that order. An operation that throws is the
record as it is then. The normalizer is the sorted map, searched by the binary search
of the code; cluster searches are the set of elements their comparator calls equal.

`RewriteSystem` makes the calls that `IdCompressor` makes. `Abstraction` maps a
record of the rewrite to one of Rust: the final space dereferenced, the limit
computed, the map read as a set. Under it `ImplementsRust` is the specification of
`IdCompressor`, checked as a property. Since all of `Document` happens through
these operations, what holds there for clients of Rust holds for clients of the
rewrite, as far as their summaries can be written (see below). The operations
that only read are compared answer by answer (`TranslationsAgree`,
`RecompressionAgrees`), and both properties name the inputs on which the rewrite
differs:

* the final ID at the limit. The limit is exclusive, the comparison
  (`rewrite/IdCompressor.ts:302`) is `>`, so the first ID that is not finalized is
  normalized, 0 by an empty compressor among them. Rust refuses it.
* UUIDs that a remote session has reserved and not finalized. `:436` compares a
  generation count with a local ID, which is negative, so the condition is always
  true, and the UUID recompresses to a final ID that does not decompress. Rust refuses it.

## 3. Runs

| run | instance | shows |
|---|---|---|
| `compressor` | sessions 100 and 106, up to 4 IDs each, capacity 1 or 2 | the documented invariants of one compressor whatever it is asked to finalize |
| `document` | a founder and one that joins, 3 IDs each, 4 ops, capacity 1 then 1 or 2 | convergence, acceptance of every range, meaning of every ID sent |
| `join` | a founder and two that join, 2 IDs each, 3 ops | clients that start from summaries of summaries read every ID alike, relayed ones too |
| `delivery` | a founder and one that joins, 3 IDs each, 3 ops, capacity 1 then 2 | `Document` implements `Ledger`; every taken ID becomes final everywhere; a resume is exact at any moment; `DocInv`, from which the rest is proved, holds |
| `wrapper` | local session 14, others 5 and 23, 3 own IDs, 2 of session 5 and 1 of 23, plus a range of 23 that is refused, capacity 1 then 2, a cache of at most 2 that evicts to 1 | numbers and UUIDs cross the boundary unchanged; remembered tokens are right and answer right; counters add up; `WrapperInv`, from which this is proved, holds |
| `normalizer` | 9 IDs, every pattern of local and eager, queries in and around them | Rust's list and the rewrite's map are the set; the map's searches are right |
| `rewrite` | as `compressor`, with sessions 100 and 200 | the rewrite implements Rust, answers alike, resumes exactly; `RewriteInv`, from which the rest is proved, holds |
| `close_sessions` | sessions 100 and 102 | *violation*, see below |
| `nil_token` | 5 sessions, a cache of at most 3 that evicts to 2 | *violation* |
| `orphan_cluster` | as `rewrite`, sessions 100 and 102, 3 IDs | *violation* |
| `unchecked_expansion` | as `rewrite`, sessions 100 and 104 | *violation* |
| `summary` | as `rewrite`, 2 IDs | *violation* |

**Bounds.** Every boundary in the code is relative to the capacity: exactly full,
one more, reserved but unused. With capacity 1 a first cluster has room for the
range and one more ID. With 4 IDs a session can fill its first cluster, have it
expanded or overflow into a second one with the overflow split between the two,
and issue local, eager, and again local IDs. Session 106 is six away from 100, so
that the span `finalize_range` checks (range + capacity) runs into it for long
ranges and not for short ones. In `document`, four ops are the shortest log with
a cluster of another client between two of the same and a capacity change before
either. `NarrowLimit`, 2^32 in the code, is 4: the 32-bit layout is left for the
64-bit one in the middle of a run, when the clusters first reserve 4 final IDs. The cache
of 2 with a target of 1, fewer than the sessions, stands for 300 and 10: eviction
removes old entries and keeps the newest; `SessionTokenProofs` has every size. In
`wrapper` the fields of a UUID have 2, 4 and 4 values: the third ID of session 14 is 16,
which carries across all three fields, version and variant included, and the claims
of the three sessions do not meet. Numbers are exact up to 6,
which the final IDs of a run exceed; `IdsCrossTheBoundary` is about those below, as
`Number.isSafeInteger` is. Elsewhere the fields are large enough for the sessions and the
packing is exercised without a carry. `MaxGenerated`, `MaxOps` and the choice of
`RemoteRanges` are bounds of the model only; `Document`, `Wrapper` and the small modules stop when they
are reached, hence `CHECK_DEADLOCK FALSE`.

**Fairness.** Only `delivery` assumes any: each client that has joined eventually
processes the next op of the log. This is what a total order broadcast service is
(`compressor.rs:206-208`). Nobody is obliged to generate, send or join. `KeepsPromise`, in the same
run, is a safety property and uses none of it.

### What the runs disagree with

* **Close sessions** (`session_space.rs:132-154`). The collision check looks at the
  nearest session at or below the end of a claim. A client's own session is always
  in its map, even without a cluster; at another client it is not. With sessions
  100 and 102, client 100 accepts its own range and 102 refuses it, because of its
  own session; with 102's range it is not the same again. Final ID 0 ends up with
  two UUIDs, against invariant 2 of `core/lib.rs:29`. Random session IDs are not this
  close; nothing checks it. The rewrite skips empty sessions
  (`rewrite/sessions.ts:81`).
* **Nil token** (`ts/IdCompressor.ts:175-197`). The assertion that only final IDs come
  with a nil token is inside the branch for an originator that is not the last
  used one, and the last used one is set before it. A second local ID from the same
  unknown originator reaches wasm with the nil token, against `wasm/lib.rs:179`.
* **Orphan cluster** (`rewrite/IdCompressor.ts:271`). A cluster that collides is refused after it
  was pushed to its chain. If it is the local session's, the IDs generated next are
  final IDs of a cluster that the final space does not hold: they do not
  decompress, until another session claims them. In the run 102 finalizes first, 100's own
  range is refused, and 100 goes on generating.
* **Unchecked expansion** (`rewrite/IdCompressor.ts:219`). A collision is looked for when a
  cluster is added and not when one is expanded. 104 claims its first cluster, 100 claims
  100 to 102 behind it, and expands that over 104. The comment at
  `rewrite/sessions.ts:97` rules such chains out; Rust tests every range.
* **Summary** (`rewrite/IdCompressor.ts:464`). The local session is left out of a
  summary only if it has not generated anything, and each session that is written
  is asserted not to be empty: a client between its first ID and the return of
  its range cannot write a summary. The Rust compressor decides in the same way
  (`core/compressor/persistence.rs:112-121`) but asserts nothing: it writes the empty
  session, and whoever loads the summary has one that is not its own.

The two exceptions named above under the rewrite are differences too; the
properties state them, so they need no runs of their own.

## 4. Proofs

Proved for any set of sessions, any capacities, any bound on the IDs generated and on the
log, any sizes of the fields of a UUID, of the numbers of a summary, and of the cache:

| module | theorem | says |
|---|---|---|
| `IdCompressorProofs` | `IndInvHolds` | `Spec => []IndInv`, type correctness included |
| | `ClustersTileHolds` | clusters tile the final IDs and each session's local IDs |
| | `IssuedIdsDecompressHolds` | invariant 1 of `core/lib.rs` |
| | `IssuedIdsRoundTripHolds` | an issued ID comes back from op space as itself |
| | `FinalsPermanentHolds` | invariant 2 |
| | `TranslationsPermanentHolds` | invariant 3 |
| | `TokensPermanentHolds` | tokens are valid for the compressor's lifetime |
| | `IssuedIdsRecompressHolds` | invariant 4, under `SessionsApart` |
| | `FinalsNormalizeHolds` | every finalized ID normalizes and comes back, under `SessionsApart` |
| `PersistenceProofs` | `SummaryLoads` | who loads a summary has the writer's clusters, limit, capacity and sessions |
| | `LocalStateLoads` | a compressor that is closed and resumed is the same compressor |
| | `UuidsAreVersion4` | every stable ID is written as a version 4 UUID |
| | `StableIdsRoundTrip` | and is read back as itself, if it is within the space |
| | `UuidsRoundTrip` | a version 4 UUID is written as it was read |
| | `RewritePacksAlike` | the rewrite's shifts and masks compute the same |
| `DocumentProofs` | `HistoryHolds` | `Spec => []DocInv` |
| | `TypesHold` | types of the document's state |
| | `RangesAcceptedHolds` | no range is refused in the order of the service |
| | `ConvergenceHolds` | clients that are equally far hold the same clusters |
| | `ResumeIsExactHolds` | closing and resuming changes nothing, at any moment |
| | `FinalsAgreeHolds` | no final ID stands for two UUIDs, eager ones included |
| | `DeliveredIdsHolds` | an ID in an op means the same to all, then and later |
| | `RelayedIdsHolds` | so does a final ID that is passed on by others |
| | `KeepsPromiseHolds` | `Document` implements `Ledger` |
| `NormalizerProofs` | `TypesHold` | types of the normalizer's state |
| | `ContainsIsExactHolds` | the range list contains exactly the local IDs given |
| | `SearchIsOrderedHolds` | its binary search sees ordered ranges, for every query |
| | `MapImplementsListHolds` | the rewrite's map has the same ranges and finds the same IDs |
| | `NeighboursAreNearestHolds` | the map's binary search finds the nearest pairs, in a map of any size |
| | `RangesAreExactHolds` | its range queries yield the pairs between two keys, in order |
| `SessionTokenProofs` | `TokenCacheCurrent` | the cache is bounded and never out of date |
| `WrapperProofs` | `WrapperInvHolds` | `Spec => []WrapperInv`, under `CountsExact` as the rest |
| | `TokensCurrentHolds`, `LastUsedIsCachedHolds`, `CacheBoundedHolds` | the cache on a real compressor, reopenings included |
| | `AnswersAreCurrentHolds` | an answer by token is the answer by session |
| | `StatsAddUpHolds` | telemetry counts everything once |
| | `IdsCrossTheBoundaryHolds` | a safe integer crosses to its UUID, from it, and through op space; under `OwnIdsApart` too |
| `RewriteProofs` | `RewriteInvHolds` | `Spec => []RewriteInv`, under `SessionsFarApart` as the rest |
| | `SpacesAgreeHolds` | chains and final space hold the same clusters |
| | `ImplementsRustHolds` | the rewrite implements `IdCompressor` |
| | `TranslationsAgreeHolds` | normalization and decompression answer as Rust does, but for the ID at the limit |
| | `RecompressionAgreesHolds` | so does recompression, but for what a remote session has reserved |
| | `IssuedIdsDecompressHolds` | an issued ID decompresses to its UUID, which `orphan_cluster` refutes for close sessions |
| | `ChainsDisjointHolds` | no two chains overlap, which `unchecked_expansion` refutes for close sessions |
| | `ResumeIsExactHolds` | who can be serialized with its local state resumes as the very same compressor |
| | `SummariesConvergeHolds` | who loads a summary has the writer's clusters and capacity |

They rest on the named assumptions of the modules: sessions are numbers other than 0,
capacities are positive (wasm and `set_cluster_capacity` refuse others), the local
session is one of the sessions, the
fields of a UUID are not empty, a number of 32 bits has at least two values, the cache
evicts to at least one entry. Six facts the code relies on and does not check
are premises of the theorems that need them. TLC evaluates
each of them on the constants of the runs (the `ASSUME`s of `MCIdCompressor`, `MCDocument`, `MCWrapper` and `MCRewrite`):

* `SessionsApart`: what one session may generate does not reach another session ID. `IssuedIdsRecompress` and
  `FinalsNormalize` look IDs up by UUID. Claims of the same cluster space are kept apart by the
  collision check, but that does not look at sessions without a cluster, which an out-of-order range
  leaves behind. Random UUIDs are apart.
* `SessionsFarApart`: nor does what a session may *reserve*, the unused rest of a cluster included.
  All of `Document` needs it, and all that is said of the rewrite; `close_sessions`, `orphan_cluster` and
  `unchecked_expansion` show what happens otherwise. It is what random UUIDs give. In `Document` a session
  reserves at most what it generates and a capacity; in `RewriteSystem` twice that much may be finalized, as a remote
  range has any base and any length up to `MaxGenerated`, refused ones included.
* `SessionsFit`: there are no more sessions than a narrow number counts. The width is chosen from the final IDs
  alone (`core/compressor/persistence.rs:98-104`), and a session without IDs has an index too; the
  documents of which the theorems speak have fewer than 2^32 of them.
* `SessionsStable`: sessions are stable IDs of UUIDs, so that writing the local one as a UUID loses nothing.
* `CountsExact`: `SessionsFit`, and neither a token nor the count of the IDs a session generates exceeds 2^53. The
  adapter casts both to f64 unchecked (`wasm/lib.rs:121, 132`). Final IDs may exceed it: the theorems are about those too, except
  where a property speaks of safe integers.
* `OwnIdsApart`: what the local session may generate reaches neither another session nor the end of the UUIDs.

**The compressor.** None of its properties is inductive. `IndInv` adds
that the table is well formed (`TableInv`: final bases and local bases are sums of
capacities; all clusters of a chain but its tail are full; clusters are ordered in
both spaces, which follows from the sums but is what the searches need) and, of the record of
one compressor (`CompressorInv`, so that a document can say it of each of its own), that an
ID is in the normalizer exactly if it was issued as a local one and was otherwise
issued as the final ID its cluster holds, that nothing of the own
session is finalized or in a taken range before it is generated (without
it an eager ID could be issued twice), and that every cluster's session has exactly
one token. `CompressorProofs` proves that each of the four
placements keeps the table well formed and *extends* it: clusters keep their
session and bases and only grow; that a claim for an accepted range is one of
them; and that each operation keeps `CompressorInv`. `IdCompressorProofs` has one step lemma per action;
the action properties follow because a lookup that succeeds in a table gives the
same in every extension of it. By UUID, the lookups succeed because the nearest
session at or below a UUID is the only one whose clusters can hold it.

**The serialized form.** A reader is given words and a place. `StandsAt` says that some words stand at a place of
a sequence, and a sequence put together of parts has each part at the sum of the lengths before it, which is all that
the readers' own sums of widths have to agree with. What is read is then what was written: numbers by a quotient
and a remainder, sessions in place, clusters in either width. The loops of
the loader are recursive functions; that the sessions loaded are the sessions written, with or without the first, and that the base
IDs recomputed cluster by cluster are those that were not written, is shown by induction on the set of
the lengths for which it holds. The ranges written hold exactly the normalizer, for each step of
`LeadingLocals` adds one ID to what its ranges hold, and none reaches below the last.

**The document.** `Replay` is the history of the document's tables: what the log makes of them, op by op, whoever sent
it. `DocInv` says that each point of it is a well-formed table that grew from those before (`HistoryInv`), that the
ranges of a session follow each other without a gap up to what it has taken (`RangesInv`), that each client is the
compressor of its session at one point of the history (`ClientsInv`), and where the IDs in an op come from (`IdsInv`). It is
inductive: a range in the log is acceptable to whoever comes to it (`RangesAccepted`), since it continues its
session's chain and `SessionsFarApart` rules out a collision; so a client that processes it stays on the history; and one that
joins is put on it by `SummaryLoads`. What is true of all clients then follows from there being one history:
a lookup that succeeds at one point gives the same at each later one.

`KeepsPromise` is proved step by step under the mapping. The assignments that all clients know are those of the last
table of the history, where each final ID and each UUID has one place. Generating is `Issue` if the ID is eager and else a
stutter; sending and proposing a capacity are stutters, as they change no clusters; delivering is `Hear`, because the
table of a later point finalizes what the earlier did and more; joining is `Open`.

**The normalizer.** An ID is only ever added to the last range or behind it. That this keeps the
list exact needs that ranges descend with a gap between any two of them (`Separated`)
and that none reaches beyond the IDs generated (`WithinGenerated`). The rewrite's map is the list in another form (`MapOf`), so
that its keys descend as the ranges do. Its binary search is a recursive function on the parts of the map: that it is one
(`SearchExists`) and that it answers where the key is or would be (`SearchFinds`) is shown by induction on the
size of the part, of which each round leaves less (`RoundNarrows`).

**The packing.** `FieldsOfUuid` computes the five fields of a number put together from
five; it rests on one lemma about a quotient and a remainder (`Split`) and its converse
(`Rejoin`). The theorems follow field by field. `RewritePacksAlike` needs that a shift of a
masked field is exact.

**The cache.** That a nil token is forgotten when its session's range comes, in the
shortcut too, needs that the last originator is in the Map (`LastUsedIsCached`), and that
the Map and the compressor hold each session once (`EntriesDistinct`, `SessionsDistinct`).
Eviction keeps `LastUsedIsCached` because the entry just added is the newest and at least one
is kept.

**The wrapper.** `Cache` is `SessionTokenProofs` instantiated for the compressor's own list of sessions, so that each action of
`Wrapper` is, for the cache, one of `SessionTokens` or leaves it alone; a reopening, which is not, begins it anew. For the
compressor each action is one of `Compressor`, once the numbers that come are shown to be those that went: a count and a
token are exact under `CountsExact`, a session comes back from its UUID by `StableIdsRoundTrip`, and a reopening gives the very
compressor by `LocalStateLoads`. That a range that comes back is acceptable to `CompressorInv` needs that none on
its way names an ID yet to be generated (`SentInv`). Counters are kept right because a claim adds a
cluster in exactly the two cases in which one is counted (`ClaimTallied`), and a new local ID is not yet in the normalizer
(`GenerateTallied`). A safe integer is never a rounded one, so that
each step of `IdsCrossTheBoundary` is about the ID itself.

**The rewrite.** `RewriteInv` is that the abstraction of the rewrite's state satisfies `IndInv`, so that whatever is proved of the
Rust compressor can be cited for it, and what relates the two representations (`Linked`): the references of the final
space and the clusters of the chains are each other's, and every cluster is linked where its session and
place say. To it belong that no cluster has more left than one capacity (`Reserved`), so that no claim reaches another
session, and that the map's runs are in order with gaps between them and hold exactly the local IDs issued (`RunsHold`). Each operation on chains, references and map is shown to be
Rust's on table and set: the two placements that change a tail change the cluster it refers to, and *by identity last* is
the same as *last in the table*; the rewrite's collision test and Rust's both find nothing. A step of the rewrite is then a
step of `IdCompressor`, which keeps `IndInv`. The answers agree because each search of the rewrite becomes a lookup
in the table.

What the rewrite writes has seven parts, each at the sum of the lengths before it. Its loader takes clusters one by one, each
with the base IDs that those before it leave, which are the ones that were not written; the lists of runs
give back the map, which keeps no more than its runs. Chains and references are determined by the order in which the clusters were
claimed (`LinkingUnique`), so that what is loaded is the very record that was written.

**Only model-checked.** `TakenIdsFinalized` is liveness, beyond the prover: every other property of a passing
run is proved. The violations are TLC's, as are the answers at the two inputs on which the rewrite differs.

## 5. Not modelled

* Serialized input that no compressor has written: the reader panics or, for an unknown
  version, returns an error (`persistence.rs:14-18`), which the model has.
* The events the wrapper logs from the counters and that it logs them only for ranges
  of its own session (`ts/IdCompressor.ts:100-126`); the sizes it logs when it
  serializes; that a deserialized wrapper has no logger (`:250`).
* The text of errors (`get_normalization_error_string`), debug formats, equality for tests.
* The text form of a UUID. The nil UUID only as the number that no session has.
* That the wrapper's comment has the capacity "less than `IdCompressor.maxClusterSize`"
  (`ts/IdCompressor.ts:75`) where the adapter accepts the limit itself (`wasm/lib.rs:96`): no
  behaviour depends on it.
* In the rewrite: the bytes of a number, `equals`, telemetry, and the map's accessors that
  nothing in it calls.
* Random choice of session IDs, which `close_sessions` is about the failure of; tests,
  benchmarks, build files.
* Resuming from a state older than what the client has sent since. The code cannot
  tell, and `compressor.rs:158` would wrap around; nothing documents what should
  happen, and it is for the host not to do it.

## 6. What could follow

All components that keep state or transform data are modelled, and all their safety properties that a run checks are proved. What is
left is outside the reach of these tools or of this code: a proof of the liveness of `Document`; a document of
clients of both kinds, if the two compressors ever read each other's summaries (their formats differ today); and the rewrite where
sessions are close, once its collision test covers expansions.
