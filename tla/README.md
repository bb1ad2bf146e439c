# Formal models of the snapshot chain, the block filter index, stages and the sharing endpoint

This directory holds TLA+ models of four parts of the repository:

- the versioned table snapshot chain (`src/query/storages/common/table-meta/src/meta/v3/snapshot.rs`);
- the block filter index that prunes blocks (`src/query/storages/common/index/src/bloom.rs`), together with the Boolean functions the constant folder uses while pruning (`src/query/functions/src/scalars/boolean.rs`);
- stage metadata: the option parsers and the stage directories (`src/meta/types/src/user_stage.rs`);
- the authentication middleware of the sharing endpoint (`src/query/sharing-endpoint/src/middlewares.rs`).

TLC model-checks all four on small instances. For every instance, TLAPS proves:

- the main safety properties of the snapshot chain, including that no persisted file is ever replaced;
- that the chain implements an abstract append-only log of versions;
- the soundness of the filter's rewrite step;
- that stage directories are disjoint, and that the stage catalog implements an abstract allocator of non-overlapping directories;
- that the middleware forwards only decoded credentials.

## The system and its parts

| Part | Source | What it does | Model |
|---|---|---|---|
| Table snapshot (v3) | `meta/v3/snapshot.rs` | `TableSnapshot::new` stamps a new snapshot with the adjusted, trimmed wall clock. `from_previous` clones a parent and links to it by `(id, format_version)`. `From<v2>` upgrades a v2 snapshot. `build_segment_id_map` numbers segments. `to_bytes` writes the header and the payload. | `TableSnapshot`, `TableSnapshotProofs` |
| Timestamp helpers | `meta::monotonically_increased_timestamp`, `trim_timestamp_to_micro_second` (not under `src/`) | Nudge the clock past the parent's timestamp, then truncate to µs. | `TableSnapshot`, from spec §4.5 |
| Block filter index | `index/src/bloom.rs` | `try_create` builds one Xor8 filter per supported column from the siphash digests of all input blocks, with nulls hashed as 0. `find` looks up a constant: a v2 filter by its typed value, a v3 filter by its digest from the caller's map, and a constant missing from the map counts as present. `eval` rewrites every `col = const` the filter rules out to `false` and folds the result. | `BlockFilter` |
| Boolean functions | `scalars/boolean.rs` | Domain closures (used by folding) and evaluation closures of `not`, `and_filters`, `and`, `or` and `xor`. `not`, `xor` and `and_filters` pass nulls through. The nullable `and`/`or` are Kleene. | `BlockFilter` |
| Constant folder | `ConstantFolder::fold` (not under `src/`) | Evaluates calls whose arguments are all constant, and otherwise folds through the domain closures. | `BlockFilter`, from spec §4.3 |
| Stage option parsers | `src/meta/types/src/user_stage.rs` | `FromStr` of `OnErrorMode`, `StageFileFormatType` and `StageFileCompression`. | `StageOptions` |
| Stage directories | `src/meta/types/src/user_stage.rs` | The `UserStageInfo` constructors, and `stage_prefix`, the object-store directory of a stage's files. | `UserStage` |
| Sharing endpoint auth | `src/query/sharing-endpoint/src/middlewares.rs` | `SharingAuthImpl::call` decodes the `Authorization` header into `Credentials`, defaults the `Content-Type`, and passes the wrapped endpoint's result back. | `SharingAuth` |
| Committed log of versions | spec sections 3 and 8 (the catalog is not under `src/`) | What readers of the chain are promised: an append-only log of timestamped versions. | `SnapshotLog` |

**How the parts interact.** A writer derives a new snapshot from the latest persisted one and adds the new segments. Each segment's blocks carry filter blocks built by `try_create`. The writer then persists the snapshot. A query builds its digest map once (`find_eq_columns`, `calculate_scalar_digest`). Its scan tasks then call `eval` on every block's filter, and that call uses `boolean.rs` through the folder.

A `COPY` or `CREATE STAGE` statement hands its option texts to the stage parsers. Stage files live under the directory `stage_prefix` returns. The sharing endpoint authenticates each request before the share handlers run. None of these touches the snapshot chain or the filters.

The snapshot and filter models share no state. Pruning depends only on each block's filter, and the chain depends only on the snapshot fields. So they are checked separately, and no composed module would add a behaviour.

## Modules

**`TableSnapshot`** models the snapshot chain.

- **State:**
  - `store`: id → persisted file (header version and snapshot), or `None`.
  - `draft`: writer → snapshot being built, or `None`.
- **Constants:** pools of `Ids`, `Segs` and `Writers`; the clock resolution (`SubTicks` per µs); the clock bound `MaxMicros`; and ε (`EpsMicros`, `EpsSub`).
- **Operators translated from the code:**
  - `NewSnapshot` (`new`, lines 73-102: the adjust at 85 comes before the trim at 88);
  - `FromPrevious` (104-118);
  - `FromV2` (171-185);
  - `BuildSegmentIdMap` (161-168: `count - i - 1`, and the last insertion into the HashMap wins);
  - `ToBytes` (129-150: the header carries `self.format_version`).
- **Actions:**
  - `CreateTable` calls `new` with no parent.
  - `Derive` loads any persisted file through the versioned reader (v2 is converted by `From<v2>`) and calls `from_previous` with a fresh id and any clock reading.
  - `AddSegment` is the writer's update of `segments`. The spec says new segments go at the end; the ordinal rule favours the front; both are modelled.
  - `Persist` stores `to_bytes` under the snapshot's id.
- **Initial state:** no snapshot, or one v2 snapshot, whose timestamp may be absent.
- **Left out:** schema, summary, cluster key and statistics location. They are copied verbatim by every operation here.

**`BlockFilter`** models the filter index and pruning.

- **Data:** a predicate is a sequence of nodes (`eq`, `lit`, `not` and the binary Boolean functions). Rows map columns to values or `NULL`; only nullable columns may hold `NULL`.
- **Operators:**
  - `TryCreate` returns the set of results of `try_create`: `bad_arguments`, `none`, built filters, or a construction error.
  - `Filters` is an Xor8 filter, abstracted as any superset of its keys. It has no false negatives and arbitrary false positives.
  - `Find`, `Rewrite` (`visit_expr_column_eq_constant` with `eval`'s callback) and `Eval`.
  - `Fold` is the folder. `BoolDomainOf`, `NullableDomainOf` and `EvalOp` are the closures of `boolean.rs`.
  - `RowValue` is the SQL value of the predicate on a row, the reference that `PruningSound` compares against.
- **Actions:**
  - `WriteBlock` is `try_create` with the current version.
  - `WriteV2Block` writes a legacy block whose filters are over typed values.
  - `EvalBlock` is a scan task calling `eval`. It may repeat, since several tasks may evaluate one block.
- **Fixed per behaviour:** the query and its digest map are chosen in `Init`. The map may lack any of the constants (spec §9: the map is owned by the caller).

- **Refinement mapping:** `LogOf` maps each persisted file to a log entry: its timestamp, and the id its `prev` link names. `Log == INSTANCE SnapshotLog WITH log <- LogOf, ...`, and `SnapshotLogSpec == Log!Spec` is a property of the chain.

**`SnapshotLog`** is the abstract specification of the chain.

- **State:** `log`, which maps id → `[ts, parent]` or `None`.
- **Action:** `Commit(i)`. It adds one entry whose parent, if any, is committed and not stamped later. No other entry changes.
- **Initial state:** the log is empty, or holds one root version, possibly without a timestamp (v2).

**`TableSnapshotProofs`**, **`BlockFilterProofs`**, **`UserStageProofs`** and **`SharingAuthProofs`** hold the TLAPS proofs about the module each is named after (see *What is proved*).

**`StageOptions`** models the option parsers.

- **Texts:** a text is a sequence of tokens: keywords in lower, upper or mixed case, plus the symbols `0`, `5`, `%` and `+`. The token set is chosen so that equal strings are equal token sequences, and so that `replace("SKIP_FILE_", "")` drops exactly the `SKIP_FILE_` tokens.
- **Operators translated from the code:**
  - `ToUppercase` and `ToLowercase`;
  - `ReplaceSkipFile`;
  - `ParseU64` (an optional `+`, then digits);
  - `OnErrorFromStr` (214-234);
  - `FormatFromStr` (147-164);
  - `CompressionFromStr` (108-127).
- **State:** an option clause (the three texts) and what each parser returned.
- **Actions:** `ParseOnError`, `ParseFormat` and `ParseCompression`. Each hands one text to its parser once.
- **Reference:** `ListedOnError` is the grammar of the comment at line 48 and the error message at line 227.

**`UserStage`** models stage creation and stage directories.

- **Names:** a stage name contains no `/`, so a directory is the sequence of its path components, and string prefix is sequence prefix.
- **Actions:**
  - `CreateInternalStage`, `CreateExternalStage` and `CreateUserStage` apply the constructors (261-287).
  - `DropStage` removes a stage.
  - The catalog, which is not under `src/`, keeps stage names unique among named stages, and user-stage names unique among users.
- **Initial state:** the stages an older version saved, as `LegacyInternal`.
- **Operator:** `StagePrefix` is `stage_prefix` (302-311). It is not defined on `External`, where the code panics.
- **Assumption:** `NoneNotPrefix` says `None`, the model's `Option::None`, is no directory.
- **Refinement mapping:** `DirOf` maps each slot to the `stage_prefix` of its stage, or to `None` for an empty slot or an `External` stage (which keeps its files where it points). `Dirs == INSTANCE StageDirs WITH dir <- DirOf, ...`, and `StageDirsSpec == Dirs!Spec`.

**`StageDirs`** is the abstract specification of what stages promise the object store.

- **State:** `dir`, mapping slot → directory or `None`.
- **Actions:**
  - `Claim(s, p)`: a slot without a directory takes `p`, which overlaps (contains or lies inside) no directory held.
  - `Release(s)`: a slot gives its directory back.
- **Initial state:** any assignment of pairwise non-overlapping directories.

**`SharingAuth`** models the middleware.

- **Header values:** `Absent`, `Opaque` (bytes that are not visible ASCII), or the parts that `split(" ")` yields. A part is a scheme, `Empty` (between two spaces), `Enc(t)`, `NonUtf8` or `Junk`.
- **Operators:** `HeaderToken` is lines 31-35: it returns the token, or `"Panic"` for each failing `unwrap` and the out-of-bounds `[1]`.
- **Actions:** each request has two steps:
  - `Call` (27-43) panics or forwards the request, with its `Credentials` and `Content-Type`;
  - `Complete` (43-54) passes back the wrapped endpoint's `Ok` or `Err`.

## Runs

| Run | Config | Expect | What it shows |
|---|---|---|---|
| `snapshot_chain` | `MC_TableSnapshot.cfg` | pass | Checks `TypeOK`, `ChainTimestampsNonDecreasing` and `SegmentOrdinalStableUnderPrepend`. The checked situations are clock skew, two writers forking from one parent, v2 parents, and segments added at either end. Also checks the action property `PersistedFilesImmutable`: no step replaces a persisted snapshot file. |
| `snapshot_strict_timestamps` | `..._ChainTimestampsStrictlyIncrease.cfg` | violation | Spec §8 says "strictly increasing within one clock tick", but a child stamped in its parent's microsecond gets the same timestamp: the ε nudge is truncated away (`snapshot.rs:85-88`). |
| `snapshot_prev_link_version` | `..._PrevLinkVersionMatches.cfg` | violation | The child of an upgraded v2 snapshot links to version 3, while the parent's file is version 2 (`snapshot.rs:111`, `174`). |
| `snapshot_ordinal_append` | `..._SegmentOrdinalStable.cfg` | violation | Appending at the end renumbers every older segment, contrary to spec §8 (`snapshot.rs:165`). |
| `block_filter_pruning` | `MC_BlockFilter.cfg` | pass | Checks `TypeOK`, `PruningSound` and `EqRewriteSound`. `PruningSound`: `eval` never prunes a block that has a row satisfying the predicate. `EqRewriteSound`: an `eq` that `find` rules out for a block holds on no row of it. |
| `block_filter_conjunct` | `MC_BlockFilter_ConjunctPruning.cfg` | violation | `and(a = c1, a = c2)` on a nullable `a`, with `a = c2` ruled out, stays `Uncertain`. The nullable `and` domain is `Full` whenever a side may be null (`boolean.rs:100-114`). |
| `stage_options_parse` | `MC_StageOptions.cfg` | pass | Checks `TypeOK` and `ListedOptionsParse` over 1,464 ON_ERROR texts and several format and compression texts. Every listed keyword except `ABORT_STATEMENT`, and every `SKIP_FILE_<n>`, format and compression name, parses in any letter case to the variant it names. |
| `stage_on_error_grammar` | `..._OnErrorMatchesGrammar.cfg` | violation | `OnErrorMode::from_str` does not parse its stated grammar. `ABORT_STATEMENT` is rejected. `"0"`, `"+5"` and `"SKIP_FILE_SKIP_FILE_5"` are accepted as `SkipFileNum` (`user_stage.rs:217-231`). |
| `stage_prefixes` | `MC_UserStage.cfg` | pass | Checks `StagePrefixesDisjoint`: stages created and dropped in any order, including names such as `internal` and `user`, own directories none of which contains another, as long as no legacy stage is named `internal` or `user`. Also checks `StageDirsSpec`: every create of an internal or user stage is a `Claim` of `StageDirs`, every drop of one is a `Release`, and external stages leave the directories alone. |
| `stage_prefixes_legacy` | `MC_UserStage_Legacy.cfg` | violation | A legacy stage named `internal` owns `/stage/internal/`, the parent of every new internal stage's directory (`user_stage.rs:307-309`). |
| `sharing_auth` | `MC_SharingAuth.cfg` | pass | Checks `ForwardedOnlyDecoded` and, under fairness, the liveness property `WellFormedAnswered`. The wrapped endpoint only sees requests whose second header part decoded, carrying that token and a `Content-Type`. A well-formed request is always answered, with `Ok` or `Err`. |
| `sharing_auth_malformed` | `MC_SharingAuth_EveryRequestAnswered.cfg` | violation | A missing header, one without a space, or one with bad base64 or UTF-8 panics the request's task, and the client never gets a response (`middlewares.rs:31-35`). |

`snapshot_chain` also checks `SnapshotLogSpec`: every behaviour of the writers is a behaviour of the append-only log.

**Bounds.**

- `MC_TableSnapshot` uses 3 ids, 2 segments, 2 writers, 2 sub-µs ticks, clock readings of 0..2 µs, and ε = one tick ("the smallest representable increment", spec §4.5). This is enough for a fork (two writers on one parent), a derive chain of length 2 after a v2 root, a same-microsecond child, and a clock behind its parent. Symmetry over ids, segments and writers is sound: no definition tells two of them apart.
- `MC_BlockFilter` uses two columns (`a` nullable, both supported), two values, and a 1-bit digest universe in which `v2` hashes to 0, the null sentinel. It allows input lists of up to 2 blocks with up to 1 row each, and one stored block per behaviour. It uses 636 predicates: every predicate of at most three nodes, plus the four-node shapes `not(x op y)` and `(not x) op y` over column comparisons, including null constants and literals.
- The runs cover collisions, nulls, empty blocks, v2 and v3 filters, and partial maps. The pass run reaches 1.5 M distinct states in under a minute.
- `MC_StageOptions` enumerates every ON_ERROR text of up to three tokens. The tokens are `CONTINUE` (upper and lower case), `SKIP_FILE` (upper and mixed case), `SKIP_FILE_` (upper and lower case), `ABORT_STATEMENT`, `0`, `5`, `%` and `+`. This covers multi-digit and leading-zero numbers, signs, repeated and misplaced `SKIP_FILE_`, and `%`. Numbers stay small, so the `u64` overflow error is not reached.
- `MC_UserStage` uses 4 slots. The new-stage names are `a`, `internal` and `user`, and the users are `a` and `internal`. The pass run allows legacy name `a`; the violation run adds `internal`. Symmetry over slots is sound.
- `MC_SharingAuth` uses 2 concurrent requests and 10 header shapes. The shapes include: missing, opaque, `Basic`, `Basic <tok>`, `Bearer <tok>`, `Basic  <tok>` (two spaces), junk, non-UTF-8, and a trailing part. The Content-Type is present or absent. No symmetry is used, because the run checks liveness.

**Fairness.**

- `SharingAuth` assumes weak fairness of `Call(r)` and `Complete(r)` for each request. The server runs each connection's task to completion, and the wrapped endpoint returns. Under that assumption, `WellFormedAnswered` holds and `EveryRequestAnswered` fails only because of the panics.
- No fairness is assumed elsewhere. Nothing in the code obliges a writer to persist or a scan task to run, and those properties are safety properties.

**Mutants.** Each property of a passing run is broken by a plausible defect of the code it is about (see `mutants` in `PROJECT.json`):

- a `new` without the monotonic adjustment;
- ordinals counted from the front;
- a link without the version;
- a map miss treated as absent (breaks both `PruningSound` and `EqRewriteSound`);
- an off-by-one version in `from_filter_block`;
- a `Derive` that takes an id only persisted snapshots avoid (breaks `SnapshotLogSpec` and `PersistedFilesImmutable`);
- `from_str` without `to_uppercase`;
- a format parser that accepts `JSON`;
- internal stages placed beside the legacy ones (breaks `StagePrefixesDisjoint` and `StageDirsSpec`);
- a lenient `unwrap_or_default` decode;
- an `unwrap` of the wrapped endpoint's result.

## What is proved

### The snapshot chain

`TableSnapshotProofs` proves five theorems for every value of the constants. The constants satisfy `SubTicksAssumption`, `MaxMicrosAssumption`, `EpsAssumption` and `NoneAssumption`.

- `TypeCorrect`: `Spec => []TypeOK`.
- `ChainTimestampsMonotone`: `Spec => []ChainTimestampsNonDecreasing`.
- `RefinesSnapshotLog`: `Spec => SnapshotLogSpec`, meaning `TableSnapshot` implements `SnapshotLog` under the mapping `LogOf`.
- `SegmentOrdinalsPreserved`: `Spec => []SegmentOrdinalStableUnderPrepend`.
- `PersistedFilesNeverReplaced`: `Spec => PersistedFilesImmutable`, the action property `[][\A i \in Persisted : store'[i] = store[i]]_vars`.

`PersistedFilesNeverReplaced` rests on conjunct (3) of `IInv` below. Only `Persist` writes the store, and it writes under its draft's id, which is neither persisted nor another writer's draft. The mutant `DeriveReusingId` avoids only persisted ids. With it, two writers can draft one id and the second persist overwrites the first.

The first three follow from the inductive invariant `IInv`. TLC checked `IInv` as an invariant of the `snapshot_chain` instance before it was proved. It states:

1. every persisted timestamp is trimmed (or absent, for v2), and every draft's is trimmed;
2. each file is stored under the id of the snapshot it holds, so the id `from_previous` copies names the file the parent came from;
3. drafts have distinct ids that are not yet persisted, so `Persist` never overwrites a parent;
4. every persisted or drafted snapshot with a link has a persisted parent whose timestamp is not later.

`ChainTimestampsNonDecreasing` alone is not inductive. Without (2) and (3), a persist could replace a parent. Without (1), truncating the child could drop it below a parent with a sub-µs part.

The refinement proof has two parts:

- `InitLog`: the initial files stand for an empty log or one root version.
- `NextLog`: every step maps to a step of the log or a stutter. `CreateTable`, `Derive` and `AddSegment` leave `store` and hence `LogOf` unchanged (`StoreUnchangedLog`). `Persist(w)` is `Log!Commit(draft[w].id)` (`PersistLog`), for three reasons from `IInv`:
  - the draft's id is not persisted, so the entry is new and no other entry changes;
  - its timestamp is trimmed, so it is not `None`;
  - its parent is persisted and not later.

`LogEntryType` and `LogOfNone` state that a file always stands for an entry, never for `None`. This uses the part of `NoneAssumption` about entries.

The key lemma of the timestamp proof is `NewTimestampNotEarlier`: for a trimmed parent timestamp, `trim(adjust(now, parent)) ≥ parent`. One lemma per action (`CreateTableIInv`, `DeriveIInv`, `AddSegmentIInv`, `PersistIInv`), plus `InitIInv`, gives `NextIInv`.

`SegmentOrdinalsPreserved` rests on `IInv` together with a second inductive invariant, `SegsDistinct`: no stored or drafted snapshot lists a segment twice. It holds for three reasons:

- `AddSegment` only takes a segment that no snapshot uses (`InjectiveExtend`);
- `from_previous` copies its parent's list unchanged (`LoadSnapshotFields`);
- `Persist` stores a draft as it is.

TLC checked `SegsDistinct` on the `snapshot_chain` instance first. With distinct segments, the ordinal lemmas work directly on positions:

- `OrdinalOfPosition`: `build_segment_id_map` gives the segment at position `i` of `n` the ordinal `n - i`;
- `OrdinalRange`: the ordinals are exactly `0 .. n-1`;
- `SuffixAt` and `OrdinalsOfSuffix`: a parent list that is a suffix of the child's sits at the same distance from the end, so it keeps its ordinals.

Without `SegsDistinct` the property is false. A repeated segment takes the ordinal of its last position, and the range then has fewer than `n` members.

### The block filter

`BlockFilterProofs` proves `EqRewriteSoundHolds: Spec => []EqRewriteSound`. It holds for every schema, value set, digest function, filter format and digest map, including digest collisions and the null digest 0. The inductive invariant `IInv` states three things:

- blocks are records whose rows are a concatenation of inputs;
- each entry of the digest map is the siphash of its constant;
- every written filter covers its block (`FilterCovers`): every non-null value of a supported column is in the filter, as a value for v2 blocks and as its digest otherwise.

`TryCreateCovers` shows that `try_create`'s filters cover the digests of the block's keys. `FindMustFalseAbsent` then shows that a constant `find` rules out is in no row. A missing map entry counts as contained, so a partial map never prunes. A stale or foreign map cannot occur, because the invariant ties the map to `Siphash`.

### Stage directories

`UserStageProofs` proves `StagePrefixesDisjointHolds`. It assumes that neither `"internal"` nor `"user"` is in `LegacyNames`, and under that assumption proves `Spec => []StagePrefixesDisjoint`. The hypothesis is necessary: `stage_prefixes_legacy` shows the violation without it. The inductive invariant adds three facts to `TypeOK`:

- legacy internal stages have names from `LegacyNames`;
- names are unique among named stages;
- names are unique among user stages.

The prefix lemmas reduce directory prefixes to the first components: `/stage/internal/n`, `/stage/user/n` and `/stage/n`.

`RefinesStageDirs` proves `Spec => StageDirsSpec` under the same hypothesis. It also uses the assumption `NoneNotPrefix`. The proof goes as follows:

- `PrefixesApart` is the case analysis above, stated for two stage records rather than for the state. This lets it be applied to the state after a step, as well as to the state before it.
- `InitDirs`: the legacy stages an upgrade leaves hold pairwise non-overlapping directories.
- `ClaimDir`: creating an internal or user stage is `Claim(s, stage_prefix)`. The new directory overlaps none held, because `IInv` holds after the step, so the new stage's name differs from every other named stage's (or user stage's) name.
- `NextDirs`: creating or dropping an `External` stage leaves `DirOf` unchanged, and dropping any other stage is `Release(s)`.

### The sharing middleware

`SharingAuthProofs` proves `TypeCorrect` and `ForwardedOnlyDecodedHolds: Spec => []ForwardedOnlyDecoded`. Two assumptions of `SharingAuth` are used:

- `AuthHeadersAssumption`: a header value is absent, opaque or a sequence of parts;
- `TokensAssumption`: no token is one of the outcome names the model uses.

`HeaderTokenDecoded` shows that a header the token code does not panic on has a second part that decodes, and that the token is that part's decoding. With it, `TypeOK /\ ForwardedOnlyDecoded` is inductive.

## What is only model-checked, and what is not modelled

- **Model-checked only.** Four kinds of property are checked by TLC only:
  - `WellFormedAnswered`, the liveness property of `SharingAuth`. Liveness under fairness, and `ENABLED`, are out of the provers' reach.
  - The `StageOptions` properties (`ListedOptionsParse`). The parsers are folds over token sequences (`FoldLeft`, `SelectSeq`), which are recursive operators. A module reaching them loses the SMT backend, and what they compute for every input needs induction over data.
  - `BlockFilter.TypeOK`. The rows of a block are `Concat(inputs)`, which is `FlattenSeq`, a recursive function over the list of input blocks. That they are rows needs induction over the list. The proved invariant therefore types rows as `WrittenRows`, the set of such concatenations.
  - `PruningSound`. `Eval`, `Fold` and `RowValue` are recursive functions over predicate trees, so relating them needs induction over the tree. Its base case, the rewrite of one `eq`, is proved (`EqRewriteSound`).
  - The violation runs, which are counterexamples rather than theorems.
- **Not modelled:**
  - the byte layout of `to_bytes` (the platform-width length field at `snapshot.rs:138` is listed as a hazard);
  - the `TableSnapshotLite` projection;
  - `boolean.rs`'s string conversions;
  - predicates using functions other than the Boolean ones. Their registry is outside `src/`, and the hazard of rewriting under `is_null` is listed;
  - the header bytes of `to_bytes`. The payload length is written as a `usize` (`snapshot.rs:145`), which is 8 bytes on the 64-bit targets the project builds for, as spec section 9 requires; only a 32-bit build would diverge. This is listed as a hazard;
  - `with_stage_name`, `StageType`'s `Display`, and the data fields of `FileFormatOptions` and `CopyOptions`. They are plain data, with no caller under `src/` that a property could use;
  - the callers of `stage_prefix`, which are outside `src/`. So no property states that an `External` stage never reaches its `unreachable!` (a hazard without a property).

## Plan for further work

1. Prove `TypeOK` of `BlockFilter` and `UserStage` as theorems of their own.
2. Model the callers of `stage_prefix` (stage listing and purge) once they are under `src/`.
