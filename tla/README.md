# Formal models of sigsum-lib-go

TLA+ models of the Merkle proof verifiers, the log's HTTP handlers, the log client, the proof bundle, the signed-note signature lines and the `sigsum-key` tool of this repository. TLC model-checks them. TLAPS proves one verifier's loop invariant, and the exactness of `sigsum-key verify`, for every value of the constants.

## The system and how its parts interact

| Part | Source | What it does |
|---|---|---|
| Merkle verifiers | `src/unnamed/part_001` (package `merkle`) | `VerifyInclusion`, `VerifyConsistency` and `VerifyInclusionBatch` check audit paths against a tree head. Helpers: `pathLength`, `inclusionPathLength`, the compact ranges `makeLeftRange`, `makeRightRange` and `extendRange`, and `isOdd`/`isEven`. The file also holds the `AddTreeHead` witness request. |
| Server | `src/unnamed/part_000` (package `server`) | `NewLog` registers one HTTP handler per endpoint in front of an `api.Log`. Each handler parses the request, validates it, calls the log, and writes the object or an error status. |
| Request DTOs | `src/pkg/requests/requests.go` | URL and ASCII forms of requests. `FromURL` parses the two URL arguments and assigns each field before checking its error. |
| Client | `src/unnamed/part_002` (package `client`) | Each method builds a request. `do()` calls `http.Client.Do` up to four times, sleeping 1, 2, 4 and 8 s after failures. It then maps 404, 202 and 200 to `HttpNotFound`, `HttpAccepted` and the body. |
| Proof bundle | `src/pkg/proof/proof.go` | `SigsumProof` is a log key hash, a short leaf, a cosigned tree head and an inclusion proof. `ToASCII`/`FromASCII` write and read its two- or three-block text. `Verify` checks it against a message and a submitter key. |
| Checkpoint lines | `src/pkg/checkpoint/signature.go` | Signed-note signature lines `— <name> <base64(key id ‖ blob)>`. `makeKeyId` is 4 bytes of a hash of name, signature type and key. `ParseEd25519SignatureLine` and `ParseCosignature` return `ErrUnwantedSignature` for a line of the other size or another signer. |
| Key tool | `src/cmd/sigsum-key/main.go`, `pkg/key` (`requests.go` 289-325) | `gen`, `sign`, `verify`, `hash`, `hex`: each run parses flags, reads key and signature files and stdin, and writes key or signature files through `withOutput`. |
| Other CLI, tests | `src/cmd/sigsum-debug/head/sign`, `src/pkg/types/tree_head_test.go` | Tree-head signing tool, unit tests and a logger. |

The parts interact like this:
- A client method sends a request to a handler of the server.
- The handler asks the log, and its status code becomes the client's result (`HttpAccepted` becomes `AddLeaf`'s `(false, nil)`).
- A submitter later receives a proof bundle. `SigsumProof.Verify` then calls `VerifyInclusion` on the bundle's path and tree head.

Only the client and the server interact at run time; the caller's context may cancel a client call at any moment. Everything else is a sequential function. `do()`'s retries and the network failures between client and server are the only places where interleaving and loss enter.

## Modules

| Module | Models | State and actions |
|---|---|---|
| `MerkleBits` | `isOdd`, `isEven`, `pathLength` and the `math/bits` functions it uses | Operators only. |
| `MerkleTree` | The RFC 9162 tree hash, audit paths and consistency paths: what an honest log computes | Reference only. The recursion is written as recursive functions (not RECURSIVE operators), so that `SigsumProof`, which uses them, can be proved about. The log backend is not in this repository. |
| `MerkleInclusion` | `VerifyInclusion`, `inclusionPathLength` (part_001 97-156) | **State:** the arguments, the unread rest of `path`, `r`, `fn`, `sn`, `pc` and `result`.<br>**Actions:** `Reject` (lines 109-118), `StartLoop` (135-138), `Climb` (one loop iteration, 138-148; its three branches are `LeftSibling`, `RightSibling` and `NoSibling`), `Finish` (149-155). |
| `MerkleConsistency` | `VerifyConsistency` (part_001 20-95) | **Actions:** `SameSize`, `EmptyOld`, `RejectLength`, `StartLoop`, `Climb`, `Finish`, in the order of the code. |
| `MerkleBatch` | `VerifyInclusionBatch` and the compact ranges (part_001 158-293) | **State:** the arguments, the locals and a call frame.<br>**Arithmetic:** uint64 arithmetic is taken modulo the constant `Word`.<br>**Actions:** one per loop iteration and per check. The final `VerifyInclusion` call runs as `Incl == INSTANCE MerkleInclusion WITH ...` on the frame's variables (`CallStep`). |
| `SigsumServer` | The five handlers of `NewLog` (part_000 13-122) and the `FromURL` parsers | **State:** `ep` (the endpoint served) and `resp`, a response record:<br>• `st`: the status codes written; the client gets the first.<br>• `data`: the items written to the body.<br>• `calls`: the log calls made, each with the log's answer.<br>**Actions:** one per handler, e.g. `GetInclusionProofOn(shape, x, h)` on given URL arguments. `GetInclusionProof` is the same handler over all inputs. |
| `SigsumClient` | `do()`, `AddLeaf` and the get methods (part_002 81-200), composed with the server | `Srv == INSTANCE SigsumServer WITH ep <- sep, resp <- sresp`.<br>**Client actions:** `Attempt` (`Client.Do`; it may put the request on the wire again after an earlier delivery), `Serve` (the handler of the method's endpoint runs), `Drop` (request or response lost), `Receive`, `Sleep`, `GiveUp`, `Return` (the status switch and the method's result).<br>**Log action:** `Persist`, the log's sequencer.<br>**Caller:** `Cancel`, the request context's cancellation or deadline (`http.NewRequestWithContext`, lines 149 and 157); afterwards no attempt succeeds and no response is received, and `Abort` is the transport giving up the request on the wire. |
| `SigsumProof` | `ToASCII`, `FromASCII`, `Verify`, `NewShortLeaf`, `ToLeaf` (proof.go) | A verifier process with two actions: `ParseFile` reads a bundle file and `VerifyProof` checks it. |
| `AddTreeHead` | `AddTreeHead.FromASCII` and `ToASCII` (part_001 325-368), and the witness's `VerifyConsistency` call | **State:** the request `req`, the text the witness receives, the parse error `werr`, the witness's `wpc`, and the variables of `MerkleConsistency` (same names, so `Cons == INSTANCE MerkleConsistency` needs no `WITH`).<br>**Actions:** `Parse` (`FromASCII`; on success it starts the call with the root of the witness's old tree head), `Verify` (one step of the call), `Returned`. |
| `SignedNote` | `signature.go` 28-113 and the note reader of spec §4.5 | **Operators:** `makeKeyId`, the two writers, `parseNoteSignature` and the two line parsers; a line is the record of the fields `parseNoteSignature` splits it into, or `Malformed`.<br>**State:** the note's lines (every ordering of every subset of the candidate lines), the reader's position, the log signature and cosignatures found, the error.<br>**Actions:** `ReadLine` (one line, tried as the log's and as each witness's), `Finish`. The reader is not under `src/` and is modelled from the spec. |
| `SigsumKey` | `sigsum-key` (`main.go` 37-256) and `key.ParsePublicKey`/`ParsePrivateKey` | **State:** the files `K`, `K.pub`, `S` (absent, partly written, private key, public key, signature), the keys generated, the last exit code and the arguments of the last `verify`.<br>**Actions:** one whole run of each sub command: `Usage`, `BadFlag`, `Gen`, `Sign`, `Verify`, `Export`. Opens and writes may fail; ssh-agent may be missing; stdin may fail to read. |
| `MerkleInclusionProofs` | Theorems about `MerkleInclusion` | See *What is proved*. |
| `SigsumKeyProofs` | Theorems about `SigsumKey` | See *What is proved*. |
| `SigsumServerProofs` | Theorems about `SigsumServer` | See *What is proved*. |
| `SigsumClientProofs` | Theorems about `SigsumClient` | See *What is proved*. |
| `SignedNoteProofs` | Theorems about `SignedNote` | See *What is proved*. |
| `SigsumProofProofs` | Theorems about `SigsumProof` | See *What is proved*. |

Each `MC*.tla` module extends one of these modules and gives its constants values. Its `.cfg` files name the run's invariants.

### Abstractions

**The hash.** The hash is collision-free: a leaf hash is the term `<<x>>` and an interior node is `<<l, r>>`. In the MC modules, a pair that is not a node of a published tree hashes to `Junk`, and `Junk` is never passed as an input. A forged path can therefore never match by accident, and the MC modules stay finite.

**Text and values.**
- A URL argument is a number, a syntax error or a range error. `strconv.ParseUint` returns 0 for a syntax error and `MaxUint64` for a range error, and `FromURL` assigns that value before it checks the error.
- A bundle file is the sequence of its blocks, as `bytes.Split` on the empty line produces it. Each block is the record its parser reads.
- Checksums, key hashes and signatures are the values they identify. The short checksum keeps one bit, so two messages share it, as two-byte checksums do.

**Server internals.** `server.register`, `reportError`, `reportErrorCode` and `FromURLArgs` are not under `src/`.
- The status mapping follows spec §7 (map entries marked `spec_modelled`).
- The URL parsing follows the `FromURL` methods of `requests.go`, whose structure `FromURLArgs` shares.

**Go HTTP library.** The client module assumes three facts about the Go HTTP library:
- A POST body (`bytes.Buffer`) is drained when the request is written, but `NewRequestWithContext` sets `GetBody` for it. A later `Client.Do` of the same request is refused on a new connection; on a reused idle connection the write fails with nothing sent, and the transport retries with the body rewound through `GetBody`. So every attempt may deliver the add-leaf again, and the model keeps no state for the body.
- net/http sends 200 when a handler writes without a status, and ignores later status codes.

**Early returns.** A chain of checks that each return early (`if ... { return err }`) is written as `IF ... ELSE IF ...`, never as a `CASE` whose guards overlap: the value of such a `CASE` is not determined when two guards hold, while Go takes the first. `DoErr`, `GetResult`, the URL parsers, `ReadSignature`, both `FromASCII` and `Verify` are written this way.

**Inclusion check in the bundle.** In `SigsumProof`, `sp.Inclusion.Verify` is replaced by the result the `inclusion` run establishes for `VerifyInclusion`: acceptance of exactly the honest audit path of the leaf in the tree of the given root.

## Runs

All properties but `CallReturns` are invariants. Each passing run fires every action of its module.

| Run | Expect | Properties | What it shows |
|---|---|---|---|
| `inclusion` | pass | `PathInBounds`, `InclusionExact`, `LeafInRootTree`, `LoopOrder` | For every index 0..4, size 0..4, root and path of up to 2 nodes, `VerifyInclusion`:<br>• never panics;<br>• accepts exactly the honest audit path;<br>• accepts only a leaf of the tree of the root;<br>• keeps `fn <= sn`. |
| `consistency` | pass | `ConsistencyPathInBounds`, `ConsistencyExact` | For `oldSize <= newSize <= 4` over two histories that fork at leaf 1, with paths of up to 3 nodes, `VerifyConsistency` never panics and accepts exactly the honest proof. |
| `consistency_old_larger` | violation | `ConsistencyPathInBounds` | Sizes with `oldSize > newSize` make it panic (finding 1). |
| `batch` | pass | `BatchInBounds`, `BatchExact`, `BatchRunInTree` | Runs of 1-5 leaves of trees of 1-5 leaves, with the first or second leaf forged and paths honest, forged or empty, and word size 16. `VerifyInclusionBatch`:<br>• never panics;<br>• accepts exactly the honest batch proof;<br>• accepts only a consecutive run of some tree. |
| `batch_wrap` | violation | `BatchInBounds` | With word size 8, `fn + len - 1` wraps and the left loop reads an empty slice (finding 2). |
| `server` | pass | `StatusHonest` | No handler answers 200 unless every log call succeeded (and add-leaf persisted), and none answers 202 unless the leaf was accepted. |
| `server_rejected` | violation | `RejectedNotServed` | An inclusion request that fails to parse is answered 400 and still served from the log (finding 3). |
| `client` | pass | `ResultBacked`, `CallReturns` | A client call of each method runs over a network that refuses, loses requests or loses responses, with a transport that may deliver an add-leaf again, against a log that may persist later. It shows that:<br>• `AddLeaf`'s `(true, nil)` means persisted and `(false, nil)` means held, however many times the leaf was delivered: the client reads the answer to the last delivery;<br>• a get method's value comes from a 200 answer whose data is one object;<br>• once the caller's context is done, the call returns (`CallReturns == (ctx = "done") ~> (cpc = "done")`), although `time.Sleep` ignores the context.<br>The run uses `FairSpec` and `VIEW CallView`, which leaves out the attempt and sleep counters (no guard reads them), so that a retry loop that never ends shows as a cycle. |
| `sigsum_key` | pass | `VerifyExact` | Over every sequence of runs of the tool with two keys, two messages and failing writes, `verify` exits 0 exactly when the signature file holds a signature by the key in the public key file, over the message on stdin, in the namespace of `-n` or the documented default. |
| `signed_note` | pass | `NoteComplete` | Every ordering of every subset of six lines (the log's, two witnesses', a foreign Ed25519 line, an unknown witness's cosignature, a malformed line). Reading the note fails only on the malformed line, and otherwise finds exactly the log signature and the cosignatures that were written. One witness shares the log's name and key, so only the signature type in the key id and the blob size tell its line from the log's. |
| `add_tree_head` | pass | `WitnessInBounds` | Every request over sizes 0..4, old size 0..4 (the larger included), either history's root and any path of up to 3 hashes. A witness that parses it and calls `VerifyConsistency` never reaches the panic of finding 1: `FromASCII`'s `old_size > size` check (line 346) stands in front of it. |
| `proof_bundle` | pass | `RoundTrip`, `AcceptsOnlyLogged` | The inputs are honest bundles of every leaf of every head of a 3-leaf log and of a split-view head the log signed but witnesses did not cosign. Each bundle is also tampered (log key hash, leaf, path) and written whole, cut short or with an extra block. It shows that parsing what `ToASCII` wrote gives the bundle back, and that `Verify` accepts only messages the log published under the trusted submitter key. |

Each property of a passing run has a mutant in `PROJECT.json`: an operator defined next to the code's definition that changes it the way a plausible bug would, and that TLC finds violating the property. Examples:
- the path-length check dropped;
- a sibling hashed on the wrong side;
- the root comparison dropped;
- `index <= size` instead of `<`;
- the `fn > 0` path element not counted;
- `k` one level too high;
- a range element left unchecked;
- the persisted flag ignored;
- the request rebuilt for every attempt;
- the 202 case missing from `do()`'s switch;
- the inclusion block written for a one-leaf tree;
- the policy check dropped;
- the `old_size > size` check of `AddTreeHead.FromASCII` dropped;
- `do()` retrying without backoff growth (the loop never ends);
- an SSH signature file not recognised;
- a blob of the wrong size taken as corrupt instead of unwanted;
- timestamp and signature taken from the wrong ends of a cosignature.

### Bounds and why they are enough

- **Merkle trees of up to 4 or 5 leaves** contain every shape the loops distinguish:
  - a right child, a left child with and without a sibling;
  - a last node promoted over several layers (sizes 3 and 5);
  - a consistency start node that is a left child deeper than the root (old size 3);
  - a batch whose left compact range has two trees (leaves 0-4).
- **Paths** of up to 2 nodes (inclusion) and 3 (consistency) cover the exact lengths, and lengths one too short and one too long.
- **Word sizes.** The word size 16 keeps the batch arithmetic from wrapping on these inputs. The violation run uses 8 to show what wrapping does.
- **Server and client:**
  - Numbers 0..3 or 0..4 make every validation both pass and fail.
  - `MaxU64` = 9 stands for `MaxUint64`.
  - Two log errors cover 404 and 500.
- **`add_tree_head`** pairs every old size 0..4 with every size 1..4, plus the empty tree head with old size 0. A size of 0 with a larger old size is refused by the real parser anyway; only its mutant would pass it on, and then `newSize - 1` would wrap, which `MerkleConsistency` does not model.
- **The retry loop** needs no bound: it has exactly four attempts, each of which may deliver the request.
- **`sigsum_key`:** three file names are enough for gen's two files and a signature file. Two keys make a signature by the wrong key possible, and two messages a signature over the wrong message. The namespace argument takes both documented values and the empty one.
- **`signed_note`:** six candidate lines cover each branch of the parsers (wrong size, wrong name, wrong key id, malformed, accepted). Every subset in every order is 1957 notes.

## Fairness

Only the `client` run assumes fairness. `FairSpec` gives weak fairness to the steps of the calling goroutine: `Attempt`, `Sleep`, `GiveUp` and `Return`. It also gives it to `Abort`, the transport giving up a request on the wire once the request's context is done, which net/http does for a request made with `NewRequestWithContext`. The network and the server get none: `Serve`, `Receive` and `Drop` may never happen. `http.Client{}` (part_002:45) sets no Timeout, so nothing in the code bounds a `Client.Do` that waits for an answer. Hence `CallReturns` is stated only from the point where the context is done. The caller (`Cancel`) and the log's sequencer (`Persist`) get no fairness either.

The one thing fairness cannot supply is an answer that never comes. `http.Client{}` has no `Timeout` (part_002:45), so a request the network holds forever ends only when the context is cancelled. The model makes a lost message a `Drop`, which ends the attempt; it therefore assumes that the transport, or the caller's context, eventually ends a hanging attempt. That assumption is listed as a hazard.

## Findings

1. **`VerifyConsistency` panics for `oldSize > newSize`** (part_001:85). It never compares the sizes. The length it computes for the path is then consumed incompletely, and the function panics with "left over path elements" instead of returning an error (spec §7).
2. **`VerifyInclusionBatch` overflows** (part_001:209). `en := fn + uint64(len(leaves)) - 1` wraps for `fn` near 2^64, so `en >= size` is false. The left loop then indexes an empty `startPath` (line 248) and panics.
3. **The server handlers lack a return after a parse error** (part_000:29 and :51). A request whose URL arguments do not parse is reported as 400, then served anyway:
   - the log is called with `MaxUint64` or a zero leaf hash;
   - its proof or error is written after the 400;
   - the spec (§4.9, §7) says a failure returns immediately.

Also observed while modelling:
- **An inclusion proof does not bind the tree size.** `InclusionExact` holds for a root and a size taken from the same tree head; a root of another size may accept a path of the size the caller passes.
- **`do()` sleeps before a retry that never comes** (part_002:176-178). After the fourth failed attempt it logs "retrying in 8s", sleeps 8 s, and the loop ends without an attempt.
- **A retried add-leaf may reach the log twice** (part_002:173). `do()` passes the same request to every attempt; the transport rewinds its drained body through `GetBody` when a write on a reused connection fails with nothing sent. A first delivery whose response was lost is then followed by a second one, and `AddLeaf` reports the log's answer to the second. `ResultBacked` shows that this answer still tells the truth about the leaf.
- **Without cancellation a call may never return** (part_002:45). `http.Client{}` has no Timeout; only the caller's context ends a `Client.Do` that waits for an answer.
- **Cancellation does not stop `do()`'s sleeps** (part_002:178). `time.Sleep` ignores the request context, so after a cancel each remaining failed attempt still sleeps 1, 2, 4 or 8 s; spec §5 says cancellation propagates. `CallReturns` shows the call still returns.
- **`sigsum-key gen` can leave mismatched key files** (main.go:217-223). It truncates and rewrites `KEY-FILE` before it opens `KEY-FILE.pub`; if the second open or write fails, the old private key is gone and the old `.pub` no longer matches.
- **Unknown flags exit 2** (main.go:144 and the other `parse` methods): `flag.ExitOnError` exits with status 2, while spec §6 says the tools exit 1 on any failure.

These are traces of two or three steps of the models (`SigsumClient`, `SigsumKey`); they are recorded here and as hazards rather than as separate runs.

## What is proved

`MerkleInclusionProofs` (TLAPS, all obligations checked) proves these results for every value of the constants that satisfies `InclusionAssumption`: hash closed under `HashInteriorNode`, index and size sets of naturals, paths that are sequences of hashes.
- `TypeCorrect`: `Spec => []TypeOK`, from `Init => TypeOK` and the step lemma `TypeStep` (one case per action, and one per branch of `Climb`), combined by PTL.
- `LoopOrderHolds`: `Spec => []LoopOrder` (the `LoopOrder` of the `inclusion` run). `LoopOrder` is not inductive alone: a step of `Climb` needs the types of `fn` and `sn`. The inductive invariant is therefore `IInv == TypeOK /\ LoopOrder`:
  - `StartLoop` establishes `fn = index <= size - 1 = sn` from the guard `index < size`;
  - `Climb` preserves `fn <= sn` by the lemma `HalveMonotone` (`a <= b => a \div 2 <= b \div 2`);
  - the other actions leave `fn`, `sn` and `pc = "loop"` unchanged or leave the loop.

`SigsumKeyProofs` (TLAPS, 126 obligations) proves, for every set of keys and messages satisfying `KeyAssumption` (`NoKey \notin Keys`: no generated key is the parsers' "no key" result):
- `VerifyExactHolds`: `Spec => []VerifyExact` (the property of the `sigsum_key` run), for any number of runs of the tool. The inductive invariant is `IInv == TypeOK /\ VerifyExact`. `VerifyExact` alone is not inductive: the `Verify` step needs to know that every file holds one of the contents the tool writes (`TypeOK`). The argument:
  - every step but `Verify` resets the record of the last verify (`NoCheck`), so `VerifyExact` holds trivially after it;
  - `TypeStep`: `Gen` and `Sign` write only a key, a public key, a signature over a documented namespace, or a partial file (lemmas `WrittenType`, `PrivateKeyType`);
  - for `Verify`, `PublicKeyParse` gives a key exactly for a public key file, and `ReadThenVerify` shows that the SSH signature file check of `readSignatureFile` and `crypto.Verify` together accept exactly a signature by that key, over that message, in that namespace.

`SigsumServerProofs` (TLAPS) proves, for every set of log errors and URL texts:
- `StatusHonestHolds`: `Spec => []StatusHonest` (run `server`). No strengthening is needed: every handler builds its response from `Start`, so the step lemma of each handler (`AnswerHonest`, `AddLeafHonest`, `RejectHonest`) looks only at the new response. The response records are handled through field lemmas (`StartFields`, `ReportCodeFields`, `WriteFields`, `CallFields`, `FinishFields`) that say what each builder does to `st`, `data` and `calls`.

`SigsumClientProofs` (TLAPS) proves, for every set of arguments and log errors satisfying `ClientAssumption` (no log error is `ErrAccepted`, which the handler answers 202):
- `ResultBackedHolds`: `Spec => []ResultBacked` (run `client`), for any number of deliveries of the add-leaf.

`ResultBacked` is not inductive alone. It follows from `IInv == Shape /\ AnswerBacked /\ ResultBacked`, checked by TLC as an invariant of the `client` instance:
- `AnswerBacked`: a response received is the one the last handler wrote, and the add-leaf handler's 200 (202) is backed by a persisted (held) leaf. The log's copy never goes back, and `Persist` only moves it forward (lemma `AddLeafServed`).
- `ReturnStep` then shows that `DoErr` and `AddLeafResult`/`GetResult` give an error-free result only for those statuses.

`SignedNoteProofs` (TLAPS) proves, for every origin, log key and witness set satisfying `NoteAssumption`:
- `NoteCompleteHolds`: `Spec => []NoteComplete` (run `signed_note`), for every order of every subset of the candidate lines.
- `NoteAssumption` says that each key signs at most one line: a candidate with the log's key id and the log signature's length is the log's line, and likewise for each witness. This excludes notes with two lines of one key, where the reader keeps the last; the run covers the same candidate sets.
- The inductive invariant says what the lines read so far have produced: once the log's (a witness's) line has been read, the log signature (that cosignature) has been found with the written value; an `invalid` error comes only from a malformed line; and reading ends without error only after the last line. The lemmas `LogLineParse` and `CosigLineParse` compute what the parsers give on the written lines, and `PermutationLines` shows that the note's lines are a sequence of candidates.

`SigsumProofProofs` (TLAPS) proves, for every set of bundles satisfying `ProofAssumption` (a bundle is a `SigsumProof` struct, with a natural tree size and leaf index):
- `RoundTripHolds`: `Spec => []RoundTrip` (run `proof_bundle`), for trees of every size.
- The lemma `ParseWritten` computes `FromASCII(ToASCII(p))`: two blocks and `NoInclusion` for a one-leaf tree, three blocks and `p` otherwise. It rests on `ConcatProperties` and `SeqEqual` of the library.
- The inductive invariant adds that, once parsed, a file that `ToASCII` wrote has been read back.

### What only TLC checks, and why

The remaining properties are checked only by TLC:
- **The exactness properties of the verifiers** (`InclusionExact`, `LeafInRootTree`, `ConsistencyExact`, `BatchExact`, `BatchRunInTree`) and **`AcceptsOnlyLogged`**. They compare with the reference tree of `MerkleTree`, and what a recursive definition computes for every input needs induction over data. The provers cannot instantiate the library's induction theorems.
- **The path-length bounds** (`PathInBounds`, `ConsistencyPathInBounds`, `BatchInBounds`, `WitnessInBounds`). They relate the loop to `pathLength`, whose `DiffLen` and `OnesCount` are a `CHOOSE` over bit positions and the `Cardinality` of a set of one bits. A step of the loop changes them by a recurrence (`OnesCount(x \div 2) = OnesCount(x) - x % 2`), and that recurrence itself needs induction over the bits. Even the facts about powers of two beneath it are out of reach. The SMT backend treats `2^n` with a variable exponent as an uninterpreted term, so it proves neither `2^(n+1) = 2 * 2^n` nor `n < 2^n`.
- **`MerkleBatch`** uses RECURSIVE operators for the compact ranges, so no theorem can be stated in a module that reaches it.
- **`CallReturns`** is a liveness property under fairness; its proof would need ENABLED, which the prover does not handle.
- **At-most-once delivery of an add-leaf is not claimed.** The transport may redeliver the request (see *Go HTTP library*). Spec §4.9 makes `add_leaf` a call a submitter repeats until the leaf is persisted, so a second delivery breaks no promise; `ResultBacked` covers what it must not break.
- **The violation runs** (`consistency_old_larger`, `batch_wrap`, `server_rejected`) show counterexamples; there is nothing to prove.

No run checks an action property of the form `[][A]_vars` or a refinement mapping, so neither is proved.

## Not modelled

- **The key hash and tree head signature of `AddTreeHead`, and `GetTreeSize.ToURL`:** no check of the request depends on them; `ToURL` is a format string.
- **The Leaf and Cosignature ASCII codecs, and `sigsum-debug head sign`:** text conversions through `pkg/ascii` (not under `src/`), and a straight-line tool.
- **The log's note writer and reader that call `signature.go`:** they are not under `src/`; the reader of `SignedNote` follows spec §4.5.
- **The duplicate registration of get-consistency-proof with an empty handler** (part_000 73-75): which registration serves depends on `server.register`, which is not under `src/`. It is listed as a hazard.
- **`GetUnsignedTreeHead`, `GetNextTreeHead` and `AddCosignature`** (a TODO stub) of the client: they talk to endpoints the server here does not register.

## Plan for later sittings

1. Prove the `MerkleInclusion` and `MerkleConsistency` loop-order and type invariants that no run checks on their own, as lemmas for later work.
2. Model the remaining client methods once the server side they talk to is in the repository.
