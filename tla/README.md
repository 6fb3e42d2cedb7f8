# TLA+ models of libyec's consensus parameters and Sapling verifier

This directory models the two source files of the repository:

- `src/zcash_primitives/src/consensus.rs` covers block heights, network
  upgrades, activation tables, `BranchId::for_height` and the branch-ID wire
  encoding.
- `src/zcash_proofs/src/sapling/verifier.rs` covers
  `SaplingVerificationContext`, the per-transaction value-commitment
  accumulator.

## The system's parts and how they interact

| Part (spec name) | Code | State | Operations |
|---|---|---|---|
| EpochTable | `activation_height` of `MainNetwork`, `TestNetwork`, `Network` (consensus.rs 126-130, 190-202, 235-247, 280-286) | constant tables | lookup |
| EpochResolver | `is_nu_active` (134-136), `UPGRADES_IN_ORDER` (404-411), `BranchId::for_height` (485-500) | none | pure functions |
| BranchId codec | `TryFrom<u32>` (450-467), `From<BranchId> for u32` (469-483) | none | decode, encode |
| BlockHeight | `Add`, `Sub`, `TryFrom` (54-124) | none | arithmetic, conversion |
| ShieldedValueVerifier | `SaplingVerificationContext` (verifier.rs) | `cv_sum`, `zip216_enabled` | `new`, `check_spend`, `check_output`, `final_check` |

The parts interact in the caller. A transaction validator resolves the
epoch with `for_height` and derives the ZIP 216 flag from it. It then
builds one context with `new(zip216_enabled)`, calls `check_spend` and
`check_output` once per description, and calls `final_check` once. The
transaction is valid only when every call returned true. Nothing runs
concurrently inside a context (spec §5), so the only interleaving is the
order of the caller's calls. The model lets that order be arbitrary,
including calls after `final_check`: `final_check` takes `&self`, and
nothing in the code forbids more calls.

## Modules

- **`Consensus.tla`** models every operation of consensus.rs that computes
  something.
  - Heights are integers of width `HeightBits` (32 in the code).
  - `HeightAdd` returns the set of outcomes the builds can produce: a
    debug build panics and a release build wraps.
  - `HeightSub` panics below zero. `HeightTryFrom` range-checks its input.
  - The activation tables are written with their production values. A
    u32 wire value is a pair of 16-bit halves (`Half \X Half`).
  - The two branch-ID matches are kept as two separate records:
    `BranchIdToU32` for `From<BranchId> for u32`, and `TryFromArms` for the
    arms of `TryFrom<u32>`. `BranchIdTryFrom` returns the branch whose arm
    matches, or the error.
  - `for_height` takes the active upgrade of greatest index in
    `UPGRADES_IN_ORDER`. This is the first hit of the code's reverse scan,
    written without recursion.
  - The state is the last call (`call`) and what it returned (`result`).
    There is one action per operation, with inputs taken from the constant
    sets `QueryHeights`, `QueryDeltas`, `QueryIntegers` and `QueryWires`.
- **`SaplingVerification.tla`** models the context. A Jubjub point is a
  record `[v, r, t]`: its coordinates over the value generator, the
  randomness generator, and the torsion subgroup of order `Torsion`.
  - `check_spend` and `check_output` are whole handlers:
    - a small-order guard with an early return that changes no state;
    - the update of `cv_sum`;
    - the outcome of the signature check, then of the proof.
  - `final_check` applies `compute_value_balance` (none for `MinAmount`,
    i.e. `i64::MIN`), derives `bvk = cv_sum - value_balance`, and verifies
    the binding signature.
  - The collaborators are modelled by what they guarantee:
    - An accepted proof implies `cv` commits to a value in `NoteValues`
      with no torsion part.
    - A binding signature can be produced only if `bvk` has no component
      over the value generator. The check is cofactored, so torsion is
      ignored.
    - A non-canonical signature encoding passes only when
      `zip216_enabled` is false.
  - `accepted`, `all_ok`, `verdict`, `declared` and `calls` are history
    variables that record what the caller learned.
- **`ShieldedValueLedger.tla`** is the abstract specification of what a
  context promises, with the cryptography taken away:
  - `net` is the accepted spends minus the accepted outputs;
  - `ok` says every call so far passed;
  - `verdict` and `declared` record the last final check.
  - An accepted description is `Accept(val, sign)`, a rejected one is
    `Reject`, and `Final(b, pass)` may pass on a transaction whose calls
    all passed only if `net = b`.
- **`SaplingVerification.tla`** ends with the refinement
  `Ledger == INSTANCE ShieldedValueLedger WITH net <- accepted.v, ok <- all_ok, ...`.
  `LedgerRefinement == Ledger!LSpec` is checked as a `PROPERTY`.
- **`SaplingVerificationProofs.tla`** and **`ConsensusProofs.tla`** hold
  the TLAPS proofs.
- **`MCConsensus.tla`** and **`MCSaplingVerification.tla`** instantiate
  the two models for TLC.

## Runs

| Run | cfg | Expect | Shows |
|---|---|---|---|
| `verifier_safety` | `MCSaplingVerification.cfg` | pass | `ValueConservation` and `LedgerRefinement`. If every check returned true and the last `final_check` accepted, the signed sum of the accepted commitments equals the declared valueBalance. This holds in every interleaving of up to 3 spend/output checks with any number of `final_check` calls, under both ZIP 216 settings. The context also implements the ledger: each check is an accept (of the committed value, with the sign of a spend or an output) or a reject, and each `final_check` is a ledger final check. If `cv` were left out of the proof's public input (`ProofOutcomesUnbound`), the refinement would fail. The module's `TypeOK` is proved (`TypeCorrect`) but not run: it is a fact about the model's group arithmetic, which no bug of `verifier.rs` can break. |
| `verifier_torsion` | `MCSaplingVerification_torsion.cfg` | pass | `PrimeOrderWhileOk`. `is_small_order` lets a mixed-order commitment through, and `check_spend`/`check_output` add it to `cv_sum` before the proof is checked. Still, while every call has returned true, `cv_sum` has no torsion component: the proof's public input is the affine encoding of `cv` itself (lines 79-83), and the circuit proves that point is `value·G + rcv·H`, so a proof accepts only a prime-order commitment. If the public input were built from `[8]cv` alone (`ProofOutcomesCofactorCleared`), torsion would reach an accepted sum. |
| `verifier_accumulates_rejected` | `MCSaplingVerification_accum.cfg` | violation | `AccumulatorOfAccepted`. A spend rejected by its signature or its proof still changes `cv_sum`. |
| `consensus_resolution` | `MCConsensus.cfg` | pass | `ForHeightIsLatestActivated`, `BranchIdRoundTrip` and `HeightTryFromExact`. `for_height` returns the epoch defined by the activation table alone, on both networks and at every boundary. The two wire tables are inverse to each other. `TryFrom<u64/i32/i64>` for `BlockHeight` fails exactly outside `0 .. 2^HeightBits - 1` and otherwise keeps the value; a truncating `as u32` (`HeightTryFromTruncating`) breaks this. |
| `consensus_activation_order` | `MCConsensus_order.cfg` | pass | `UpgradesActivateInOrder`. Callers use `is_nu_active` directly (for example, to derive the ZIP 216 flag). It answers true for an upgrade only where every earlier upgrade of `UPGRADES_IN_ORDER` is active, on both networks. The `nu_ordering` test checks only the main network. A misordered test-network entry (`TestNetworkActivationMisordered`) breaks this. |
| `height_add_wraps` | `MCConsensus_add.cfg` | violation | `HeightAddMonotone`. A release build wraps `BlockHeight + u32` to a lower height. |

### Bounds

**Verifier.**
- Note values are 0..2 and commitment values are -1..3, so a commitment
  can carry a value no note has, on either side.
- Blinds are 0..1.
- The torsion order is 2, so mixed-order points occur.
- The balances are -2..2 plus `MinAmount = -3`.
- Up to 3 spend/output checks are made. Three are enough to reach a
  spend, an output and a rejected description in one context, and 64,232
  states.

**Consensus.**
- Heights are 30 bits wide. This keeps every production activation height
  and lets TLC compute the sums.
- The queried heights are 0, the largest height, and every activation
  height of both networks with its two neighbours. These are the only
  places where `for_height` or `is_nu_active` can change value.
- The deltas are 0, 1 and the maximum.
- The integers converted are -1, 0, one activation height, u32 max and
  u32 max + 1.
- The wire values are the seven defined ones, plus 1, `0xffff_ffff` and a
  half-swapped value.

### Findings

- **`verifier.rs:50` and `:116`.** The accumulator is updated before the
  signature and the proof are checked. Spec §8 ("accumulator
  additivity") speaks of the commitments *accepted* by the checks. §4.2
  and the open question in §9 describe the code's order. The run
  `verifier_safety` shows why the order is harmless for a validator that
  rejects the whole transaction on any false result.
- **`consensus.rs:94`.** `Add<u32>` has no overflow guard, although the
  type's doc comment promises safe addition and `Sub` checks its edge.

## Fairness

No liveness property is stated and no fairness is assumed. Every
operation is a synchronous, terminating function called by an external
caller, and the code promises nothing about what a caller eventually
does. `CHECK_DEADLOCK` is left on. `final_check` and every consensus
query are always enabled, so no run stops.

## What is proved (TLAPS)

### Verification context

`SaplingVerificationProofs.tla` proves five theorems for every value of
the constants that satisfies the module's assumptions:
- note values are naturals;
- the other sets are integers;
- `Torsion >= 1`;
- `MaxCalls` is a natural;
- `None` is not a point.

The theorems:

- **`TypeCorrect`: `Spec => []TypeOK`.** It rests on the lemmas
  `PointClosed` (addition and subtraction stay in `Point`),
  `CommitmentsArePoints`, `ValueBalancePoint` and `RecordTyped`, and on
  the step lemma `TypeStep`.
- **`Conservation`: `Spec => []ValueConservation`.** `ValueConservation`
  is not inductive as it stands: a step can make it true by changing only
  `verdict`. The strengthening is
  `IInv == TypeOK /\ (all_ok => cv_sum.v = accepted.v) /\ (verdict = "Valid" => cv_sum.v = declared)`.
  - While every call has returned true, the value part of the
    accumulator equals that of the accepted sum.
  - An accepting `final_check` pins `cv_sum.v` to the declared balance,
    because a binding key with a component over the value generator
    cannot be signed.
  - TLC checked `IInv` as an invariant before it was proved. The proof
    has one case per action, split on the small-order guard.
- **`Implementation`: `Spec => LedgerRefinement`.** This follows the
  standard refinement argument:
  - `LedgerInit`: the initial state maps to `LInit`.
  - `LedgerStep`: under `IInv`, every step maps to a ledger step or a
    stutter.
    - A small-order early return, a failed signature or a failed proof
      maps to `Reject`.
    - An accepted spend or output maps to `Accept` of its committed value.
      The lemma `ProofVouches` shows that value is a note value.
    - `final_check` maps to `Final`. Its guard `(pass /\ ok) => net = b`
      is the second conjunct of `IInv`, together with the binding
      signature's guarantee.

- **`TorsionFree`: `Spec => []PrimeOrderWhileOk`.** The invariant is
  inductive given `TypeOK`:
  - `ProofPrimeOrder`: an accepted proof binds a commitment with no
    torsion component.
  - `TorsionFreeClosed`: adding or subtracting torsion-free points keeps
    the torsion component zero.
  - `PrimeOrderStep`: a step that leaves `all_ok` true added or
    subtracted only commitments whose proofs were accepted.
- **`ConservationByRefinement`: `Spec => []ValueConservation` again.**
  This time it is derived from `Implementation` and the abstract ledger's
  lemma `LedgerSafe`. `ValueConservation` is the ledger's own
  `LedgerConservation` under the refinement mapping. The ledger therefore
  states everything the caller relies on.

`ShieldedValueLedger.tla` proves the lemma **`LedgerSafe`:
`LSpec => []LedgerConservation`**. The invariant is inductive as it
stands: only `Final` sets the verdict to Valid, and its guard is the
invariant.

### Consensus

`ConsensusProofs.tla` proves seven theorems for every width `HeightBits`
of the height integer. The assumptions are:
- `HeightBits` is a positive natural;
- `None` is not an integer;
- the query sets lie in their types.

The theorems:

- **`TypeCorrect`: `Spec => []TypeOK`.** `HeightArithTyped` shows that
  `Add` stays in `0 .. 2^HeightBits - 1` by the modulus, and `Sub` by its
  guard. `WidthPositive` shows that `2^HeightBits` is positive, by
  counting the subsets of `1..HeightBits`.
- **`ForHeightCorrect`: `Spec => []ForHeightIsLatestActivated`.** The
  core is `ForHeightIsEpoch`: given `ActivationsInUpgradeOrder`, the
  active upgrade of greatest index in `UPGRADES_IN_ORDER` is the one with
  the greatest activation height not above `h`, for every integer `h`.
  `TablesOrdered` proves that the production tables are so ordered.
- **`ActivateInOrder`: `Spec => []UpgradesActivateInOrder`.** It follows
  from `TablesOrdered` and `TableValues` (every upgrade has a height on
  both networks).
- **`RoundTrip`: `Spec => []BranchIdRoundTrip`.** The lemma `ArmsAgree`
  shows the two matches name the same literal for each branch, and no
  literal twice. The choice in `BranchIdTryFrom` is therefore determined.

- **`ForHeightMonotone`.** For `h1 <= h2`, `for_height(net, h2)` is the
  branch of the same upgrade as `for_height(net, h1)` or of a later one,
  and Sprout at `h2` means Sprout at `h1`.
  - The proof does not need the tables to be ordered. The set of active
    upgrade indices only grows with the height (`ActiveGrows`), and the
    reverse scan takes its greatest element (`LastOfSpec`).
  - This is a statement about the operator at two heights, so it is
    proved but checked by no run: the model's state holds one call at a
    time.
- **`AddWrapsExactlyOnOverflow`.** At every width, `HeightAdd(h, d)` is
  the sum when it fits. Otherwise it includes the release-build result
  `h + d - 2^HeightBits`, which is below `h`. The `height_add_wraps`
  violation is therefore no artefact of the 30-bit instance: it is
  exactly the overflow case.
- **`TryFromExact`: `Spec => []HeightTryFromExact`.** The step lemma
  `TryFromExactStep` unfolds `HeightTryFrom` for a conversion call; every
  other call sets a different `op`.

None of the four state properties of Consensus needs strengthening. Each depends
only on the last call and its result, so each holds after every step
independently of the state before it.

### Only model-checked

TLC alone checks the following:
- the violation `AccumulatorOfAccepted`. The other violation,
  `HeightAddMonotone`, is also explained for every width by
  `AddWrapsExactlyOnOverflow`;
- liveness (none is stated; see Fairness);
- any statement that would need induction over recursive data.

## What is not modelled

- The string and prefix getters, `coin_type`, and the `Display` impls of
  `Parameters`: constant data and formatting.
- The `zfuture` feature: it is not compiled in by default.
- The construction of the public inputs and the multipacking of the
  nullifier. These only feed `verify_proof`, whose outcome is chosen
  nondeterministically within what soundness allows. The `assert_eq!` on
  line 91 cannot fire for a 32-byte input.
- The curve, Groth16 and RedJubjub internals, and the body of
  `compute_value_balance`: they are not under `src/`.

## Plan for further work

1. Add a composition module that derives `zip216_enabled` from the epoch
   of `for_height` (the coupling named in spec §1), and check that a
   context built for a post-Canopy height rejects non-canonical
   signatures.
2. Model `BlockHeight`'s `Ord` and the `From` conversions if a property
   comes to depend on them.
