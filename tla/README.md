# Formal models of RMOL (Revenue Management Open Library)

This directory holds TLA+ models of the RMOL sources under `src/`. They come
with TLC configurations that model-check small instances, and TLAPS proofs
that hold for every value of the constants.

## 1. The system and its parts

RMOL computes seat-protection levels and booking limits for one cabin of a
flight leg. Its parts, and where the sources for each live, are:

| Part | Source | State | Operations |
|---|---|---|---|
| BucketHolder | `src/rmol/bom/BucketHolder.cpp`, `src/rmol/BucketHolder.hpp` | ordered list of buckets; cabin capacity; three shared list iterators (current, next, tagged); total mean demand, demand factor, optimal revenue | `begin`, `iterate`, `tag`, `getCurrent/Next/TaggedBucket` (the optimisers write through them), `getPreviousCumulatedProtection`, `calculateProtectionAndBookingLimits`, `calculateMeanDemandAndOptimalRevenue`, `getLowestAverageYield`, `recalculate`, `fillup` |
| Bucket | not under `src/` (modelled from the spec) | yield, mean, cumulated protection, protection, cumulated booking limit | setters |
| DP and MC optimisers | `DPOptimiser.hpp`, `Optimiser.hpp` (declarations only) | none of their own | write cumulated protections through the holder's cursors, then `recalculate` |
| EM unconstrainer | `ExpectationMaximization.hpp` (declaration); its helpers in `0.23.0/.../HistoricalBookingHolderHolder.cpp` (commented out in this snapshot) | similar-flight bookings, censorship flags, unconstrained estimates | seed from uncensored data, E-step, M-step, stopping test |
| StudyStatManager | `src/rmol/rmol/bom/StudyStatManager.cpp` | map from names to statistic aggregators | `getStatAggregator`, `addMeasure` |
| LATUS service | `src/trams/latus/LATUS_Service.cpp` | service contexts (SIM, TSP, INV) | `init`, setters, `simulate` |
| Types, factories, LATUS business objects | `RMOL_Types.hpp`, `FacRmolServiceContext.hpp`, `LegCabin.hpp`, `FacCityPair.hpp`, `InventoryManager.hpp` | declarations, getters and setters | none with behaviour under `src/` |

**How the parts interact.**
- An optimiser receives a BucketHolder. It walks the holder with `begin` and
  `iterate` and writes a cumulated protection into the bucket under a cursor.
  Then it calls `recalculate()`.
- `recalculate()` runs two passes. The first derives each bucket's protection
  and booking limit from its predecessor's cumulated protection. The second
  sums the mean demand and the revenue.
- Both passes, and `getLowestAverageYield()`, reuse the holder's own shared
  cursors. So calling them moves the cursors from wherever a caller left
  them.
- `fillup()` copies the booking limits into a caller's vector.
- The EM unconstrainer is independent of the holder. It turns censored
  booking histories into demand estimates, which become the buckets' means.
- `StudyStatManager` and the LATUS facade are separate entry points. They
  share no state with the holder.

RMOL is single-threaded. The hard behaviours are therefore not races. They
are:
- the order of legal calls (a cached value read after its inputs changed);
- cursor state shared between a caller and the holder's own passes;
- the numeric edge of the `short` returned by `getSize()`.

## 2. Modules

| Module | Models | Kind |
|---|---|---|
| `BucketHolder.tla` | BucketHolder and its buckets | component |
| `MC_BucketHolder.tla` | TLC instance: gives `SeqSum` an executable recursive-function definition | MC module |
| `BucketHolder_proofs.tla` | TLAPS proofs about `BucketHolder` | proofs |
| `StudyStatManager.tla`, `MC_StudyStatManager.tla` | `StudyStatManager.cpp` | component, MC module |
| `StudyStatManager_proofs.tla` | TLAPS proofs about `StudyStatManager` | proofs |
| `LatusService.tla`, `MC_LatusService.tla` | `LATUS_Service.cpp` | component, MC module |
| `LatusService_proofs.tla` | TLAPS proofs about `LatusService` | proofs |
| `ExpectationMaximization.tla` | the EM loop (from the spec) and its helpers (from `HistoricalBookingHolderHolder.cpp`) | component |
| `MC_ExpectationMaximization.tla` | TLC instance: gives `Gcd` (Euclid) and `Total` (a running total) executable definitions | MC module |
| `ExpectationMaximization_proofs.tla` | TLAPS proofs about `ExpectationMaximization` | proofs |

### BucketHolder

**State.** The state variables map to the code as follows.

| Variable | Code | Modelled as |
|---|---|---|
| `bucketList` | `_bucketList` | a sequence of records |
| `itCurrentBucket`, `itNextBucket`, `itTaggedBucket` | the three list iterators | positions: `0` is a singular (default-constructed) iterator, `1..Size` a bucket, `Size+1` is `end()` |
| `totalMeanDemand`, `optimalRevenue` | the cached aggregates | integers |
| `demandFactor` | the demand factor | the fraction `[num, den]`, so the model needs no division |
| `bookingLimitVector` | the caller's vector that `fillup` appends to | a sequence |
| `pending` | none (ghost) | which derived groups (`"limits"`, `"revenue"`) have not been recomputed since their inputs changed |

Doubles are abstracted to integers. The list size passes through `ToShort`,
which keeps the two's-complement wrap of the `short` that `getSize()` returns.
Its width is set by the constant `ShortMax`.

**Actions.** There is one action per public method, and the caller is
unconstrained: any method may follow any other. A guard excludes only the
calls whose behaviour is undefined in the code:
- dereferencing a singular iterator or `end()`;
- the passes on an empty list, which dereference `end()`.

Each pass is one atomic step: the loop's whole effect on the list, the
aggregates and the cursors. `CursorsAfterLoop` gives where the passes leave
the cursors. `Recalculate` composes the two pass operators in the code's
order.

**Initial states.** Every list the factory can build: up to `MaxNbOfBuckets`
buckets, ordered by non-increasing yield, with zero protections and limits.
The cursors start singular, and both derived groups start pending.

### StudyStatManager

| Variable | Code | Modelled as |
|---|---|---|
| `statAggregatorStructList` | `_statAggregatorStructList` | function from keys to the sequence of measures the aggregator received |
| `requested` | none (ghost) | the measures passed to `addMeasure` for each name |
| `invalidAccess` | none (ghost) | `end()` of the map was dereferenced |

`getStatAggregator(name)` finds the name. On a miss it inserts a new
aggregator under the aggregator's `describeKey()` and then finds the *name*
again. `StatAggregatorStruct` is not under `src/`, so `describeKey()` is the
constant operator `DescribeKey`. `AddMeasure` is the whole of `addMeasure`:
the lookup, then the append. A bound `MaxMeasures` caps the calls per name.
The insertion is written as an explicit function over the old keys and the
new one. `std::map::insert` leaves an existing entry alone, and so does
this function.

### LatusService

| Variable | Code | Modelled as |
|---|---|---|
| `serviceContexts` | the registry of `LATUS_ServiceAbstract` | function from module names (SIM, TSP, INV1, INV2) to attribute records |
| `logConfigured` | the logger singleton's parameters | Boolean |
| `constructed`, `simulated` | the object exists; `simulate()` has returned | Booleans |
| `missingContext` | none (ghost) | a call looked up a module with no context |

`Construct` is the constructor with its `init()`. It registers the four
contexts and sets the two inventories' owner airline codes. Each setter
forwards to one context. `Simulate` reads the TSP and SIM contexts, then
`cleanFactory()` empties the registry. `LATUS_ServiceAbstract` and
`FacSupervisor` are not under `src/`, so a failing lookup is recorded in
`missingContext`, not modelled further. The constant `ReuseAfterSimulate`
says whether the caller keeps using the object after `simulate()`.

### ExpectationMaximization

`ExpectationMaximization.cpp` is not under `src/`, so the loop is taken from
the spec (section 4.5). The spec leaves the seed to the caller; the model
seeds with the uncensored statistics the helpers compute, which is one seed
a caller may pass:
1. seed the mean and standard deviation from the uncensored observations;
2. E-step: replace each censored estimate with `calculateExpectedDemand`;
3. M-step: recompute the mean and standard deviation of all the estimates;
4. stop when the mean moves by less than `Tolerance`, or after
   `MaxIterations` rounds.

The helpers are translated from `HistoricalBookingHolderHolder.cpp`, where
they are commented out in this snapshot:
- the uncensored count, mean and standard deviation (which divides by n - 1);
- the mean and standard deviation of the estimates (which divides by
  lSize - 1);
- the flag list;
- `calculateExpectedDemand`.

The three uncensored helpers loop over every observation and skip the
censored ones. The model does the same:
- `Uncensored` is the set of uncensored indices, and its cardinality is the
  count;
- `UncensoredBookings` adds nothing (0) for a censored observation;
- the standard-deviation class is computed over the set of summed values.

Numbers are exact normalised rationals, or NaN, which is the record with
denominator 0. `Gcd` is the greatest common divisor in `1..d`, and `Total`
is the last of a sequence's running totals. Both are choices that the
provers can expand; TLC substitutes Euclid's algorithm and a recursive
running total (`MC_ExpectationMaximization.tla`), which compute the same
values. A 0/0 gives NaN, as in IEEE doubles. A standard deviation is
kept only as its class (`"zero"`, `"pos"`, `"nan"`), because the E-step's
branches depend on nothing else. The truncated-normal expectation
`mean + sd·φ(z)/Q(z)` is abstracted to any integer at or above the booking
and the mean, or the prior estimate when `Q` underflows to 0. The sd = 0
cases are exact:
- `b > mean`: `Q = 0`, so the function returns the prior estimate;
- `b < mean`: `d2 = 0`, so it returns the mean;
- `b = mean`: 0/0, which is NaN.

## 3. Runs

| Run | Config | Expect | Checks |
|---|---|---|---|
| `holder_api` | `MC_BucketHolder.cfg` | pass | `TypeOK`, `CursorsInStep`, `BookingLimitIdentity`, `RevenueIdentity` |
| `short_wrap` | `MC_BucketHolder_ShortWrap.cfg` | violation | `BookingLimitIdentity` |
| `stat_manager` | `MC_StudyStatManager.cfg` | pass | `MeasuresKept` |
| `latus_single_use` | `MC_LatusService.cfg` | pass | `ContextsReached` |
| `latus_reuse` | `MC_LatusService_Reuse.cfg` | violation | `ContextsReached` |
| `em_loop` | `MC_ExpectationMaximization.cfg` | pass | `CensoredNumbersAboveBooking` |

The properties checked are:
- **`CursorsInStep`**: `next` is always one past `current` (or both are at
  `end()`, or both are singular). The callers read `getNextBucket()`
  assuming this, and `begin`, `iterate` and both passes must each keep it.
- **`BookingLimitIdentity`**: whenever no cumulated protection has been
  written since the last protection pass, every bucket `j` satisfies
  `limit_j = C - cumProt_{j-1}` and `prot_j = cumProt_j - cumProt_{j-1}`.
  This is the relation the spec states.
- **`RevenueIdentity`**: whenever the revenue pass is not stale, the total
  mean demand is the sum of the means and the revenue is the sum of
  yield times protection. The demand factor is `total / C` when `C ≠ 0`.
  This catches a missing reset of the sums and a swapped order of the passes
  in `recalculate()`.
- **`MeasuresKept`**: after any interleaving of `getStatAggregator` and
  `addMeasure` for several names, each name's aggregator holds exactly the
  measures passed for that name, in order. No call dereferences `end()`.
  Replacing the entry on every lookup breaks it.
- **`ContextsReached`**: every context lookup made by `init()`, the setters
  and `simulate()` succeeds.
- **`CensoredNumbersAboveBooking`**: across every round, a censored
  observation's numeric estimate never drops below its booking count. This
  includes the underflow fallback that returns the prior estimate.

**Bounds for `holder_api`.**
- Capacity 2, up to 3 buckets, yields {1,2}, means {1}, written protections
  {0,1,2}, and a vector of up to 2 entries.
- Three buckets are needed so that one bucket has both a predecessor and a
  successor, and so that a cursor can sit in the middle while a pass runs.
- Two yields give both equal and strictly ordered neighbours.
- Protections 0..2 reach the cabin capacity, so limits go down to 0.
- The run covers 464,870 distinct states in under a minute.

**Bounds for `short_wrap`.** The run narrows `short` to 2 bits
(`ShortMax = 1`), which scales the 16-bit wrap down to a list of 2 buckets.
TLC's trace has one step after a start state with two buckets, all
protections and limits 0, and `"limits"` pending:
1. The protection pass sets bucket 1 and runs `LoopCount = 0` iterations,
   because the size 2 wraps to -2.
2. Bucket 2's limit stays 0, where the identity wants `C - cumProt_1 = 2`,
   and `"limits"` is no longer pending.

The same thing happens in the real code with 32,768 buckets (finding 1
below).

**Bounds for the other runs.**
- `stat_manager`: three names with `describeKey()` equal to the name, two
  measure values, and at most 2 measures per name. This gives 512 states,
  enough for every interleaving of first lookups and appends across names.
- `latus_single_use` / `latus_reuse`: two values for each setter argument
  (489 states). Every setter can run before and after every other.
- `em_loop`: histories of 1 to 3 flights with bookings {1, 2}, censored or
  not, estimates up to 3, tolerance 1 and 3 rounds (568 states). Three
  flights are needed for a mean with denominator 3, and for histories with
  two uncensored flights and one censored.

**Fairness.** None is assumed. RMOL runs no concurrent activity, and
whether a caller makes a next call is up to the caller, so no run checks a
liveness property. The EM loop ends by its iteration cap, but that loop is
taken from the spec, not from code under `src/`, so its termination says
nothing about the program and is not checked.

**Findings.**
1. `short_wrap` (`code_bug`, `BucketHolder.cpp:33`): the `short` wrap, as
   described above.
2. `latus_reuse` (`code_bug`, `LATUS_Service.cpp:111`): `simulate()` ends
   with `cleanFactory()`, which destroys every context that `init()`
   registered. The object stays usable, so the next setter or `simulate()`
   looks up SIM or TSP in an empty registry. TLC's trace is `Construct`,
   `Simulate`, `SetSimulationRunNumber`.

The E-step's sd = 0 edge (0/0 when a censored booking equals the mean) is
in `ExpectedDemand`, but it is not reported: the code that computes it,
`calculateExpectedDemand`, is commented out in this snapshot, and the E-step
the program runs is not under `src/`.

## 4. What is proved

Every theorem below is checked by `tlapm` to the last leaf, for every
value of the constants that satisfies the module's `ASSUME`s and the
theorem's own hypotheses.

### BucketHolder (`BucketHolder_proofs.tla`)


- **`TypeCorrect`**: `Spec => []TypeOK`, for any constants that satisfy the
  module's `ASSUME`s.
  - `InitTypeOK` and `NextTypeOK` prove it with one case per action.
  - They rest on lemmas about the operators: `ToShortBound`,
    `LoopCountBound`, `SeqSumType`, `ProtectionAndBookingLimitsType`,
    `AggregatesType` and `CursorsAfterLoopType`.
- **`BookingLimitIdentityHolds`**: `Spec => []BookingLimitIdentity` under the
  hypothesis `MaxNbOfBuckets <= ShortMax`, that is, no list is longer than
  the largest short.
  - The identity alone is not inductive. The step that writes a protection
    needs the types, so the inductive invariant is
    `IInv == TypeOK /\ BookingLimitIdentity`.
  - `ToShortSmall` shows that under the hypothesis `ToShort(Size) = Size`,
    so the loop visits every bucket.
  - `PassEstablishesLimits` shows that the pass then establishes
    `LimitsConsistent` for the list it returns.
  - The other actions either leave the list alone or add `"limits"` to
    `pending`.
  - The `short_wrap` run shows that the hypothesis is needed.

`SeqSum` is defined in the module through a `CHOOSE` over running-sum
functions, so that the provers see a non-recursive definition. TLC
substitutes the equal recursive function `MCSeqSum`.

- **`CursorsInStepHolds`**: `Spec => []CursorsInStep`, for every value of
  the constants.
  - The inductive invariant is `CInv == TypeOK /\ CursorsInStep`. The types
    are needed to know that `end()` stays at `Size + 1`: no action changes
    the list's length.
  - `CursorsAfterLoopInStep` shows that both loops leave `current` on a
    bucket and `next` one further, because `LoopCount(n) <= n - 1`.
- **`RevenueIdentityHolds`**: `Spec => []RevenueIdentity`, for every value
  of the constants.
  - The inductive invariant is `RInv == TypeOK /\ RevenueIdentity`.
  - No fact about `SeqSum` is needed. The passes set the aggregates to the
    sums of the list they leave. `CumulatedProtectionKeepsSums` shows that
    an optimiser's write keeps every yield, mean and protection, so the
    summed sequences are the same functions. A protection pass makes
    `"revenue"` pending.

### StudyStatManager (`StudyStatManager_proofs.tla`)

- **`MeasuresKeptHolds`**: `Spec => []MeasuresKept` under the hypothesis
  `KeyedByName`, that every name is its own aggregator's `describeKey()`.
  - The hypothesis is needed. If a name's key differs, the second `find()`
    returns `end()` at the first call for that name.
  - `StatAggregatorStruct` is not under `src/`. Its constructor is given
    the name, and the MC instance takes the key to be that name.
  - The inductive invariant adds to `MeasuresKept` only that `requested` is
    a function over the names.
  - `AfterLookupKeeps` shows that after the find-or-insert, the name is a
    key, and every earlier entry is kept.

### LatusService (`LatusService_proofs.tla`)

- **`ContextsReachedHolds`**: `Spec => []ContextsReached` under
  `ReuseAfterSimulate = FALSE`.
  - The inductive invariant adds that, while the caller may still call,
    SIM and TSP are in the registry.
  - `Construct` puts them there. Setters keep the registry's domain
    (`SetAttributeKeepsModules`). After `simulate()` empties it, no further
    call is made.
  - The `latus_reuse` run shows that the hypothesis is needed.

### ExpectationMaximization (`ExpectationMaximization_proofs.tla`)

- **`TypeCorrect`**: every estimate and mean is `NaN` or a fraction with a
  positive denominator.
  - It rests on `GcdRange`, `RatType`, `AddType`, `DivByType`,
    `TotalType` and `ExpectedDemandType`.
  - It also rests on `AsNumberValue`: an integer `v` is the fraction
    `v/1`.
- **`CensoredNumbersAboveBookingHolds`**:
  `Spec => []CensoredNumbersAboveBooking`, for every list of observations
  and every bound.
  - The inductive invariant is `IInv == TypeOK /\ CensoredNumbersAboveBooking`.
    The types are needed because the comparison multiplies numerators and
    denominators.
  - `ExpectedDemandAbove` goes through the branches of
    `calculateExpectedDemand`:
    - NaN is excluded;
    - the prior estimate is covered by the invariant;
    - the mean is returned only when it lies above the booking;
    - the truncated mean is at or above the booking.


**What is only model-checked.**
- That `MCSeqSum`, `MCGcd` and `MCTotal` compute what `SeqSum`, `Gcd` and
  `Total` define. This is a fact about recursive definitions over all
  inputs. It would need induction with an operator parameter, which the
  installed provers cannot instantiate, so the MC modules' values are taken
  as the definitions' own.

## 5. Not modelled

- **The DP and MC optimisers.** Only declarations are under `src/`
  (`DPOptimiser.hpp`, `Optimiser.hpp`), and the optimisation is numeric.
  What they do to the holder, writing cumulated protections through the
  cursors and calling `recalculate()`, is in the holder model as the
  caller's free choice of calls. The hazards that depend on their
  bodies stay open:
  - an optimiser capacity that differs from the holder's;
  - an empty collection;
  - reuse of the `fillup()` vector.
- **Types, exceptions and logging**: declarations only.
- **The factory singletons**: declarations only.
- **`StatAggregatorStruct`**: its body is not under `src/`.
- **The LATUS schedule objects** (`LegCabin`, `FacCityPair`,
  `InventoryManager`): getters, setters and declarations.
- **`Utilities`**: its numeric helpers have no bodies under `src/`.
- **Output-only members**: `describe`, `display` and `toStream`.
