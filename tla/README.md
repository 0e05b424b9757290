# cCUDAHurricane: a TLA+ model of the scanner

cCUDAHurricane scans a range of secp256k1 private keys on every CUDA device of the machine and
prints the key whose public key hashes to a target. A run is useful only if its outcome can be
believed: *exhausted* must mean that every key was tested, *found* that the printed key is the key,
and a failure of one GPU must not pass for either. The program is a few hundred lines of threads,
flags and index arithmetic around a large amount of straight-line cryptography. The models below
are about the former, and about the cryptography underneath as far as it has carries, chains, loops,
shortcuts and renamed registers that can go wrong.

## The system

| Component | State it keeps | Operations | Interacts through |
|---|---|---|---|
| Host program (`cCUDAHurricane.cpp`) | `g_sigint`, `g_found`, `g_threadcnt`, the array of `GpuPuzzle`s; `prepared`, `thr_started`, `any_failed` in `find_key` | `main`, `parse_params`, `validate_params`, `init_gpus`, `init_g_points`, `find_key`, `show_stat`, `handle_sigint` | creates workers, sets `m_stopFlag`, reads `Failed`; the exit code is its answer |
| Worker (`puzzle_thr_proc`, `GpuPuzzle::Execute`) | `Failed`, `Found`, `m_stopFlag`, launches done, batches left | launch, synchronize, read the result page, release, report | `g_found`, `g_threadcnt`; the mapped result page |
| Scan plan (`GpuPuzzle::Prepare`, `PrepareHost`, `GetThreadsCount`, `CalcEffectiveBatchSize`) | thread count, batch size, slices, batches per thread, `runs_total`, start scalars | sizing, shrinking, sharing out | fills `Kparams`, which `Execute` spends |
| CUDA resources (`Prepare`, `PrepareCuda`, `Release`, the destructor) | pinned host memory, device buffers, stream, the thread's last-error slot | allocate, hand off, free | `hParams`, `Kparams`, `m_cudaStream` |
| Kernel (`GpuCore.cu`: `TestKernel`, `publish_found_2`) | per lane: centre point, batch count; per warp: mask; device memory between launches | walk, hash, compare, publish, write back | mapped memory (`TFindResult`), warp intrinsics |
| Field arithmetic (`Math.cuh`, `EcInt.cpp`) | carry flag, accumulators; the chunk state of the inversion | add, subtract, multiply, square, invert modulo P | called by the kernels and by the setup |
| Point arithmetic (`GpuEc.cu`, `Ec.cpp`, the batch of `GpuCore.cu`) | the running sum of a scalar multiplication; per lane the centre, the prefix products, the running inverse | multiply the base point, walk a batch, jump | setup kernel -> device memory -> search kernel; host tables -> constant memory |
| Arguments (`validate_params`, `Math.h`, `Utils.h`) | range length, chunk, remainder, current start, target | length, split, decode | hands parts and the target to `Prepare` |
| Hashing (`GpuHash.cu`, `Utils.h`) | the 16-word schedule, the registers of a round | hash and filter on the device; checksum on the host | called by the kernel and by the decoding of an address |
| Launch path (`GpuCore.cu`, `CallCubin.cpp`) | one loaded module per GPU (`g_cubin`, `g_cubin_ready`), its constants | load, copy a constant, launch | called by `Prepare` on the main thread and by `Execute` on a worker |
| SASS sources (`asm/`), `cubin_globalize.py`, `rcasm_test/` | - | tools and measurements | replace or measure the kernel |
| Scripts (`proof.py`, `verify.py`, `abbench.py`) | test bookkeeping | run the binary, watch it, compare | exit code and printed key |

What is hard about it, component by component:

* **Host program.** The counter `g_threadcnt` is the only thing `main` waits on; it is charged before
  a thread exists, refunded when it does not come to exist, and decremented by the thread. The drain
  has no timeout. `Failed` is a plain bool that `main` reads while a worker may be writing it. Ctrl+C
  may come at any step, and a second one ends the process on the spot. The exit code folds all this
  into one number.
* **Scan plan.** Three kinds of rounding (thread count down, batches up, launches up) and one shrink
  loop have to leave neither a hole nor an overlap.
* **Resources.** Some fifteen CUDA calls may fail, the pinned page changes owner in the middle, the
  same `Release` runs in a worker and again in the destructor, and the error slot of the thread
  outlives the GPU that caused the error.
* **Arithmetic.** 256-bit numbers are chains of 32- or 64-bit instructions linked by one carry flag; values
  are left unreduced where that is thought harmless; one inversion serves a whole batch; the inversion
  decides on the low words what to do to the whole numbers.
* **Arguments.** Ends are inclusive, lengths may not fit, GPUs may outnumber keys; an address hides leading
  zero bytes and has to be refused if a character is off.
* **Hash.** The lane hashes with a shortened RIPEMD-160 that is right in one word only, and which word that is
  depends on where each register is last written; host and device have a SHA-256 each.
* **Launch path.** Constants are uploaded by one thread and launches made by another, in two builds with
  different modules; a launch that was refused leaves nothing for the synchronize after it to report.
* **Kernel.** Several finders, stores that become visible in any order, warp intrinsics that wait for
  every lane of a mask, one modular inverse shared by a whole batch.

What makes each correct is stated by the properties listed further down.

## The modules

| Module | What it is | Lines of code it stands for |
|---|---|---|
| `Search` | abstract: what the exit code promises about the parts of the range | - |
| `FindKey` | `main`, `find_key`, `puzzle_thr_proc`, the control flow of `Execute`, `handle_sigint`; refines `Search` | `cCUDAHurricane.cpp:50-150`, `384-611`, `GpuPuzzle.cpp:200-296` |
| `FindKeyProofs` | the inductive invariant of `FindKey`, the safety theorems, and that `FindKey` implements `Search` | - |
| `Math256` | the 256-bit helpers on limbs, carry by carry | `Math.h` |
| `RangeSplit` | `validate_params` on the range and the split over the GPUs | `cCUDAHurricane.cpp:208-280`, `456-490` |
| `ScanPlan` | extends `RangeSplit`: sizing, shrinking, budget, launches of one part | `GpuPuzzle.cpp:121-173`, `223-268`, `316-420`, `477-549` |
| `ScanPlanProofs` | that the helpers of `Math256` give the limbs of the sum, the difference, the product, the quotient; that `PrepareHost` in limbs is what `ScanPlan` computes; the inductive invariant of the split and the scan, and the theorems about both | - |
| `FindResult` | abstract: what the result page promises to a host that sees `found` | - |
| `TestKernel` | the kernel's walk, the publication protocol, the host's read of the page; refines `FindResult` | `GpuCore.cu:96-406`, `GpuPuzzle.cpp:254-292` |
| `TestKernelProofs` | the inductive invariant of `TestKernel` and its theorems, the refinement among them | - |
| `PrepareRelease` | ownership of the CUDA resources from `Prepare` to the destructor | `GpuPuzzle.cpp:14-20`, `82-198`, `422-672` |
| `KernelLaunch` | extends it by the constants and the launches of both builds | `GpuCore.cu:10-53`, `408-525`, `CallCubin.cpp`, `GpuPuzzle.cpp:233-268`, `640-652` |
| `PrepareReleaseProofs` | the inductive invariant of ownership, that `KernelLaunch` implements `PrepareRelease`, and the theorems about both | - |
| `WordProduct` | the 512-bit product and square as operators on numbers, pass by pass, with the carries they lose | `Math.cuh:248-414`, `444-563` |
| `SplitProduct` | extends it: the same, instruction by instruction | `Math.cuh:250-413`, `445-562` |
| `FieldMath` | extends `WordProduct`: the modular operations of kernel and host as operators on whole numbers; products fold what `mul512_split` and `sqr512_split` return | `Math.cuh:31-146`, `215-246`, `418-442`, `567-591`, `EcInt.cpp:187-266` |
| `FieldCall` | a call of one of them other than `mul_mod` and `sqr_mod`, and what its comment promises | - |
| `Inversion` | the modular inversion of kernel and host, chunk by chunk | `Math.cuh:593-837`, `EcInt.cpp:285-404` |
| `FieldUnit` | `FieldCall`, `Inversion` and `SplitProduct` as one unit; `mul_mod` and `sqr_mod` fold the product taken | `GpuEc.cu:33-57`, `Math.cuh:418-442`, `567-591` |
| `FieldUnitProofs` | the theorems about its calls, the inductive invariant of an inversion and the theorems about it, and the exactness of the product | - |
| `Curve` | the group of the curve by the textbook: the reference | - |
| `ScalarMul` | extends `Curve`: the two scalar multiplications | `GpuEc.cu:49-198`, `Ec.cpp:9-97` |
| `PointBatch` | extends `ScalarMul`: one lane's batches from its scalar's point | `GpuCore.cu:182-389` |
| `PointBatchProofs` | the field modulo P, the numbers of the points, the inductive invariant of a multiplication and of a batch, and the theorems about both | - |
| `Word32` | words of 32 bits, as sets of their bits | `GpuHash.cu:10-23`, `210` |
| `Sha256` | the host's SHA-256 of one block | `Utils.h:11-100` |
| `Hash160` | the device's two hashes, round by round, in full and for word 2 | `GpuHash.cu` |
| `Hash160Reference` | RIPEMD-160 and base58check by the book: the reference | - |
| `TargetInput` | the target, from address or hash to the words compared | `Utils.h:103-205`, `cCUDAHurricane.cpp:215-260`, `GpuPuzzle.cpp:633-640` |
| `HashUnit` | extends both: a lane's filter and its confirmation against that target | `GpuHash.cuh`, `GpuCore.cu:202-216`, `Utils.h:220-263` |
| `HashUnitProofs` | sums, bytes, histories and tables, and the invariant that goes round by round | - |
| `NumberFacts` | for the proofs: induction over numbers and recursive functions, as lemmas about sets and functions, and divisibility | - |
| `MC*` | the instances TLC checks | - |

`FindKey`, `ScanPlan`, `TestKernel` and `PrepareRelease` meet at named interfaces. `FindKey` reduces a
part of the range to a number of launches, `runs_total`, and the launch that finds something, `hit`;
`ScanPlan` computes `runs_total` and shows what the launches cover, and `TestKernel` shows what one
launch does with the keys it is given. `FindKey` reduces the resources of a GPU to one flag, `held`;
`PrepareRelease` shows that `Prepare` is all or nothing and that `Release` frees what is held, whoever
calls it first, and `KernelLaunch` what the outcome of a launch that `FindKey` takes from the environment rests
on. `TestKernel` stands a point for its key; `PointBatch` shows that the points of a batch are
those of the keys, from the scalar on, by field operations which `FieldUnit` relates to the integers
modulo P. Their double-width products are the operators of `WordProduct`, which lose the carries the code loses;
`SplitProduct` takes them apart into instructions, and `OperatorsAreExecuted` ties the two together. `TestKernel`
also stands a hash for the answer to two questions, does it match in word 2 and does it match in full; `HashUnit` shows
that the code asks them rightly.

### FindKey

`pc` is the position of the main thread, `i` the index of whichever `for` loop it is in, `wpc[g]` the
position of worker `g`. Every access to a variable another thread writes is a step of its own:
reading `g_threadcnt` and `g_sigint` (`Watch`), reading `g_found` (`Wake`), one GPU of the `Stop()`
loop at a time (`StopGpu`), testing the stop flag (`Test`) and launching (`Launch`), announcing the key
(`Report`) and decrementing the counter (`Retire`). `g_sigint` and the atomics are sequentially
consistent in the model; the code orders the two accesses where this matters with acquire and release.
`Failed` in the `Stop()` loop is the one data race: `FailedSeen` lets `main` read the old value as well
as the new one. After the drain the reads are ordered, and `Collect` reads what was written.

The environment may reject a launch, kill a kernel, wedge one for ever (`Wedge`), fail `Prepare`,
`cudaSetDevice` or `pthread_create`, and press Ctrl+C at any time. `Joins = FALSE` is the Windows
build, where `CloseHandle` does not wait. `late[g]` is a history variable: launches that ended after the
stop.

`Split` is what `find_key` can produce: the first parts get one key more than the last ones, so only
trailing parts can be empty, and if one is, no part has more than one key.

### RangeSplit and ScanPlan

A request is what `parse_params` hands over: the inclusive ends, `--grid` A and B, `--slices`, and the
number of GPUs. `Validate` subtracts, adds one and looks at both statuses; `Divide` and `Deal` are the split;
everything up to here works on limbs: `Power` are their weights, `ValueFrom` the number the limbs from one
upwards stand for, `Carries`, `Overflows`, `Borrows` and `Remainders` what goes from limb to limb. `Prepare` hands the part just dealt to one GPU, whose plan the
behaviour follows from there; that the others go their own way is `FindKey`'s subject. From there on keys,
scalars and the part are integers, which `PartsTile` justifies. `PrepareHost` divides in limbs (`per_thread_batches`) and refuses a budget
by looking at the limbs above the lowest; the start scalars it adds up limb by limb are `h_start_scalars`, the action takes the integers they stand for
(`StartScalars`), and `HostArithmeticCorrect` is that the two agree. `budget`, `runs_total` and the loop counters of
`Execute` are `u64`, so the sum in `RunsTotal` is taken modulo `Word`. `Launch` performs one launch: it adds
the keys all launched threads test to `tested` and moves the scalars on. `THREADS_PER_BLOCK`,
`MIN_THREADS_PER_BLOCK` and `BLOCKS_PER_SM` are the build's macros. Memory is measured in threads it has room for.

### TestKernel

A point is represented by its private key: adding `i*G` adds `i`, and a match is membership of the
key in `full`. The lanes of a warp that share its mask move together from intrinsic to intrinsic; between
two of them (in `publish_found_2` and in the write-back) they move on their own. A store of the scalar is
`Limbs` stores that land in any order; the fence waits for them. `pref` are the keys that pass the
one-word filter, so a warp may vote without a match. `Degenerate` is the one fact of the field
arithmetic that is modelled: if a factor of the shared product is zero, its inverse is useless for the whole
batch and for the point jump. `hashed` is a history variable.

The kernel's comment at `GpuCore.cu:182-185` says that a lane that publishes returns and the mask shrinks; in
the code it is the whole warp that returns (`__any_sync(mask, full)`), and `Leaving` says so.

### PrepareRelease

`allocated[g]` is what the CUDA runtime holds for a GPU; `locals`, `hParams`, `Kparams[g]` and
`m_cudaStream[g]` are who points to it. `Calls` lists the calls of `Prepare`, `PrepareHost` and
`PrepareCuda` in their order; calls that allocate nothing and fail alike are one entry. `FailCall` is the `ck`
macro with the unwinding of the callee. How CUDA itself behaves is assumed: a failed call fills the last-error slot of
its thread, `cudaGetLastError` empties it, and after a kernel died the memory of its GPU cannot be
freed.

### KernelLaunch

The one step that `PrepareRelease` takes for the constants becomes the six `CudaCopy*` calls (`Copy`) and `CudaSetupKernel`,
the one for the launches becomes the loop of `Execute`. `constants` is what the module of each GPU holds: the module linked
into the program, or the one loaded from a cubin, which starts without any; `ToModule` and `LaunchedFrom` are the same choice made
in two functions, on two threads. `native` chooses the build once. `LaunchStatus` is what `CallGpuKernel` returns, and a
rejected launch leaves the stream as it was. `LaunchNext` is that of `PrepareRelease` but for the steps it splits, and the projection is a
theorem (below).

### WordProduct, SplitProduct

`WordProduct` says what a product returns without saying how each instruction gets there: a pass adds its products
(`PassSum`) to an accumulator in one carry chain (`AddPass`), whose carry the closing `addc` puts into the word after the
pass, and no further. `Accumulated` runs the passes of one accumulator, `Columns512` adds the two. These are the operators that everything
above uses. In `SplitProduct` the two accumulators `e` and `o`, the carry flag `cc` and the position in the pass (`parity`, `r`, `c`) are
the registers; `Mac` is a pair of `mad.lo.cc`/`madc.hi.cc`, `Close` the `addc` that ends a pass. The unrolled
code was compared with the generated order instruction by instruction: row `r`, then column `N-1-r`, every
second column. `dropped` is a history variable, the weight of the carries that `Close` loses.

### FieldMath, FieldCall, Inversion

A whole `add.cc`/`addc.cc` chain is an addition modulo `R` with a carry, so the four-limb operations are
operators on numbers below `R`; the host's fifth limb makes its results integers in a slightly wider range.
The code has `R = 2^256`, `K = 2^32 + 977`; a number is `N` words (`WidthAssumption`). `mul_mod` and `sqr_mod` are `ReturnedOf` what
`mul512_split` and `sqr512_split` return, `LastCarry` is the carry their last addition does not put out, and `MulLost` and
`SqrLost` say that something was lost, by a closing add or there. In `FieldUnit` the product is taken
instruction by instruction and then folded (`Fold`). `Inversion` is one model of two programs that differ in the word
size, in what is done before the loop and in how the result is brought into range (`device`). `m`, `p`, `v`,
`kbnt` and `cnt` are the registers of `DIV_62` (of the inlined loop in `inv_mod`), the other variables the wide numbers.
Shifts are products with and quotients by a power of two (`Pow2`). The assumption that `P` is prime, and that
its low word is not 1, is what the host's last test on the divisor needs.

### Curve, ScalarMul, PointBatch

`ScalarMul` follows both loops over the bits of a scalar: the device's from the top bit (`DeviceDouble`,
`DeviceAdd`) with its tests for infinity and for equal points, the host's from the low bit (`HostAdd`,
`HostDouble`) without any. `PointBatch` goes on from the device's point: the centre is hashed, the prefix products
are built, inverted once, spent pair by pair, and the last of the inverse makes the jump. An unreduced
result of `inv_mod` is a choice; of 0 it returns 0, and of `P` itself 1. `harm` is a history variable: a carry of a product was lost, by a closing
add or by the last addition, or that of a sum, or a coordinate came out unreduced where a reduced one matters; the properties speak of what holds without harm, and
`Degenerate` of the centres for which the shared product is zero.

### Word32, Sha256, Hash160, TargetInput, HashUnit

A word is the set of its bits that are 1, so that the Boolean operations are those of sets and a rotation renames elements; a sum is the
exclusive or of its summands and of the bits a carry arrives at (`Carries`). What the reference computes step by step is a history: a function from the steps done to the
registers or words so far. `Hash160` follows the registers under the names they have in the unrolled code: no register moves, `Named`
and `Called` say which one is a macro's i-th argument in a round. `RipemdRound` is one round of both lines, `TrimmedRounds` what is left of the last
rounds in the filter's version. `Sha256` is the host's, which loads 64 words of schedule first and moves its registers, so that the two check each
other; its initial values and constants are, number for number, those of the device. `TargetInput` reads one character of an address per
step; a character stands for its value in the alphabet. `HashUnit` is one lane at one point, with the request the program was started with.

## What is checked

All runs pass, except the five whose expectation is a violation.

| Run | Instance | Shows |
|---|---|---|
| `find_key` | 2 GPUs, up to 2 launches each, joins that need not wait | `DrainingMeansStopped`, `OneLaunchAfterStop`, `ExhaustedMeansScanned`, `PrintedKeyMeansFound`, `CounterCountsWorkers`, `BuffersOutliveWorkers`, `ImplementsSearch`, `Terminates` |
| `scan_plan` | 1 100 requests on 12 devices; keys of two limbs of 64 values | `LengthIsExact`, `PartsTile`, `NoKeyMissed`, `NoKeyTwice`, `OverscanBounded`, `ScanEnds` |
| `test_kernel` | 2 warps of 2 lanes, 3 batches of 4 keys per lane in 2 launches, up to two matches anywhere | `NeverTorn`, `ReportedKeyMatches`, `ExhaustedMeansHashed`, `PointMatchesScalar`, `ImplementsFindResult`, `SearchEnds` |
| `prepare_release` | 3 GPUs, both builds, up to 2 launches each | `PrepareIsAllOrNothing`, `FreedOnce`, `NothingOrphaned`, `NoFalseBlame`, `LaunchSeesConstants`, `CountedMeansRan` |
| `field_unit` | numbers of 6 words of 4 values, P = 4049: sums and both inversions, in chunks of 4 bits, of the numbers within 3 of 0, K, 2K, R/2, P and R; `mul_mod` and `sqr_mod`, instruction by instruction, of operands with long carry chains | `SumsAreExact`, `EveryLossCounted`, `InverseExact`, `ChunkIsExact`, `ExactUpToClosingCarries`, `OperatorsAreExecuted`, `InversionEnds` |
| `point_batch` | numbers of 4 words of 6 values, P = 1291, a curve of 1303 points, 365 scalars on the device and 169 on the host, 2 batches of 8 | `DevicePrefixMultiple`, `HostSuffixMultiple`, `HashedIsPublicKey`, `InverseServesPair` |
| `hash_unit` | the points of the keys 1 and 6; 16 requests by address or hash, right and wrong | `FilterWordIsWord2`, `FoundIffTarget`, `AddressRoundTrips` |
| `find_key_interrupted` | 1 GPU | violation of `InterruptedMeansUnfinished` |
| `scan_plan_wrap` | words of 8 values | violation of `NeverTruncated` |
| `test_kernel_degenerate` | 1 lane, ranges that start at 0 and at half a batch | violation of `NoKeySkipped` |
| `split_product_carry` | products of 8 words of 3 values | violation of `ProductExact` |
| `field_unit_mul` | the products of `field_unit`, of reduced operands and without a lost closing carry | violation of `ProductCongruent` |

Types are stated and proved where the proofs rest on them (`FindKey`, `PrepareRelease`, `KernelLaunch`, `TestKernel`, `ScanPlan`,
`Inversion`); elsewhere the declarations of the variables say what they hold. `ChunkIsExact` is made of named parts: `MatrixFits`,
`NumbersFit` and `CoefficientsFit` are about overflow, `NothingIsShiftedOut` and `RelationKept` about what a chunk computes. `FreedOnce` covers use after free as well: whoever points to something freed frees it again.
`PrefixIsParity` and
`HostProductCongruent` are about a single operation; they are proved for all operands and have no run. `HashedIsPublicKey` goes over two batches and so covers the jump between them.

**The bounds.** *FindKey*: workers never read each other's state, they meet in `main` and in three
globals, so a second GPU gives "some other worker"; more of them are covered by the proofs. Two launches are
the least for which "one more launch after the stop" and "a part cut short" differ from the whole budget. A join
that need not wait (`Joins = FALSE`, the Windows build) has all the interleavings of one that does.
*ScanPlan*: the parts run from empty to several waves of threads, below, at and above every rounding boundary of
the grids chosen; long ones meet the budget a word cannot count and are refused. The ends lie where a limb is
empty or full, with two limbs, the least for which a borrow must cross one. *TestKernel*: two lanes in a warp
and two warps are what a race of finders inside and across warps needs; a batch of four has a centre, a pair
and a tail; three batches in launches of two need a write-back and a short launch. *PrepareRelease*: three GPUs
let one fail between two that succeed. *SplitProduct*: six words have every kind of pass that the code's eight
have (rows and columns, of both accumulators, passes that end at the top word, the square's shorter ones), and more words only more of them; `SplitProductExact` is about any
number, and `split_product_carry` has the eight, in words of three values, the least for which a product has a high word and an addition a carry on
top of it. Operands whose even and odd words are alike but for one make the longest carry chains. The two
passing properties were found to hold of eight such words as well, and of all operands of four. *FieldUnit*: `K*K` is near `R`, so that the second fold and unreduced
values occur often; the numbers next to 0, `P` and `R` are where a sum carries and both borrows of `sub_mod3` happen, and
`AdditiveExact` is about all the others; among the products a closing carry is lost, the last addition overflows, and both
happen at once. An inversion takes several
chunks of 4 bits, in words two bits wider, as the code's 30 bits are in 32 and 62 in 64. All that is special about this width is the
size of the coefficients (`CoefficientsFit` and the range from which `Normalised` recovers), see below; the rest is proved for every width. *PointBatch*: a small `K` and words of six values, so that losses are rare enough (285 of the 365 lanes begin
their first batch without harm, 120 their second, and 47 finish it) and still come at every stage; and scalars around the order and twice
the order, where sums meet the base point, its opposite and infinity; two batches make one jump between them.
*HashUnit*: the words have their 32 bits, since nothing smaller has the rotations and constants of the code; one block of a hash mixes
every bit of its input into every bit of its output, so that a wrong constant, order or rotation shows on any key, and a second key with the other
prefix and a different leading byte of the hash is there for the two cases of the prefix. The addresses have one leading one or, for the hash that is 0, many;
the wrong requests are off in one character or digit, in length or in version, and two hashes agree with the right one in word 2.

**Deadlock** is checked in every run: a finished program stutters explicitly (`Gone`, `Over`).

**Fairness.** `FindKey` assumes weak fairness of `main` and of each worker: the operating system runs
threads that can run, a launch that is not wedged returns. `Wedge`, Ctrl+C and nothing else are unfair; `Terminates` is
therefore conditional on no kernel wedging, which is what the comment at `cCUDAHurricane.cpp:561-564` says.
`TestKernel` assumes weak fairness of the host thread, of each warp and of each lane: independent thread
scheduling guarantees progress of a lane that is not waiting at an intrinsic, and a store eventually
lands. `ScanPlan` and `FieldUnit` are one sequential thread each, which runs on.

**Each property can fail**: next to the definitions of the code stand a few marked *Defect of the next
definition*, each the definition after it with a plausible mistake (a forgotten refund, a test that does
not swap, a fence that does not wait). No behaviour of the models uses them; substituted, they
violate the property they are paired with in `PROJECT.json`.

## Where the code and its comments differ

* `GpuPuzzle.cpp:173`: the rounding of `runs_total` wraps for a budget within `slices - 1` of
  2^64; the scan then ends at once with its budget unspent and is reported exhausted, although the comment at
  `GpuPuzzle.cpp:512-514` prefers refusing to truncating (`scan_plan_wrap`).
* `GpuCore.cu:236-240`: a part that starts at 0 or at half a batch loses all keys of the first
  thread but the first centre of it or so, and is reported exhausted (`test_kernel_degenerate`); the
  comment at `GpuPuzzle.cpp:542-543` says no key is skipped.
* `cCUDAHurricane.cpp:600`: Ctrl+C after the last launch still yields "before the range was finished"
  (`find_key_interrupted`).
* `Math.cuh:283` and the other closing adds of `mul512_split` and `sqr512_split`: `addc` without `.cc` loses
  the carry out of a word that is all ones (`split_product_carry`). At full width
  `a = {1, 2, 3, 4, 5, M, M, 0x55555555}` times `b = {7, 7, 7, 7, 7, 7, M, 3}` (words, low first,
  `M = 0xFFFFFFFF`) comes out short by 2^480. Random operands meet it about once in 2^30 products.
* `Math.cuh:441`, `:590`: the last addition of `mul_mod` and `sqr_mod` drops its carry (`field_unit_mul`). At full
  width `mul_mod(P - 2^17, P - 2^17)` returns `0x2fffffc2f` instead of `2^34`. Random operands meet it about
  once in 2^190 products. These carries and those of the closing adds are all that a product loses: `EveryLossCounted`.

Smaller remarks, without a run: the minimum of one wave (`GpuPuzzle.cpp:365`) overrides the memory and user caps that
the comment at `:369` says are respected; no memory for the table of points (`cCUDAHurricane.cpp:381`) exits with
the code that `:51` reserves for usage errors; "k up to 256 bits" (`Ec.cpp:68`) holds of `MultiplyG` below
the order only, and it is called with numbers up to 1024; `publish_found` (`GpuCore.cu:104`) has no caller, "every found path goes
through here" is true of `publish_found_2`; the branch for `threadsTotal == 0` in `Prepare` cannot be reached,
because `GetThreadsCount` returns at least one wave; a key past the end of the range can be reported, since
rounding up scans past it.

## What is proved

### The host program

For every number of GPUs, every number of launches and every split, TLAPS checks (`FindKeyProofs`; assumptions: `N` and `MaxRuns` are positive naturals, `Joins` a Boolean):

| Theorem | Says |
|---|---|
| `TypeCorrect` | `Spec => []TypeOK`; the counter stays within `0..N` |
| `CounterCorrect` | `g_threadcnt` counts the workers that will still decrement it, plus the one being created |
| `BuffersSafe` | no worker that may still use its buffers has lost them |
| `StopReachesAll` | past the `Stop()` loop everyone who could launch again was told |
| `StopIsPrompt` | at most one launch ends after the stop |
| `ExhaustedIsExhaustive` | exit code 2 means every part was scanned to its end without a match |
| `FoundIsNeverHidden` | exit code 0 exactly if a worker found a key, unless the process was aborted |
| `Refinement` | `Spec => ImplementsSearch` |

None of the properties is inductive by itself. `IInv` collects what they rest on: each worker's own
history (`WorkerInv`: a worker past its loop spent its budget, failed, found, or was stopped for a
reason), the counter (`Counting`: it equals the cardinality of the live workers, which needs the lemmas on
finite sets), who is prepared and started at each stage (`PhaseInv`), why anyone is ever stopped
(`StopInv`: a stop flag is set only after Ctrl+C, after a key was announced, or when no worker is left), and what
the exit code may be (`OutcomeInv`). The crux is `StopInv`: exit code 2 is only honest because every
reason to stop a worker early is one that `main` tests before it returns 2. The step case goes through `main`'s
actions and the workers' actions separately, one lemma per part of the invariant.

For the refinement, `StatusOf(g)` maps a GPU to the status of its part and `VerdictOf` the exit code to the
verdict, visible only once the process is gone. `VerdictInv` adds to `IInv` what the exit code stands on while
`main` is in its teardown, so that the last step is a `Decide`, a `Refuse` or an `Abort` of `Search`.

### The field operations

For every width `R`, every `K` and every operand (`FieldUnitProofs`; assumptions, which the code's constants
satisfy: `R` even and a power of the word size, `K` odd and positive, `3*K < R`, `K*K < R - K`):

| Theorem | Says |
|---|---|
| `AdditiveExact` | sums and differences of reduced operands, on the device and on the host, are reduced and exact, and congruent for an unreduced first operand |
| `PrefixExact` | the prefix byte is the parity of the reduced difference |
| `HostProductExact` | the host's product is congruent and fits four limbs, without exception (`HostProductCongruent`) |

A call takes any operands, `r` is set once and nothing else the unit does to the registers of a call is one of these operations, so each property is inductive with the
facts that the operands are numbers (`CallInv`); the work is in the lemmas, one per operation, which replace `%` by an
explicit multiple of `P` or `R` and leave linear arithmetic. `K*K < R - K` is what bounds the second fold, `3*K < R`
what makes one correction of `sub_mod3` enough.

### The double-width product

For every even number of words `N > 2`, every word size `W > 1` and every pair of operands (`FieldUnitProofs`; the code's are 8 words of 32 bits):

| Theorem | Says |
|---|---|
| `SplitProductExact` | `mul512_split` and `sqr512_split` leave the product, less the carries their closing adds lose, in the unit that also does everything else |
| `LossesAreCounted` | `mul_mod` and `sqr_mod`, from the words of their operands to the result: up to multiples of `P`, it falls short of the product by the lost carries of the passes and the carry of the last addition, and by nothing else (`EveryLossCounted`) |
| `SplitInvariant` | the invariant the two follow from |

`LossesAreCounted` adds to `SplitProductExact` what the two folds do to the product (`FoldInv`).

The property speaks of the end of the product. What holds on the way is `Summed`: the pairs of words multiplied so far are a set, `Multiplied(parity, r, c)`, which the position in
the passes defines, and the accumulators, the running carry at its column and the lost carries are together worth the sum of the products of exactly these pairs, each at its place (`Total`). For a square the
set holds one of each two mirrored pairs and the sum is half that of `Mirrored`. So the unrolled order is right for three reasons, each a lemma: at every column of a pass there is one pair and it is a new one
(`PairOfPlace`, `ColumnAdded`); the end of a pass is the start of the next (`NextRow`, `LastRow`, which is where the square's shorter passes differ); and when the last one is over all
pairs are done (`PlaceOfPair`). The products that `Mac` adds stay in two words and a carry (`MacWords`, `MacKeeps`), and `Close` moves the carry to its word or to `dropped` (`ClosingHolds`).

What remains is that nothing else is lost, though `Merge`, `Double` and `Diagonal` drop the carry out of their chains: the whole table is worth less than `W^(2N)` (`TotalFits`), and what is
held is at most a part of it (`NothingOverflows`). Hence the top word of the odd accumulator is 0 when the two are merged, and neither doubling nor the squares of the diagonal reach the word above the product.

The theorem says nothing of how much `dropped` is: for particular operands it is not 0, which `split_product_carry` shows.

### The resources and the launches

For every number of GPUs and of launches (`PrepareReleaseProofs`; assumptions: `N` and `MaxRuns` are
positive naturals):

| Theorem | Says |
|---|---|
| `PrepareCorrect` | `Prepare` returns with all five resources or with none, whichever call fails |
| `FreedOnceCorrect` | nothing is freed that is not allocated |
| `OrphansCorrect` | when `main` returns nothing is left on a GPU whose context works |
| `BlameCorrect` | a setup kernel is blamed only for its own failure |
| `LaunchImplementsPrepare` | `LaunchSpec => Spec`: the uploads and launches taken apart are steps of `PrepareRelease` or stutters |
| `CountedCorrect` | a launch that is counted was computed |
| `ConstantsCorrect` | a launch reaches a module with all six constants, in either build |

The three about ownership are not inductive: they speak of allocations, and what keeps these right is who points to what. The
invariant `IInv` of `PrepareReleaseProofs` says it for every position of the main thread: `Stage` gives `locals` and `hParams` call by call,
`OwnFields` the fields of the GPU being prepared, `Prepared`, `Untouched` and `Released` those of the GPUs before it, after it and
behind the destructor. The crux is `Ownership`: what is pointed to is allocated, and what is allocated is pointed to unless the
context is ruined. From the second half follow all-or-nothing and no orphans, from the first that nothing is freed twice. The
handoff of the page is where it nearly fails, since between `CudaDone` and `Handoff` both parameter blocks point to it; `Ownership` takes the union of
all pointers, and `Stage` and `OwnFields` say that at `LExit` only one of them does. One lemma per action shows the invariant kept; `CallOrder` spells
out the sequence of calls once.

`KernelLaunch` inherits all of this through `LaunchImplementsPrepare`. `ConstantsCorrect` adds `LInv`: which symbols were copied so far (`Copying`), that
a GPU past its uploads has all of them in the module it launches from and, in the native build, that this module will not be loaded again (`Uploaded`), and
that only prepared GPUs run (`Running`).

### The limbs, the split and the scan

For every number of limbs of any size, every request, any number of GPUs, every grid and any memory (`ScanPlanProofs`;
assumptions: `Word > 1`, `Limbs > 0`, the constants of the build and a device's multiprocessors and block size are positive, and of a request what `parse_params`
lets through: its ends are keys, its batch, blocks, slices and GPUs positive and of one word):

| Theorem | Says |
|---|---|
| `AdditionExact`, `SubtractionExact`, `DivisionExact` | `add_256`, `sub_256` and `div_256_u64` give the limbs of the sum, the difference and the quotient, and the right carry, borrow and remainder |
| `WordAdditionExact`, `WordProductExact` | `add_256_u64` and `mul_256_u64` give the limbs of the sum and the product with a word, modulo the key space, and say exactly when it did not fit |
| `CeilingExact` | dividing in limbs and adding one for a remainder is rounding up; the one added never overflows |
| `HostArithmeticCorrect` | the budget `PrepareHost` works out in limbs is the part divided by batch and threads, rounded up twice; it is refused exactly if it takes more than a word; each start scalar stands for the thread's first centre modulo the key space |
| `LimbsExact` | a number below the size of the key space has limbs, which stand for it |
| `LengthCorrect` | the length that is split is the number of keys asked for; what is refused is reversed, whole or ill-sized |
| `PartsCorrect` | the parts of the GPUs tile the range |
| `KeysShared` | every key of the range is in the part of exactly one GPU, and no part has another key |
| `DealtIsTested` | `NoWrap` implies that the keys dealt to a GPU have all been tested when its scan is done; with `KeysShared`, so has the whole range when all are |
| `ScanComplete` | `NoWrap` implies that a part reported exhausted was tested to its last key |
| `TestedOnce` | no key of a part is tested twice |
| `OverscanCorrect` | past the end of its part a scan goes less than a batch per thread |
| `BudgetHonoured` | `NoWrap` implies `NeverTruncated`: the budget is spent whole |

`SplitInv` says what the limbs stand for after each step of the split: `Validated` ties the length to the request, `Tiled` the start
and the remainder to the number of parts dealt. `Spending` is about the scan: after `Spent` batches per thread the keys tested are
`Covered(Spent)`, the union of the batches around `Centre(t, k)`, the scalars stand at the next one, the budget is the part shared out and rounded up
(`PerThreadBatches`), and the batches left are it less a slice for each launch. `Sized` adds that at least one thread is launched, in whole blocks. From there `NoKeyMissed` is a statement on division with remainder, and
`NoKeyTwice`, which compares a cardinality with a product, is that no two centres are closer than a batch.

`NoWrap` (`budget + slices - 1 < Word`) is the negation of what `scan_plan_wrap` needs to find its counterexample: without it the theorem is
false, and that run is the proof of it.

### The kernel and its page

For any number of warps, lanes, limbs, batches and launches, any set of matches and of keys that pass the filter (`TestKernelProofs`; assumptions: the
sizes are positive, a batch is even, ranges start at a natural number):

| Theorem | Says |
|---|---|
| `NeverTornCorrect` | a host that sees `found` sees all limbs of one finder's scalar |
| `ReportedCorrect` | the printed key hashes to the target |
| `PointCorrect` | `Proper` implies that stored points follow stored scalars |
| `ExhaustedCorrect` | `Proper` implies that "exhausted" means all keys hashed and none matching |
| `PageCorrect` | `Spec => ImplementsFindResult`: the flag publishes one match, once |

`IInv` has the types, whose turn it is (`Turns`), that the lanes of a warp are at the same intrinsic or in the same batch (`Together`), and
two parts that carry the weight. `Protocol` and `Content` say that between its claim and its flag at most one lane is anywhere, that what landed of the page
is its scalar, and that the fence is passed only with all of it landed: that is `NeverTorn`, in whatever order the stores land. `OnTrack(l)` relates a lane's
scalar, point and `hashed` to the batches it has done, so that the product of lanes and batches is the range at the end.

`Proper` is that a range does not start at 0 or at half a batch. Without it a shared product is zero and the keys of a thread are lost,
which `test_kernel_degenerate` shows; the theorems say that nothing else can lose one.

### The inversion

For every width `R`, every chunk size `C > 2` and every number (`FieldUnitProofs`; assumptions: those of the field operations, and for the
host's theorem that `P` is prime and its low word is not 1):

| Theorem | Says |
|---|---|
| `DeviceInverseCorrect` | `inv_mod` ends with the inverse, in four limbs, of everything that has one, and with 0 for 0 |
| `HostInverseCorrect` | `InvModP` returns the reduced inverse, and 0 for what has none, if its last coefficient is from `-2P` to `3P-1` |
| `ChunkCorrect` | `CoefficientsFit` implies `ChunkIsExact` |
| `InversionInvariant` | the invariant these three follow from |

A chunk sees the low words `p`, `v` only and decides by them what happens to `modp` and `val`. `InChunk` is why that works: each row of the matrix applied to
the whole numbers gives the word, times the power of two taken off so far, modulo a whole word (`Related`); the determinant of the matrix is that power,
and no row is longer than it in the sum norm (`Short`). When the chunk is over, the first makes the two sums divisible by `2^C` and the new `modp` odd;
the second gives the old numbers back from the new ones, so that common divisors are kept; the third keeps `modp` and `val` within `R`. `Whole` is what holds from
chunk to chunk: the coefficients' relation modulo `P`, those bounds, and that every common divisor of the two numbers divides `P` and `x`. The bounds are also why a test
of the low words of `val` is a test for 0. Why `Factor` clears three bits is that the square of an odd word is 1 modulo 8 (`FactorClears`); that zeros never run out of the
chunk is `ZerosFacts`.

What the invariant does not bound is the coefficients. Each chunk multiplies them by the matrix, adds up to `2^C - 1` times `P` and shifts, and their size depends on how
many chunks there are: with `C = 3` and numbers of 30 bits they do outgrow the two bits of room (`P = 2^30 - 977`, `x = 0x232d5882`), so `CoefficientsFit` is not true for every width and
stays a hypothesis, which TLC checks for its instance. At the code's sizes, 9 chunks of 62 bits or 20 and more of 30, a search by hill climbing met no coefficient above `1.74 * P`.

### The hash and the target

For every point and every request (`HashUnitProofs`; assumption: a point's x is eight words):

| Theorem | Says |
|---|---|
| `FilterWordCorrect` | what the filter compares is word 2 of the digest of the key the host prints |
| `FoundCorrect` | a point is found exactly if the hash of its printed key is the target |
| `UnitInvariant` | the invariant both follow from |
| `AddressCorrect` | an address is accepted exactly if it encodes a hash, and then as that hash |
| `AddressInvariant` | the invariant this follows from: what was read so far, and what acceptance and rejection mean |

TLC hashes two points, and a hash mixes its input so well that two say much; they do not show that no other operand of an addition, byte of a limb or leading digit makes a
difference. `UnitInv` says for each phase what the registers hold: `ShaInv` that after `t` rounds they are, under the names they have in round `t`, those of the
host's SHA-256 and that the window holds the last sixteen words of the host's schedule; `RipemdInv` the same of both lines and the book, with only two registers of them after the
trimmed rounds; `DigestInv` what was returned. That these are kept rests on facts of five kinds. *Sums*: the window adds in another order than the host, and addition modulo `2^32` is associative because
the carries of both sums arrive at each bit in the same number (`CarryStep`, `PlusAssociative`). *Rotations*: `bigS0` rotates rotations, `Ror` and `Rol` merge (`RorTwice`, `SigmasAgree`), and the
forms of the mixing functions agree (`MajoritiesAgree`, `MixedAgrees`). *Bytes*: a word cut out of two limbs by `__byte_perm` is four bytes of the printed key, padding and length included (`WindowIsBytes`,
`TailIsBytes`, `LoadedIsMessage`), and the digits of a byte give it back (`PrintedKeyBytes`). *Names*: no register moves on the device, so a round writes one register and the
others change their place (`NamedFacts`, `CalledFacts`, `ShaContinues`, `RoundTracks`). *Tables*: the orders and turns written out in the code are those that the book generates by its
permutations (`OrdersPermute`, `TableRows`, `StepFacts`). The trim is right since a register that is set once only moves on and is turned by ten (`BookMoves`), so that word 2 depends on the rounds left
out through two rotations (`TrimmedEnds`). `Growth` is the lemma about histories: what each step appends stays.

That decoding and encoding an address undo each other is a fact about numbers. Digits are determined by their value and the count of zeros in front of them, in any base (`DigitsUnique`); an address
and the bytes it encodes have the same value and equally many zeros in front, one in base 58 and the other in base 256 (`SameNumber`), so either determines the other (`AddressUnique`,
`BytesUnique`). The decoder keeps that since a character makes the number in `b256` 58 times as large, and the digit (`TimesValue`), which leaves no zero byte at the high end, and `Raw`
restores as many zeros as there are leading ones (`RawFacts`). The encoder keeps it since a division takes the last digit off (`DivisionValue`), and two of them clear a byte (`ClearedMore`), so that the
steps it has are enough (`Base58Facts`). With the checksum over the rest (`CheckedBytes`) the address determines the hash.

### The points

For every field, every curve of odd prime order, every scalar and every even batch size (`PointBatchProofs`; assumptions: those of the field operations, `P` prime, the base point
on the curve and of order `Order`, `B < Order`, and of the textbook's addition that it is associative and stays on the curve):

| Theorem | Says |
|---|---|
| `DeviceMultipleCorrect` | the setup kernel holds the multiple by the bits seen so far, for any scalar |
| `HostMultipleCorrect` | so does the host, for scalars below the order, though it never looks whether two points are equal, opposite or infinite |
| `BatchHashesPublicKeys` | a lane hashes, for each offset of its batch, the public key of centre + offset, and leaves none out |
| `OneInverseServesAll` | the one inverse of a batch is turned into that of each factor in turn, and in the end into the jump's |

All four are up to harm: a carry of a product lost by a closing add or by the last addition, as `split_product_carry` and `field_unit_mul` exhibit, one of a sum, or an unreduced
coordinate where a reduced one matters. The last two are also up to a degenerate batch (`test_kernel_degenerate`). The theorems do not say how often that is. The proof has three
layers. *The field*: what `mul512_split` and `sqr512_split` return, however much they lost, are numbers that fold into four limbs
(`WideFacts`, `ReturnedFacts`); `Same(a, b)` is congruence modulo `P`; one lemma for each operation
(`MulFacts`, `SqrFacts`, `SubFacts`, `Sub3Facts`, `PrefixFacts`, ...) turns the code's carries into it, and `ReciprocalFacts` and `Cancel` are what `P` being prime gives. With them each line of the
code is a chord or a tangent of the textbook (`PointAddCorrect`, `AddPointsCorrect`, `SumCorrect`, ...). *The group*: `PointSum` says that the sum of the points of two
numbers is the point of the sum; from it and the order being prime follow that different numbers below the order have different points (`PointInjective`), that
equal x means equal or opposite (`SameX`), and that no tangent is vertical (`NoVerticalTangent`), which is why the host needs no test. *The program*: `MultiplesRight` adds to the two
properties where the loop is (`Looping`) and what the host holds between its addition and its doubling (`HostSum`). For a batch, `Prefixed` has each prefix product
as the next one times its factor, `Served` what the inverse is the inverse of at each pair and at the jump, `HashedSoFar` which offsets are done, and `Centred` ties the coordinates
to the key of the centre; a centre that is not `Degenerate` has no factor 0 (`CentreFacts`), so the product has an inverse.

### What is only model-checked

* Liveness (`Terminates`, `SearchEnds`, `ScanEnds`, `InversionEnds`), which is out of the prover's reach.
* `CoefficientsFit` and the range of the host's last coefficient, for the reason above.
* `OperatorsAreExecuted`: that the instructions of `SplitProduct` compute the operators of `WordProduct`, lost carries
  included. TLC compares them. What is proved of either is `LossesAreCounted` for the instructions, and for the
  operators that they return numbers and what they return when nothing is lost.
* That the curve's addition is associative and stays on the curve (`GroupAssumption`): the textbook's theorem about the textbook's formulas, which the theorems
  about points assume and TLC evaluates for its curve; nothing in it is about the code. Its proof for every prime is an identity of polynomials of high
  degree, no task for these provers.
* That the inverses of `inv_mod` and `InvModP` in `ScalarMul` and `PointBatch` are those of `Inversion`, whose theorems say what the two modules take: a
  number congruent to the inverse, and the reduced one. The composition is by reading, as the modules have different constants.

Induction over data is within reach where it can run over a set or a function of a known domain: `NumberFacts` derives it from well-foundedness, once, and the
limbs, the powers of two, the multiples of the base point, the batches and the rounds of a hash use it.

## What is not modelled

* `parse_params` but for the meaning of the range, the grid and the target: the spelling of options and of hexadecimal
  numbers is text handling, whose outcome is an input. Addresses are modelled (`TargetInput`).
* `SqrtModP`, `CalcY` and `IsValidPoint` of the host, which no search calls.
* `show_stat` and the speed table: they influence nothing but a printed line.
* The SASS sources, the assembler and the tools and measurements around them (`asm/`, `cubin_globalize.py`, `rcasm_test/`): alternative kernels and
  benchmarks, which share no state with the scanner. Of `CallCubin.cpp` each driver call is one status. `NO_HASH` and
  `NO_GPU_MODE` builds are not modelled.
* A message of more than one block in either SHA-256: nothing hashes one.
* The Python drivers.
* Relaxed-memory effects beyond the two named (the race on `Failed`, the stores to the result page).

## Plan

Done, in this order: `Search`/`FindKey` with proofs, `ScanPlan`, `FindResult`/`TestKernel`, `PrepareRelease`,
`SplitProduct`, `FieldMath`/`FieldCall` with proofs, `Curve`/`PointBatch`, `Inversion`/`FieldUnit`, `ScalarMul`,
`Math256`/`RangeSplit`, `Word32`/`Sha256`/`Hash160`/`TargetInput`/`HashUnit`, `KernelLaunch`, the proofs about `PrepareRelease` and `KernelLaunch`, about `TestKernel`, about
`Math256`, `RangeSplit` and `ScanPlan`, about `Inversion`, about `ScalarMul` and `PointBatch`, about `SplitProduct`, and about `HashUnit`; `WordProduct` under
`FieldMath`, so that every product of a point loses what the code's loses.

1. `ProofRun`: the watch loop, the timeouts and the batch-size probe of `proof.py`, composed with `Search`: what
   a driver may conclude from the exit code and the printed key.
2. `OperatorsAreExecuted` as a theorem: `ProductInv` would have to keep the accumulators of the passes done as `Accumulated` gives them.
3. `FindKey`'s `Split` as a consequence of `RangeSplit`: `KeysShared` and `DealtIsTested` say what it needs, in other constants.
