# Verification of getrandom as patched in rust-devenv-template

The repository is a project template: a hello-world Rust binary, a Nix/devenv
development environment, CI, and one vendored and patched crate,
`src/patches/getrandom-0.3.4`.  Nearly all of the program logic, and all of its
concurrency and failure handling, is in that crate; it is what these modules
verify.  `getrandom` gives every other crate of the build its random bytes: a
backend chosen at compile time asks the operating system (or a CPU instruction,
or a host) for bytes, copes with partial, interrupted and failing calls, and
caches what it learned about the system in process-wide atomics that any thread
may initialise.

Paths below are relative to `src/patches/getrandom-0.3.4/src/`.

## Inventory

| component | state it keeps | operations | what is hard |
|---|---|---|---|
| public API: `lib.rs`, `util.rs` | none | `fill`, `fill_uninit`, `u32`, `u64` | returning a buffer only if all of it was written; empty buffers |
| errors: `error.rs`, `error_std_impls.rs`, `util_libc::last_os_error` | none; a non-zero `i32` | constructors from errno, UEFI status, custom and internal codes; `raw_os_error`, `Display` | three origins share one integer; sign and range at the boundaries |
| read loop: `util_libc::sys_fill_exact` | the unfilled rest of a buffer | call, advance, retry | short results, `EINTR`, end of file, results out of range |
| `backends/use_file.rs` | `FD`, the shared descriptor, a lock and a futex in one atomic | load, compare-exchange, wait, open, poll, store, wake, read | threads racing to open; failing opens; lost wake-ups; early boot; memory ordering |
| `backends/linux_android_with_fallback.rs` | `GETRANDOM_FN` | probe, cache, system call or file | unsynchronised initialisation while the answer may change |
| system-call backends: `linux_raw`, `getrandom`, `netbsd`, `hermit` | `GETRANDOM` on NetBSD | loop over one system call | partial and interrupted calls; 256-byte polyfill |
| `backends/sanitizer.rs` | MSan shadow of the buffer | unpoison | unpoisoning what was not written |
| `lazy.rs` | one word per static | `unsync_init` | initialisers run in parallel |
| `backends/rdrand.rs` | `RDRAND_GOOD` | cpuid check, self test, retry, word-wise fill | an instruction that fails or repeats itself; a verdict raced by threads |
| `backends/rndr.rs` | `RNDR_GOOD` | feature test, retry, word-wise fill | the same, on AArch64 |
| `backends/efi_rng.rs` | `RNG_PROTOCOL` | locate handles, open, probe, fill | a cached protocol pointer |
| `backends/vxworks.rs` | `RNG_INIT` | wait for `randSecure`, fill in `i32` pieces | spinning before the generator is secure |
| piecewise backends: `getentropy`, `solaris`, `windows_legacy`, `wasm_js` | none | split the buffer at a size limit | limits, remainders, a failure after some pieces |
| `backends/wasi_p1`, `wasi_p2_3` | none | one host call, or aligned 64-bit words with a head and a tail | alignment, truncation of the last word |
| one-call backends: `windows`, `apple_other`, `fuchsia`, `solid`, `esp_idf`, `custom`, `unsupported` | none | one call, one test | little |
| backend selection: `backends.rs`, `build.rs` | none; conditional compilation | pick one module | overlapping conditions |
| template: `main.rs`, `lib.rs`, `justfile`, `devenv*`, CI | files | load a config, shell hooks | pruning build directories by their age |

How they interact.  `fill` and `fill_uninit` (lib.rs) call `fill_inner` of the
one backend that `backends.rs` selected.  The libc backends hand their system
call as a callback to `util_libc::sys_fill_exact`.  The Linux/Android backend
decides, once per process, between the system call and `use_file`; the decision
is cached in an atomic without a lock, so several threads may take it at once.
`use_file` shares one descriptor among all threads; the atomic that holds it is
at once the cache, the lock of the thread that opens the file, and the word the
others sleep on; a fork copies it, and a signal handler may meet it, in any
state.  `rdrand` and `rndr` cache a verdict through `lazy.rs`; NetBSD, UEFI and
VxWorks have caches of their own, without a lock.  All share the error type, whose
descriptions are compiled under conditions that must agree with those of
`backends.rs`.  There are no messages and nothing is persisted: what makes
this code hard is threads racing through initialisation, and systems that fail,
interrupt, return short or lie.

What makes each component correct:

- `use_file`: the file is opened by one thread at a time, never leaked, never
  replaced once published; everybody who waits is woken; a failed opening is
  reported to the thread that tried and leaves the way free; no read before the
  kernel's generator is seeded; readers are ordered after the open.
- Linux/Android: a cached verdict has a reason in what the kernel answered; a
  refused system call leads to the file and not to an error; racing verdicts
  settle.
- the fill loops: success means a full buffer; nothing is written twice;
  interruptions are retried where the code says so; MSan is told the truth.
- the other caches (`GETRANDOM_FN`, NetBSD, UEFI, VxWorks): nobody waits for
  another, each call uses what it has found itself or what was cached when it
  looked, a failed search leaves the cache alone, and every search ends.
- UEFI: only a protocol that has answered is used; no handle is passed over;
  once boot services are gone nothing is looked for, and the cache is what it is.
- backend selection: every documented target builds and gets the documented
  source; a flag is obeyed or refused, and ignored only where `build.rs` adds one.
- `rdrand`: never executed where it does not exist; a broken CPU's words are
  never returned as a success; every call ends.
- errors: three kinds of code in one integer, never zero, never confused.

## Modules

| module | models | role |
|---|---|---|
| `SysFill` | `util_libc.rs`: `last_os_error`, one iteration of `sys_fill_exact` | operators used by three modules |
| `SharedFile` | nothing in particular: what `use_file` promises | abstract specification |
| `LazyCache` | nothing in particular: what a lazily filled cache without a lock promises | abstract specification |
| `UseFile` | `backends/use_file.rs` | state machine; refines `SharedFile` |
| `UseFileForkSignal` | the same in a process that forks or handles signals | `UseFile` (EXTENDS) with fork and handlers |
| `LinuxFallback` | `backends/linux_android_with_fallback.rs` | state machine composed with `UseFile` (EXTENDS); refines `SharedFile` and `LazyCache` |
| `NetbsdCache` | the cache of `backends/netbsd.rs` | state machine; refines `LazyCache` |
| `EfiRng` | `backends/efi_rng.rs` | state machine; refines `LazyCache` |
| `VxworksInit` | the initialisation of `backends/vxworks.rs` | state machine; refines `LazyCache` |
| `FillLoop` | `fill_uninit`, `sanitizer.rs`, and the `fill_inner` of 17 backends, `u32` and `u64` of `hermit.rs` | state machine of one call |
| `Rdrand` | `backends/rdrand.rs`, `lazy.rs` | state machine |
| `WordFill` | the word-wise `fill_inner` of `rdrand.rs`, `rndr.rs`, `wasi_p2.rs`, `wasi_p3.rs` | state machine of one call |
| `ErrorCodes` | `error.rs`, `error_std_impls.rs`, the conversions in the backends | operators, and a program that meets errors |
| `BackendSelect` | `backends.rs`, `build.rs`, `internal_desc` in `error.rs` | decision table, and edits of the build configuration |
| `SelectedBackend` | the program that `backends.rs` makes of these parts | `BackendSelect` and `EfiRng` (EXTENDS), `NetbsdCache` and `VxworksInit` (INSTANCE) in one state machine |
| `MC*` | | constants for TLC; `MCUseFileForkSignal` chooses the system that a program is built for |
| `*Proofs` | | theorems and proofs; `SelectedBackendProofs` holds those about `EfiRng`, `NetbsdCache`, `VxworksInit`, `BackendSelect` and their composition |

Definitions marked *Variant* are not part of any specification.  Each is a
plausible mistake in the definition that follows it, and is substituted for that
definition to see the property it is meant for fail.

### UseFile

| variable | code |
|---|---|
| `FD` | the static `FD` |
| `pc[t]` | where thread t is: `loop`, `cas`, `wait`/`asleep`/`waited` in `open_or_wait` and `sync::wait`; `random`, `poll`, `close`, `urandom` in `open_fd`; `store`, `wake` after it; `fill` in the read loop |
| `fd`, `res`, `len` | the local descriptor, the `Result` in hand, the rest of the buffer |
| `futex` | what `FUTEX_WAIT` returned |
| `files`, `seeded` | the kernel: the descriptor table, and whether the generator is seeded |
| `seen`, `published` | memory ordering: the openings a thread is ordered after, and those that an Acquire load of `FD` would order it after |

A step is one access to `FD`, or the issue or return of one system call.  Any
`open` may fail, `poll` may fail, `read` may return any count or error,
`FUTEX_WAIT` may return early for a signal or for no reason, and the weak
exchange may fail spuriously.  `EINTR` of open, poll and read changes nothing and
is a stuttering step.  With `Linux = FALSE` there is no poll and waiting is one
`nanosleep`.

The value of `FD` itself is sequentially consistent: a single location has one
modification order, and what Acquire/Release adds to that, the ordering of the
opener's other writes, is what `seen` and `published` track.  A Relaxed store
instead of the Release store breaks `ReadersSynchronised`.

`SharedFile` says the same to a caller: a file published or not, and each call
`idle`, `waiting`, `opening` or `using`.  The refinement maps `FD` to the
published file, or none, and `pc`, `res` to the call's state.

### UseFileForkSignal

The threads and actions of `UseFile`, of which only those may move that can run:
`alive` are the threads of the process that is followed, `hosts` says which
threads are signal handlers and whom they interrupt.  `Fork` keeps the forking
thread (and its handlers) and leaves all others where they are; the parent is
`UseFile` unchanged, so the module follows the child.  A handler runs while its
host stands still.  The code provides for neither.  `HangsOnlyIfAbandoned` says
that they do no harm but in one case, an opener that vanishes or is interrupted
by a handler that calls `fill`; `AbandonmentIsFinal` says what happens in that
case, so that nobody takes it for a delay: `FD` stays `FD_ONGOING_INIT`, and every
later call waits for ever.

A child also inherits the descriptor of an opening whose thread it has lost, so
that `NoFdLeak`, which asks each open file to be in some thread's hands, says
nothing of a child: the thread that has it does not run.  `OneOrphanAtMost` counts
the files that are neither published nor held by a thread that can run (`Orphans`):
however often the process and its children fork there is one at most, and only
together with the lost lock, so that a process which can still open the file has
lost none.

### LazyCache, and NetbsdCache, EfiRng, VxworksInit

`LazyCache` has the cache and, for each thread, its call (`idle`, `init`, `using`)
and the value it uses.  Each of the caches maps to it by what its loads and
stores do: one step is one access to the static or one call to the system.

- `NetbsdCache`: `dlsym` may change its answer as libraries come and go.  `seen`
  are the resolutions that a thread is ordered after; a pointer used without that
  maps to no value of `LazyCache`, so that the refinement fails if the load is
  Relaxed.
- `EfiRng`: `pc` is the place in `init` (`boot`, `locate`, `open`, `probe`,
  `store`), `count` and `next` the handles located and the one in turn.  The
  firmware answers anything, including lengths beyond the room for handles;
  boot services may end at any time.  `answered` and `refused` record history.
  The cached pointer outlives the boot services: `NothingFoundAfterExit` says that
  from then on (`Closed`) the cache never changes, so that an empty one puts the
  backend out of service and a full one goes on being used.
- `VxworksInit`: the pool is `absent`, `collecting` or `secure`, as `randSecure`
  reports it.  A call that loops may join the success of another (`Join`).
- `LinuxFallback` maps as well: a call uses the pointer it holds.

### LinuxFallback

`at[t]` is the place in this file: `probe` and `publish` in `init`, `syscall` in
`sys_fill_exact`, `file` in `use_file_fallback`; `fn[t]` is the pointer in hand
and `GETRANDOM_FN` the cache.  While `at[t] = "file"` the thread takes the steps
of `UseFile`, whose module is extended so that both states are one.  The kernel
answers each thread by its own `policy` (seccomp filters are per thread), which
may become stricter at any time (`Restrict`); `policies` records all answers that
anyone ever lived under.  A build is the target, whether `dlsym` finds the
symbol, and the test cfg.

### FillLoop

The state is one call: the backend, the buffer's size, how far the code got, the
bytes the system wrote, the MSan shadow.  A step is one call to the system,
which returns anything its result type allows: counts of zero, below -1, beyond
the buffer; any errno, non-positive ones included; sysctl lengths shorter and
longer than asked for.  On targets with atomics `wasm_js` draws into an array no
longer than the buffer (`ArrayLength`) and copies it on success.  `ProcessPrng`,
`zx_cprng_draw` and `esp_fill_random` are taken at their word, as the code does.
`hermit_word` is a call of `u32` or `u64` on Hermit, which has a system call for a
whole value, with results of its own (`SecureRand`).

### Rdrand

Threads that run `unsync_init` and then draw, over one `RDRAND_GOOD`; a step is
one access to it or one execution of RDRAND.  The CPU is one of seven kinds:
without cpuid leaf 1, without the flag, good, stuck at a word, stuck at all ones,
dead, or an old AMD that is good until a suspend and then delivers all ones as
successes; the machine may be suspended before the program starts or at any time
after (`Suspend`).

`static` says that the build has the target feature `+rdrand`.  Such a build leaves
out all of cpuid (66-98), the check of the family included, and may be run only on a
CPU that has the instruction (`MayRun`, rustc's contract).  The contract says
nothing of instructions that lie, so an old AMD remains, with the self test alone
against it.  The test finds it out after a suspend and not before one, and
`NoBrokenWords` says just that: the words of a broken CPU reach a caller only in
such a build, on such a CPU, after a suspend that came later than the start of some
self test (`tested`).

### WordFill

One call that cuts a buffer into pieces and fills each from a word: from the
front in `rdrand` and `rndr`, at the aligned addresses (`align_to_mut`) in WASI
previews 2 and 3.  `buf` records for each byte which byte of which word it is,
and whether that word was random or what a failed instruction left in the
register.  `u32` and `u64` are calls for four and eight bytes.  Whether the
instruction can be trusted at all is `Rdrand`'s subject.

### ErrorCodes

Pure conversions over all of Z (results of raw system calls are wider than an
`i32`; UEFI has a `usize` whose highest bit marks an error), and a program that meets one error after another and compares each with
the one before, so that the properties are invariants over pairs.

### BackendSelect

A state is a build configuration: the target, the flag, the compiler, features and
target features.  `OptIn` and `ByTarget` are the branches of the `cfg_if!` in
their order, `BuildScript` is the value that `build.rs` adds.  `Guard` gives each
backend module its own `compile_error!`s (`LinuxRawCompiles`, `RdrandCompiles`, ...)
and `Defined` its own error constants (`AppleErrors`, ...); `Described` are the
constants that `error.rs` names.  What libc, the linker and Cargo refuse is left out.

`DefaultAsDocumented` reads the rows of the README's table, the list of targets
with a file to fall back on (in both directions), and the descriptions: the errors
of the selected backend are all described but for two (`Undescribed`).

### SelectedBackend

`built` is the backend that the program got, or `no`.  Before that, `Configure` edits
the configuration; `Build` accepts it, forgets what these three backends do not
depend on (compiler, features), and fixes the test cfg of NetBSD; after it, every
step is a step of the selected backend and leaves the others' statics alone.

## Runs

| run | states | shows |
|---|---|---|
| `use_file_safety` | 243,856 | three threads, two descriptors, Linux: mutual exclusion, no leak, ordering, no lost wake-up, `FD` stable, the safety part of `SharedFile`, and in `IInv` no early read and no read of another file |
| `use_file_nanosleep` | 7,612 | three threads, other targets: all of `SharedFile`, with its liveness |
| `use_file_fork_signal` | 140,792 | a process that forks, and one with a handler, on Linux and elsewhere, reads in several pieces: whoever is left is served, sleepers included, but for one exception, which is final; at most one descriptor is lost, and only then |
| `futex_wait_assertion` | violation | finding 1 |
| `linux_fallback` | 260,136 | two threads, five builds, three policies: verdicts have reasons, refusals are caught where all answers are refusals, the cache is a `LazyCache` whose verdict changes only finitely often |
| `selected_backend` | 37,536 | a program is configured and built: 56 targets, every flag, three compilers, features, with documented defaults, fallbacks and descriptions, and obeyed flags.  If it got NetBSD's backend, three threads: a `LazyCache` whose pointers are ordered before their use.  UEFI's, two callers, room for two of three handles: a `LazyCache` with only answering protocols, none missed, nothing found or replaced after the exit.  VxWorks', four threads: a `LazyCache` that is filled when the pool is ready |
| `fill_loop` | 1,248 | seventeen backends and the words of Hermit, buffers up to five bytes |
| `rdrand` | 55,103 | two threads, all CPUs, builds with and without `+rdrand`, a suspend before the start or at any time: no broken words, with one exception stated exactly, and every call ends |
| `rdrand_verdict` | violation | finding 2 |
| `word_fill` | 13,002 | four backends, buffers of 1 to 23 bytes at every address: fresh random bytes, aligned stores |
| `error_codes` | 3,705 | numbers at every boundary, pairwise, five kinds of target |
| `backend_select_opt_in` | violation | finding 3 |

A process in which nobody forks and no handler calls `fill` is one of the
behaviours of `use_file_fork_signal`.  Nothing is ever abandoned in it, so that
`HangsOnlyIfAbandoned` gives the liveness of `SharedFile` on Linux too, where
`use_file_safety` checks its safety.  That forks and handlers leave its safety alone
needs no run: every step of theirs is a step of `UseFile` or changes none of its
variables (`ForkSignalSafelyShared`).  In `selected_backend` the state of the
backends that were not built stays as it is.

The bounds, and why they are enough to meet the interesting cases:

- `Threads`: three in `UseFile`, so that an opener, a sleeper and a late caller
  meet, and two sleepers wait for one wake-up (the mutant that wakes one sleeper
  needs exactly that).  Two or more elsewhere: one racing pair; in
  `UseFileForkSignal` one of the two vanishes in a fork or is the other's handler.
  The theorems about `UseFile`, with forks and handlers, `LinuxFallback`, `Rdrand`,
  `EfiRng`, `NetbsdCache` and `VxworksInit` cover any number.
- `Fds`: an opening holds one descriptor at a time; the second lets a leaked or
  re-used number show.  One in `LinuxFallback`, where numbers play no part.
- `MaxLen`: 2 lets a read be short; 1 where only the end of the read matters.
- `MaxSize = 5`, `Limit = 2` in `FillLoop`: an empty buffer, less than a piece,
  whole pieces, and a remainder.  The theorems cover any size and limit.
- `MaxSize = 23` in `WordFill`: a prefix, a whole word and a tail meet, at every
  address; `RETRY_LIMIT` is the code's own.  The theorems cover any size.
- `Capacity = 2`, `MaxHandles = 3` in `EfiRng`: no handle, fewer than there is room
  for, as many, and too many.  The theorems cover any numbers (16 in the code).
- `AllTargets` of `BackendSelect`: a target of every row of the README's table, and
  for Linux, Android and Windows the architectures, environments and vendors that
  some condition tells apart; the compiler is older, newer, or unknown to
  `build.rs`.  The theorems cover any targets that satisfy `TargetsAssumption`.
- `RETRY_LIMIT` of `Rdrand` is 2 for 10, as nothing depends on it but the length of
  a run of failures; `TestDraws`, `TestFails` are the code's own 8 and 2 (3 and 1,
  with the same margin, in `rdrand_verdict`).
- `MaxRaw` in `ErrorCodes` is `2^29 - 1`, because TLC's own integers are as wide
  as an `i32`.  The theorems cover every `MaxRaw` that leaves room for the
  custom codes.

`SYMMETRY` is used in `use_file_safety` only, which checks no liveness.
`CHECK_DEADLOCK FALSE` is used only in `FillLoop` and `WordFill`, where one call
is made and returns.

## Fairness

- `WF(Step(t))`: a thread that can run is scheduled.  Nobody is obliged to call
  (`Call`, `Begin`, `Load` of an idle thread), to receive a signal (`FutexReturns`), to run out
  of memory (`PollFails`), or to install a filter (`Restrict`): no liveness
  property may need any of these.
- `SF(CasSucceeds(t))`: a weak compare-exchange may fail spuriously, but not for
  ever; without it the loop of `open_or_wait` could spin alone.
- `UseFileForkSignal` has the strong form for every thread that can run: handlers
  may interrupt a thread any number of times, but it gets on between two of them.
- `WF(Prepare)` in `VxworksInit`: the pool gets ready some day.  The loop has no
  bound of its own, so nothing ends without it.
- `WF(Seed)`: the kernel seeds its generator some day.  The code waits for
  that without a timeout, by intention, so nothing ends without it.

## Findings

1. `sync::wait` in `use_file.rs` states that FUTEX_WAIT returns 0 or EAGAIN and
   asserts it in debug builds (161-170).  A signal makes it return EINTR.  Run
   `futex_wait_assertion` reaches that state.  Release builds are unaffected:
   the loop looks at `FD` again.
2. `lazy.rs` says that the cached value is returned for future calls and that
   `init()` should always return the same value (6-7, 34).  `is_rdrand_good`
   depends on how often RDRAND fails during its self test, so two racing threads
   may come to different verdicts and the later store replaces the earlier.  Run
   `rdrand_verdict` shows a verdict change after it was cached.  The harm is
   bounded: `NoBrokenWords` and `RInv` hold all the same.
3. `error.rs` names error constants by target (144-168) that exist only in the
   backend module.  With `custom` or `unsupported`, builds for iOS, tvOS, watchOS,
   visionOS, VxWorks, win7 and SGX do not compile; README 90-91 of the crate lists
   both for all targets.  Run `backend_select_opt_in` finds such a build, and
   `OptInNearlyEverywhere` proves which targets are affected and that no others are.

Met on the way, without a run:

- On Windows with a compiler older than 1.78, `build.rs` (51) adds
  `getrandom_backend="windows_legacy"` to the user's value, and `backends.rs` tests
  it (31) before `wasm_js` and `unsupported` (34, 47).  A build that asks for
  `unsupported` gets random bytes, against README 91 and 107 of the crate.
  `FlagObeyed` states this case exactly: these two flags are ignored there, always,
  and no flag is ignored anywhere else.
- README 139-143 of the crate says that the flag `wasm_js` does nothing once the
  feature is on; `error.rs` (153) still describes `WEB_CRYPTO` only with the flag.
  It and the error of `windows_legacy` off win7 are the exceptions (`Undescribed`)
  that `DefaultAsDocumented` names.
- "Don't use RDRAND on those families", says `rdrand.rs` (76-78) of AMD CPUs before
  family 17h, but the check is compiled out with `+rdrand` (66-98).  There the self
  test stands alone, and such a CPU that is suspended after it hands out words of all
  ones as successes.  `NoBrokenWords` has this as its one exception.
- `enterShell` (`devenv/lang/rust.nix`, 166-167) removes `target/` by its own
  modification time, which building in it does not refresh; the comment at 161-162
  promises that fresh caches survive.
- The messages of `backends.rs` for a missing `wasm_js` (199-201) and for other WASI
  previews (169) describe an earlier state of the code, and the errors of `efi_rng`
  have no description.

## Proofs

All theorems hold for every value of the constants that the named assumptions
admit.  They are safety properties.

**UseFile** (`UseFileProofs`; assumptions `FdsAssumption`, `MaxLenAssumption`).
`SingleOpener` alone is not inductive, nor is "readers use the published
file": a thread that reads got its descriptor steps ago.  The
inductive invariant `IInv` therefore says what each place in the code may rely
on: in the initialisation section, what has been opened and polled so far
(`OpenerState`); after it, that the descriptor in hand is the published one
(`ReaderState`); and for whoever loads `FD`, that a published descriptor is open
on /dev/urandom, seeded, and carries its bookkeeping (`PublishedState`).  None of
this is ever taken back because only the opener writes `FD` or the files, and
there is one (`SingleOpener`).  `NoFdLeak` and `NoLostWakeup` are inductive
relative to it.  `SharedFileImplemented` shows step by step that `UseFile`
implements `SharedFile` without its fairness.

**LinuxFallback** (`LinuxFallbackProofs`; also `BuildsAssumption`,
`PoliciesAssumption`, `LinuxBackendAssumption`).  Each step is a step of `UseFile`
or leaves its variables alone (`FileMoves`), so `IInv` and the refinement of
`SharedFile` carry over to the composition.  `LIInv` adds that each verdict,
cached or in a thread's hand, and each call that goes by it, has its reason in
an answer the kernel gave (`VerdictsFounded`).  Answers are never taken back,
so racing and overwriting verdicts does no harm.

`FallbackLazilyCached` shows the refinement of `LazyCache`; it needs no more than
types.  `VerdictsRunOut` is why the cache settles: once there is a verdict, the set
of threads that may still replace it never grows, and each replacement shrinks it.
With finitely many threads that is `CacheSettles`, which needs no fairness.

**UseFileForkSignal** (`UseFileForkSignalProofs`; also `HostsAssumption`).  Each
step is one of `UseFile` (`StepsOfUseFile`), so `IInv` and `SafelyShared` carry over.
That an abandoned initialisation stays abandoned needs two facts more
(`PIInv`): a handler that interrupts the opener came when `FD` was
`FD_ONGOING_INIT`, so it can only wait (`HandlersWait`), and a thread's handlers
survive a fork with it.  `ForksLoseOne` takes `NoFdLeak` and `SingleOpener` together:
an open file is published or in some opener's hands, there is one opener, and an
orphan's opener is not among the threads that are left.

**Rdrand** (`RdrandProofs`; `CpusAssumption`, `NumbersAssumption`).  `NoBrokenWords`
follows from a count: in the self test a CPU that repeats itself collides at every
word after the first (`Counted`), so it ends with more collisions than are
allowed, and a verdict of true, in the cache or in a thread's hand, implies a CPU
that was good when it was tested (`TrustedIsGood`).  An old AMD repeats itself only
if no test began before the suspend (`Repeats`); otherwise it may be trusted, and only
by a build that has not asked for its family (`Trusted`).  The theorems assume nothing
of the CPU but `MayRun`.

`CallsGetNearer` is what termination comes to without fairness: each step of a
call lowers, in lexicographic order, the places still to come, the words still to
draw and the failures still allowed, and no step of anybody else raises them.

**SelectedBackend** (`SelectedBackendProofs`; `NumbersAssumption`,
`TargetsAssumption`).  The invariants of the parts stand side by side in `SInv`.

- *EfiRng.*  `EInv` says where a search is: it has given up all handles before the
  one in turn (`Position`), which makes the end of the loop the end of the handles.
  `LazyCacheImplemented` is the refinement step by step, `SearchesGetNearer` the
  bound on every search.  They are about `Spec`; `EfiInProgram` carries the
  invariants and the refinement over to the composition.
- *NetbsdCache.*  `NInv` says that a thread with a pointer in hand has it in `seen`.
  The cached pointer need not be in anybody's `seen`: the Acquire load puts it
  there, and without it the refinement (`NetbsdLazilyCached`) would not hold.
- *VxworksInit.*  `VInv` says that what a thread has been told of the pool stays
  true: the pool gets ready once and is never taken back.
- *BackendSelect.*  The selected backend is the first branch that is on
  (`FirstIsSelected`).  `DefaultsAsDocumented` goes through the rows of the README's
  table one by one and, with `ErrorsDescribed`, through the backends that define an
  error; `FlagsObeyed` goes through the opt-in branches and needs of the order only
  that `windows_legacy` comes before `wasm_js` and `unsupported`.  Both are over any
  compiler and any set of targets that satisfies `TargetsAssumption`, which holds of rustc's: SGX has no
  operating system and is x86-64, WASI is WebAssembly, and Linux without a C library
  exists where `linux_raw.rs` can make a system call.
- *Composition.*  A step of the program is a step of the selected backend or leaves
  that backend alone (`EfiMoves`, `NetbsdMoves`, `VxworksMoves`).  `Build` is the
  exception: it sets `test`, before any call, so that the two theorems about NetBSD
  have a case of their own for it.

**FillLoop** (`FillLoopProofs`; `BackendsAssumption`, `SizesAssumption`).  The
invariant is `Progress`: while the call runs, exactly the bytes it advanced over
are written and unpoisoned.  The lemmas about the systems' answers
(`NetbsdUnderstood`, `CountUnderstood`, `PieceUnderstood`) say that an answer
that does not stop the backend moves it by just what was written.

**WordFill** (`WordFillProofs`; `BackendsAssumption`, `MaxSizeAssumption`).  The
invariant is `Fresh` and `Aligned`: what is written so far is random and used
once, and WASI goes on only at an aligned address (or at the end of the buffer).
`PieceFits` is the arithmetic: a piece is not empty, fits in a word and in the
buffer, and ends where the next may start.

**ErrorCodes** (`ErrorCodesProofs`; `MaxRawAssumption`, `NumbersAssumption`).
`Held` says that errors come from their origins; the rest is arithmetic on where
each origin's codes lie (`Layout`, `SystemErrorRange`): below zero, or above the
flag on UEFI, and so apart from internal and custom codes.

Only model-checked: everything temporal with fairness (the liveness in
`ImplementsSharedFile`, in `ImplementsLazyCache`, for each backend, and in
`HangsOnlyIfAbandoned`, and `CallsEnd`), which is beyond this proof system
together with ENABLED.  For `CallsEnd` and the searches of UEFI the theorems named
above give all of the argument but that: that an unfinished call can always take
a step, and is scheduled.  From `VerdictsRunOut` to `CacheSettles` the step that
is missing is an induction on the number of threads.  A call
of `NetbsdCache` takes a fixed number of steps; one of `VxworksInit` ends when the
pool is ready or `randSecure` fails, for which no measure exists.

## Not modelled, and why

- RNDR's feature test is an input of `WordFill`: it is deterministic, so that its
  cached result cannot change.
- The casts and the truncation in `util.rs`, the wording of errors and messages.
- Sanitizer detection in `build.rs`; the MSan shadow itself is in `FillLoop`.
- `main.rs`, `lib.rs` of the template: start-up code.  Nix files, CI, tests and
  benches: declarative, or test code; tests were read for what they expect.  The
  pruning of build directories on entry to the shell is two `find` commands over
  a file system that the template does not control.
- `ProcessPrng` failing on Windows: its documentation says it cannot; the code
  checks it in debug builds only.
- The parent of a fork is `UseFile`; what parent and child share below `FD`, the
  open file description of /dev/urandom, has no state that matters to readers.

## Plan

The order of the work was: the shared descriptor first, because every call of a
fallback target depends on it; its composition with the system call; the fill
loops, the CPU backend and the errors; then the caches that race without a lock,
fork and signals, and what is static.  What is left:

1. The feature test of RNDR as another `LazyCache`.
2. A larger table of targets in `BackendSelect` when a condition is added to
   `backends.rs`.
3. The counterpart of `CallsGetNearer` for `UseFile`: the opener's way to its store is
   bounded, and a waiter goes round at most once for each opener before it.
