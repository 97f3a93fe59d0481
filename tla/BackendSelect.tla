---------------------------- MODULE BackendSelect ---------------------------
(* src/patches/getrandom-0.3.4/src/backends.rs and build.rs: which backend  *)
(* a build gets, and with it the internal errors and their descriptions     *)
(* (error.rs).  A state is one build configuration; a step edits it.        *)
(*                                                                          *)
(* A build is accepted if no compile_error! of the crate is compiled in,    *)
(* and every error constant that error.rs names exists.  What libc, linkers *)
(* and Cargo refuse is left out.                                            *)
(* A "Variant" is a plausible mistake in the definition that follows it.    *)
EXTENDS Integers, SequencesExt

(* The architectures for which linux_raw.rs has a system call instruction.  *)
RawArchs == {"arm", "aarch64", "loongarch64", "riscv32", "riscv64", "s390x",
             "x86", "x86_64"}

CONSTANT Targets   \* records of arch, vendor, os and env, as rustc knows them

(* What all of rustc's targets have in common, and the conditions build on: *)
(* SGX enclaves have no operating system and are x86-64, WASI is            *)
(* WebAssembly, and Linux without a C library exists where linux_raw.rs     *)
(* knows how to make a system call.                                         *)
ASSUME TargetsAssumption ==
    \A t \in Targets :
        /\ t.env = "sgx" => t.os = "unknown" /\ t.arch = "x86_64"
        /\ t.os = "wasi" => t.arch = "wasm32"
        /\ t.os = "linux" /\ t.env = "" => t.arch \in RawArchs

VARIABLES
    target,        \* one of Targets
    flag,          \* --cfg getrandom_backend="...", or "none"
    rustc,         \* the compiler's minor version, or 0: build.rs cannot tell
    features,      \* of the crate
    cpu            \* target features

config == <<target, flag, rustc, features, cpu>>

Flags == {"custom", "linux_getrandom", "linux_raw", "rdrand", "rndr", "efi_rng",
          "windows_legacy", "wasm_js", "unsupported"}

-----------------------------------------------------------------------------
(* build.rs adds a flag of its own; a cfg may have several values.          *)
BuildScript ==
    IF target.os = "windows" /\ rustc # 0 /\ rustc < 78
    THEN {"windows_legacy"} ELSE {}

Backends == BuildScript \cup ({flag} \ {"none"})

Arch(names) == target.arch \in names
Os(names) == target.os \in names

(* The targets whose kernels or API levels may lack getrandom(2).           *)
(* Variant: RISC-V with musl is one of them.                                *)
OldKernelsMuslAll ==
    \/ Os({"android"}) /\ Arch({"aarch64", "arm", "x86", "x86_64"})
    \/ /\ Os({"linux"})
       /\ \/ Arch({"aarch64", "arm", "powerpc", "powerpc64", "s390x", "x86",
                   "x86_64"})
          \/ target.env = "musl"

OldKernels ==
    \/ Os({"android"}) /\ Arch({"aarch64", "arm", "x86", "x86_64"})
    \/ /\ Os({"linux"})
       /\ \/ Arch({"aarch64", "arm", "powerpc", "powerpc64", "s390x", "x86",
                   "x86_64"})
          \/ target.env = "musl" /\ ~Arch({"riscv32", "riscv64"})

(* The rest of the systems whose C library has getrandom().                 *)
HasGetrandom ==
    \/ Os({"android", "linux", "dragonfly", "freebsd", "hurd", "illumos", "cygwin"})
    \/ Os({"horizon"}) /\ Arch({"arm"})

OsLessWasm == Arch({"wasm32"}) /\ Os({"unknown", "none"})

Sgx == Arch({"x86_64"}) /\ target.env = "sgx"

Win7 == Os({"windows"}) /\ target.vendor = "win7"

Branch(condition, backend) == [on |-> condition, use |-> backend]

(* The cfg_if! branches that honour the flag.                               *)
OptIn ==
    << Branch("custom" \in Backends, "custom"),
       Branch("linux_getrandom" \in Backends, "getrandom"),
       Branch("linux_raw" \in Backends, "linux_raw"),
       Branch("rdrand" \in Backends, "rdrand"),
       Branch("rndr" \in Backends, "rndr"),
       Branch("efi_rng" \in Backends, "efi_rng"),
       Branch("windows_legacy" \in Backends, "windows_legacy"),
       Branch("wasm_js" \in Backends,
              IF "wasm_js" \in features THEN "wasm_js" ELSE "compile_error"),
       Branch("unsupported" \in Backends, "unsupported") >>

(* The branches that look at the target.                                    *)
ByTarget ==
    << Branch(Os({"linux"}) /\ target.env = "", "linux_raw"),
       Branch(Os({"espidf"}), "esp_idf"),
       Branch(Os({"haiku", "redox", "nto", "aix"}), "use_file"),
       Branch(Os({"macos", "openbsd", "vita", "emscripten"}), "getentropy"),
       Branch(OldKernels, "linux_android_with_fallback"),
       Branch(HasGetrandom, "getrandom"),
       Branch(Os({"solaris"}), "solaris"),
       Branch(Os({"netbsd"}), "netbsd"),
       Branch(Os({"fuchsia"}), "fuchsia"),
       Branch(Os({"ios", "visionos", "watchos", "tvos"}), "apple_other"),
       Branch(Arch({"wasm32"}) /\ Os({"wasi"}),
              CASE target.env = "p1" -> "wasi_p1"
                [] target.env = "p2" -> "wasi_p2"
                [] target.env = "p3" -> "wasi_p3"
                [] OTHER             -> "compile_error"),
       Branch(Os({"hermit"}), "hermit"),
       Branch(Os({"vxworks"}), "vxworks"),
       Branch(Os({"solid_asp3"}), "solid"),
       Branch(Win7, "windows_legacy"),
       Branch(Os({"windows"}), "windows"),
       Branch(Sgx, "rdrand"),
       Branch(OsLessWasm,
              IF "wasm_js" \in features THEN "wasm_js" ELSE "compile_error"),
       Branch(TRUE, "compile_error") >>

(* Variant: the target goes first.                                          *)
BranchesTargetFirst == Front(ByTarget) \o OptIn \o <<Last(ByTarget)>>

Branches == OptIn \o ByTarget

Selected ==
    LET On(branch) == branch.on IN Branches[SelectInSeq(Branches, On)].use

(* The compile_error!s of the backend modules themselves.                   *)
LinuxRawCompiles == Os({"android", "linux"}) /\ Arch(RawArchs)
RdrandCompiles == Arch({"x86", "x86_64"})
SgxCompiles == target.env = "sgx" => "rdrand" \in cpu
RndrCompiles == Arch({"aarch64"})
RndrDetects == "rand" \in cpu \/ "std" \in features \/ Os({"linux"})
EfiRngCompiles == Os({"uefi"})
WindowsLegacyCompiles == Os({"windows"})
WasmJsCompiles == OsLessWasm

(* No compile_error! is met, in backends.rs or in the backend's module.     *)
Guard(backend) ==
    /\ backend # "compile_error"
    /\ backend = "linux_raw"      => LinuxRawCompiles
    /\ backend = "rdrand"         => RdrandCompiles /\ SgxCompiles
    /\ backend = "rndr"           => RndrCompiles /\ RndrDetects
    /\ backend = "efi_rng"        => EfiRngCompiles
    /\ backend = "windows_legacy" => WindowsLegacyCompiles
    /\ backend = "wasm_js"        => WasmJsCompiles

(* The errors that the backend modules define, ...                          *)
AppleErrors == {"IOS_RANDOM_GEN"}
WindowsLegacyErrors == {"WINDOWS_RTL_GEN_RANDOM"}
WasmJsErrors == {"WEB_CRYPTO"}
VxworksErrors == {"VXWORKS_RAND_SECURE"}
RdrandErrors == {"FAILED_RDRAND", "NO_RDRAND"}
RndrErrors == {"RNDR_FAILURE", "RNDR_NOT_AVAILABLE"}
EfiErrors == {"BOOT_SERVICES_UNAVAILABLE", "NO_RNG_HANDLE"}

(* ... of which a build compiles those of the module it selects, and ...    *)
Defined(backend) ==
    CASE backend = "apple_other"    -> AppleErrors
      [] backend = "windows_legacy" -> WindowsLegacyErrors
      [] backend = "wasm_js"        -> WasmJsErrors
      [] backend = "vxworks"        -> VxworksErrors
      [] backend = "rdrand"         -> RdrandErrors
      [] backend = "rndr"           -> RndrErrors
      [] backend = "efi_rng"        -> EfiErrors
      [] OTHER                      -> {}

(* ... those that internal_desc describes, under conditions of its own.     *)
Described ==
    UNION {
      IF Os({"ios", "visionos", "watchos", "tvos"}) THEN AppleErrors ELSE {},
      IF Win7 THEN WindowsLegacyErrors ELSE {},
      IF "wasm_js" \in features /\ "wasm_js" \in Backends THEN WasmJsErrors ELSE {},
      IF Os({"vxworks"}) THEN VxworksErrors ELSE {},
      IF "rdrand" \in Backends \/ Sgx THEN RdrandErrors ELSE {},
      IF "rndr" \in Backends THEN RndrErrors ELSE {} }

Accepted == Guard(Selected) /\ Described \subseteq Defined(Selected)
-----------------------------------------------------------------------------
InitConfig ==
    /\ target \in Targets
    /\ flag = "none" /\ rustc = 78 /\ features = {} /\ cpu = {}

(* win7 targets came with Rust 1.78; an older compiler does not know them.   *)
Possible == rustc = 77 => ~Win7

Edit ==
    /\ \/ target' \in Targets /\ UNCHANGED <<flag, rustc, features, cpu>>
       \/ /\ flag' \in Flags \cup {"none"}
          /\ UNCHANGED <<target, rustc, features, cpu>>
       \/ rustc' \in {0, 77, 78} /\ UNCHANGED <<target, flag, features, cpu>>
       \/ /\ features' \in SUBSET {"std", "wasm_js"}
          /\ UNCHANGED <<target, flag, rustc, cpu>>
       \/ /\ cpu' \in SUBSET {"rdrand", "rand"}
          /\ UNCHANGED <<target, flag, rustc, features>>
    /\ Possible'

ConfigSpec == InitConfig /\ [][Edit]_config
-----------------------------------------------------------------------------
(* Properties.                                                              *)

(* What the backends call.                                                  *)
Implementation(backend) ==
    CASE backend \in {"getrandom", "linux_raw"} -> {"getrandom"}
      [] backend = "linux_android_with_fallback" -> {"getrandom", "/dev/urandom"}
      [] backend = "netbsd"         -> {"getrandom", "kern.arandom"}
      [] backend = "solaris"        -> {"getrandom with GRND_RANDOM"}
      [] backend = "use_file"       -> {"/dev/urandom"}
      [] backend = "windows"        -> {"ProcessPrng"}
      [] backend = "windows_legacy" -> {"RtlGenRandom"}
      [] backend = "wasi_p1"        -> {"random_get"}
      [] backend = "wasi_p2"        -> {"get-random-u64"}
      [] OTHER                      -> {backend}

(* README.md of the crate, 229-236: where Linux and Android fall back.      *)
FallbackDocumented ==
    \/ Os({"linux"}) /\ Arch({"aarch64", "arm", "powerpc", "powerpc64", "s390x",
                              "x86", "x86_64"}) /\ target.env # ""
    \/ Os({"linux"}) /\ target.env = "musl"
    \/ Os({"android"}) /\ Arch({"aarch64", "arm", "x86", "x86_64"})

(* README.md of the crate, 41-72: the supported targets.                    *)
Documented ==
    CASE Os({"windows"}) /\ (Win7 \/ rustc = 77) -> {"RtlGenRandom"}
      [] Os({"windows"}) /\ ~Win7 /\ rustc = 78 -> {"ProcessPrng"}
      [] Os({"macos", "openbsd", "emscripten", "vita"}) -> {"getentropy"}
      [] Os({"ios", "tvos", "watchos"}) -> {"apple_other"}
      [] Os({"freebsd", "dragonfly", "illumos", "hurd", "cygwin"}) -> {"getrandom"}
      [] Os({"horizon"}) /\ Arch({"arm"}) -> {"getrandom"}
      [] Os({"netbsd"}) -> {"getrandom", "kern.arandom"}
      [] Os({"solaris"}) -> {"getrandom with GRND_RANDOM"}
      [] Os({"redox", "haiku", "nto", "aix"}) -> {"/dev/urandom"}
      [] Os({"fuchsia", "hermit", "vxworks"}) -> {target.os}
      [] Os({"solid_asp3"}) -> {"solid"}
      [] Os({"espidf"}) -> {"esp_idf"}
      [] Os({"wasi"}) /\ target.env = "p1" -> {"random_get"}
      [] Os({"wasi"}) /\ target.env = "p2" -> {"get-random-u64"}
      [] target.env = "sgx" /\ "rdrand" \in cpu -> {"rdrand"}
      [] OsLessWasm /\ "wasm_js" \in features -> {"wasm_js"}
      [] OTHER -> {}

(* The selected backend can return an error that internal_desc does not     *)
(* know: WEB_CRYPTO, as long as no flag is set, and the error of            *)
(* windows_legacy, if not the target but build.rs has chosen it.            *)
Undescribed == Selected = "wasm_js" \/ (BuildScript # {} /\ ~Win7)

(* Without a flag every documented target builds, whatever features are on, *)
(* and gets the documented source: the conditions overlap, and their order  *)
(* and the conditions repeated in error.rs must sort them out.  Linux and   *)
(* Android get the system call, with a file to fall back on where it is     *)
(* documented, but for RISC-V (CHANGELOG.md, 0.3.4), and nowhere else.  All *)
(* errors of the backend have a description, with the exceptions above.     *)
DefaultAsDocumented ==
    flag = "none" =>
        /\ Documented # {} => Accepted /\ Implementation(Selected) = Documented
        /\ Os({"linux", "android"}) =>
              /\ Accepted
              /\ "getrandom" \in Implementation(Selected)
              /\ Implementation(Selected) # {"getrandom"} <=>
                    FallbackDocumented /\ ~Arch({"riscv32", "riscv64"})
        /\ Defined(Selected) \subseteq Described <=> ~Undescribed

(* What a flag asks for.                                                    *)
AskedFor == IF flag = "linux_getrandom" THEN "getrandom" ELSE flag

(* A flag is obeyed or refused on every target, whatever features are on.   *)
(* There is one exception.  A compiler before 1.78 makes build.rs add       *)
(* windows_legacy on Windows, and the branches of `wasm_js` and             *)
(* `unsupported` come after its: these two flags, and only they, are        *)
(* ignored, and the build gets random bytes from RtlGenRandom.              *)
FlagObeyed ==
    flag # "none" =>
        IF BuildScript # {} /\ flag \in {"wasm_js", "unsupported"}
        THEN Selected = "windows_legacy"
        ELSE Selected \in {AskedFor, "compile_error"}

(* README.md of the crate, 90-91: `custom` and `unsupported` are backends   *)
(* for "All targets".                                                       *)
OptInEverywhere ==
    flag \in {"custom", "unsupported"} /\ BuildScript = {} => Accepted
-----------------------------------------------------------------------------
(* Why they hold: beside the order of the branches, types are enough.       *)
ConfigOK ==
    /\ target \in Targets /\ flag \in Flags \cup {"none"}
    /\ rustc \in {0, 77, 78}
=============================================================================
