----------------------------- MODULE MCTargets ------------------------------
(* For BackendSelect: a target of every row of the crate's table of         *)
(* targets, the architectures and environments its conditions tell apart,   *)
(* and some that no row names.                                              *)

Triple(arch, vendor, os, env) ==
    [arch |-> arch, vendor |-> vendor, os |-> os, env |-> env]

Linux ==
    {Triple(a, "unknown", "linux", e) :
        a \in {"x86_64", "x86", "aarch64", "s390x", "riscv64", "loongarch64", "mips"},
        e \in {"gnu", "musl"}}
      \cup {Triple("x86_64", "unknown", "linux", "")}

Android ==
    {Triple(a, "linux", "android", "") : a \in {"aarch64", "arm", "riscv64"}}

Windows ==
    {Triple("x86_64", v, "windows", "msvc") : v \in {"pc", "uwp", "win7"}}

Apple ==
    {Triple("aarch64", "apple", os, "") :
        os \in {"macos", "ios", "tvos", "watchos", "visionos"}}

Unix ==
    {Triple("x86_64", "unknown", os, "") :
        os \in {"freebsd", "openbsd", "netbsd", "dragonfly", "solaris", "illumos",
                "fuchsia", "redox", "haiku", "hermit", "hurd", "cygwin"}}

Embedded ==
    {Triple("x86_64", "fortanix", "unknown", "sgx"),
     Triple("x86_64", "wrs", "vxworks", "gnu"),
     Triple("arm", "kmc", "solid_asp3", ""),
     Triple("arm", "nintendo", "horizon", "newlib"),
     Triple("aarch64", "nintendo", "horizon", ""),
     Triple("riscv32", "esp", "espidf", "newlib"),
     Triple("arm", "sony", "vita", "newlib"),
     Triple("aarch64", "unknown", "nto", "nto71"),
     Triple("powerpc64", "ibm", "aix", ""),
     Triple("x86_64", "unknown", "uefi", ""),
     Triple("x86_64", "unknown", "none", "")}

Wasm ==
    {Triple("wasm32", "unknown", "wasi", e) : e \in {"p1", "p2", "p3", ""}}
      \cup {Triple("wasm32", "unknown", os, "") : os \in {"unknown", "none", "emscripten"}}

AllTargets == Linux \cup Android \cup Windows \cup Apple \cup Unix \cup Embedded \cup Wasm
=============================================================================
