--------------------------- MODULE MCResourcePool ---------------------------
(***************************************************************************)
(* Workers over two resources and an exclusive group: asr and tts take     *)
(* turns on the accelerator although it has room for both, asr and merge   *)
(* compete for the processors, tts and merge have nothing in common, and   *)
(* huge needs more than there is and goes before all.                      *)
(***************************************************************************)
EXTENDS ResourcePool, TLC

CONSTANTS huge, asr, tts, merge, accelerator, cpu

Policy(a, c) == (accelerator :> a) @@ (cpu :> c)

MCLimits   == Policy(2, 2)
MCRequires ==
    (huge :> Policy(0, 3)) @@ (asr :> Policy(1, 1)) @@ (tts :> Policy(1, 0))
        @@ (merge :> Policy(0, 2))
MCExclusive ==
    (huge :> NoKey) @@ (asr :> accelerator) @@ (tts :> accelerator)
        @@ (merge :> NoKey)
MCPriority == (huge :> 0) @@ (merge :> 1) @@ (asr :> 2) @@ (tts :> 2)
=============================================================================
