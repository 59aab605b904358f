------------------------- MODULE MCVajraaMemoryPool -------------------------
(***************************************************************************)
(* Instances of VajraaMemoryPool for TLC.                                  *)
(***************************************************************************)
EXTENDS VajraaMemoryPoolInvariant

\* Two tiers: two small slots and a large one, requests that fit both or only
\* the large one.
TieredSizes == <<1, 1, 2>>
UniformSizes == <<2, 2>>
==============================================================================
