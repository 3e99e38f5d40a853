--------------------------- MODULE MCAssetUpload ---------------------------
(* Instances of AssetUpload for TLC: two submissions of one workstation.  *)
EXTENDS AssetUpload, TLC

CONSTANTS s1, s2, f1, f2, f3, k1, k2, d0, d1, d2

(* f1 and f2 have the same content; f3 is the large file.                 *)
MCHashOf == (f1 :> k1) @@ (f2 :> k1) @@ (f3 :> k2)

(* both submissions need the object k1, through different files           *)
MCManifestOf == (s1 :> {f1, f3}) @@ (s2 :> {f2})

(* one submission: two files of the same content in the pool, one large   *)
MCOneManifestOf == (s1 :> {f1, f2, f3})

DbSymmetry == Permutations({d1, d2})
=============================================================================
