--------------------------- MODULE MCArtifactFetch ---------------------------
(* Small instances of ArtifactFetch. *)
EXTENDS ArtifactFetch, TLC

CONSTANTS u1, u2, c1, s1, s2, f1, f2

OneUrl      == {u1}
TwoUrls     == {u1, u2}
OneContent  == {c1}
OneStager   == {s1}
TwoStagers  == {s1, s2}
TwoFetchers == {f1, f2}
Interchangeable == Permutations(TwoUrls) \cup Permutations(TwoFetchers)
==============================================================================
