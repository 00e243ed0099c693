---------------------------- MODULE MCCodeCrawl ----------------------------
(* Small instances of CodeCrawl. *)
EXTENDS CodeCrawl, TLC

CONSTANTS u1, u2, p2, p3, d1, d2, d3, o1, w1, w2

\* A Municode portal whose contents go three pages deep, and a plain site with one API document.
OnePortal  == {u1}
TwoPortals == {u1, u2}
Publisher2 == u1 :> "municode" @@ u2 :> "other"
Site == u1 :> {[kind |-> "pdf", to |-> d1], [kind |-> "page", to |-> p2], [kind |-> "site", to |-> p3]}
        @@ p2 :> {[kind |-> "export", to |-> d2], [kind |-> "page", to |-> p3]}
        @@ p3 :> {[kind |-> "pdf", to |-> d1]}
        @@ u2 :> {[kind |-> "json", to |-> d3]}
Three == {3}
Two == {2}
OneOrch    == {o1}
OneWorker  == {w1}
TwoWorkers == {w1, w2}
Interchangeable == Permutations(TwoWorkers)
=============================================================================
