---------------------------- MODULE MCCorpusSeed ----------------------------
(* Small instances of CorpusSeed. *)
EXTENDS CorpusSeed, TLC

CONSTANTS A, B, US, k, km, t, o1

\* State A lists county k with its town t, and the unsplit county km; state B has no place.
TwoStates == {A, B}
File      == {k, km, t}
InState   == k :> A @@ km :> A @@ t :> A
AtLevel   == k :> "county" @@ km :> "county" @@ t :> "city"
Beside2   == k :> k @@ km :> km @@ t :> k
Comma     == {km}

Scope(region, matches, levels, states, within, only) ==
    [region |-> region, matches |-> matches, levels |-> levels, states |-> states, within |-> within, only |-> only]

Counties  == Scope(FALSE, {}, {"county"}, TwoStates, {}, {})
InsideK   == Scope(FALSE, {}, {"city"}, {A}, {k}, {})
OnlyTown  == Scope(FALSE, {}, {"city"}, {A}, {}, {t})
Anchor    == Scope(FALSE, {}, {"federal", "city"}, {B}, {}, {})
ByName    == Scope(TRUE, {k, km}, {"county"}, {A}, {}, {})
FiveScopes == {Counties, InsideK, OnlyTown, Anchor, ByName}
WithCodes == {t}
OneOrch   == {o1}
=============================================================================
