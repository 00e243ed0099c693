---------------------------- MODULE MCContactSearch ----------------------------
(* Small instances of ContactSearch. *)
EXTENDS ContactSearch

CONSTANTS j1, j2, o1, o2, w1, w2

OneOffice   == {j1}
TwoOffices  == {j1, j2}
OneSeeder   == {o1}
TwoSeeders  == {o1, o2}
OneScraper  == {w1}
TwoScrapers == {w1, w2}
===============================================================================
