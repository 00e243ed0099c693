------------------------------ MODULE MCOutreach ------------------------------
(* Small instances of Outreach. *)
EXTENDS Outreach

CONSTANTS c1, c2, c3, o1, o2

Ask(c, o) == [camp |-> c, office |-> o, to |-> "office", bypass |-> c = c3]

\* The campaigns c1 and c2 share office o1, or c1 asks two offices; or c1 and the test campaign c3
\* share o1; or c3, whose requester is anonymous, asks o2, where that is refused.  Only c1 reports
\* to its operator.
Three        == {c1, c2, c3}
TwoOffices   == {o1, o2}
Seeded       == {{Ask(c1, o1), Ask(c2, o1)}, {Ask(c1, o1), Ask(c1, o2)}, {Ask(c1, o1), Ask(c3, o1)}, {Ask(c3, o2)}}
First        == {c1}
Third        == {c3}
SecondOffice == {o2}
=============================================================================
