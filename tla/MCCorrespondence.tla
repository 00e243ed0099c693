--------------------------- MODULE MCCorrespondence ---------------------------
(* Small instances of Correspondence. *)
EXTENDS Correspondence

CONSTANTS t1

OneThread  == {t1}
NoMails    == {}
OneMail    == {1}
Fees       == {1, 2}
===============================================================================
