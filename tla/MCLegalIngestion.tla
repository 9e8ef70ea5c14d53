------------------------- MODULE MCLegalIngestion ---------------------------
(* Small inboxes for TLC.                                                  *)
EXTENDS LegalIngestion, TLC

CONSTANTS r1, r2

\* A file with a bad row, then one that breaks off.
MixedRows == 1 :> <<"good", "bad", "good">> @@ 2 :> <<"good", "broken">>
\* The first file breaks off after a row.
BrokenRows == 1 :> <<"good", "broken">> @@ 2 :> <<"good">>

Messages == UNION {{n} \X (1..Len(Rows[n])) : n \in Name}
=============================================================================
