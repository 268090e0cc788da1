------------------------------ MODULE MCIngest ------------------------------
(***************************************************************************)
(* Instances of Ingest for TLC.                                            *)
(***************************************************************************)
EXTENDS Ingest, TLC

CONSTANTS m1, m2, k1

\* The second message is a retry of the first, under the same key.
Retried == m1 :> k1 @@ m2 :> k1

\* One message, sent without a key.
Alone == m1 :> NULL
=============================================================================
