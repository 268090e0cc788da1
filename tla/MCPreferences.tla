---------------------------- MODULE MCPreferences -----------------------------
(***************************************************************************)
(* An instance of Preferences for TLC.                                     *)
(***************************************************************************)
EXTENDS Preferences, TLC

CONSTANTS s1, t1, r1

One == t1 :> s1

\* Off, and on from a severity.
Settings == {[enabled |-> FALSE, min |-> NULL], [enabled |-> TRUE, min |-> 2]}

MuteRule(service, type, left) == [service |-> service, type |-> type, left |-> left]

\* For the type and its service, ended by time; for the type named alone.
MuteRules == {MuteRule(s1, t1, 1), MuteRule(NULL, t1, NULL)}
=============================================================================
