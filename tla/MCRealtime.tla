----------------------------- MODULE MCRealtime ------------------------------
(***************************************************************************)
(* An instance of Realtime for TLC.                                        *)
(***************************************************************************)
EXTENDS Realtime, TLC

CONSTANTS n1, n2, s1, s2, i1, i2, c1, c2

\* Two notifications of two services.
TwoServices == n1 :> s1 @@ n2 :> s2

\* The first client asks for the first service, the second for all of them.
Filters == c1 :> {s1} @@ c2 :> {}

\* The clients are served by the instance that publishes.
Hosts == [c \in Subscribers |-> i1]
=============================================================================
