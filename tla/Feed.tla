-------------------------------- MODULE Feed ---------------------------------
(***************************************************************************)
(* What a live stream promises its client, whatever the relay, NATS and    *)
(* the instances do: it shows only events that happened and that are for   *)
(* the client (Wanted), each at most once, and the events of one task in   *)
(* the order of the task's statements.  It does not promise to show        *)
(* anything.                                                               *)
(***************************************************************************)
EXTENDS Naturals

CONSTANTS
  Event,           \* what may happen; e.by is the task, e.n numbers the statements
  Subscribers,
  Wanted(_, _)     \* Wanted(s, e): events like e are for client s

VARIABLES
  happened,  \* the events so far
  got        \* [Subscribers -> what each client has been shown]

Init ==
  /\ happened = {}
  /\ got = [s \in Subscribers |-> {}]

\* One statement makes any number of events happen.
Happen ==
  /\ \E events \in SUBSET (Event \ happened) : happened' = happened \cup events
  /\ UNCHANGED got

Show(s, e) ==
  /\ e \in happened \ got[s]
  /\ Wanted(s, e)
  /\ \A g \in got[s] : g.by = e.by => g.n <= e.n
  /\ got' = [got EXCEPT ![s] = @ \cup {e}]
  /\ UNCHANGED happened

Next == Happen \/ \E s \in Subscribers, e \in Event : Show(s, e)

Spec == Init /\ [][Next]_<<happened, got>>
=============================================================================
