----------------------------- MODULE InboxSpec ------------------------------
(***************************************************************************)
(* What the notification store promises of each notification, whatever     *)
(* statements run against it and in whatever order: it enters the store    *)
(* once, as unseen or already archived, never leaves it, and from then on  *)
(* moves only along the edges below.  Who asks for a move, how many rows   *)
(* move at once, clocks and counters are all left out.                     *)
(***************************************************************************)
EXTENDS Lifecycle

CONSTANT Ids

VARIABLE state  \* [Ids -> the state of each notification, "none" if absent]

Init == state = [id \in Ids |-> "none"]

\* Edges the state machine forbids and the statements take all the same: read
\* rows may be snoozed, snoozed ones archived.
Beyond == { <<"read", "snoozed">>, <<"snoozed", "archived">> }

\* Edges the state machine allows and no statement takes.
Untaken == { <<"snoozed", "expired">>, <<"expired", "archived">> }

\* The edges a user, a producer or a due time can take a notification along:
\* those of the state machine in the code, whose Wake leads to unread
\* (docs/lifecycle.md says unseen), but for the differences above.
Moves ==
  ({e \in States \X States : CanTransitionTo(e[1], e[2])} \ Untaken) \cup Beyond

Deliver(id) ==
  /\ state[id] = "none"
  /\ state' \in {[state EXCEPT ![id] = s] : s \in {"unseen", "archived"}}

\* One statement moves any number of rows.
Move ==
  \E moved \in SUBSET Ids, to \in {m[2] : m \in Moves} :
    /\ \A id \in moved : <<state[id], to>> \in Moves
    /\ state' = [id \in Ids |-> IF id \in moved THEN to ELSE state[id]]

\* Only a resurface brings a notification back to unseen, from any state: a
\* wake-up does not, against docs/lifecycle.md:57 and 61-63.
Resurface(id) ==
  /\ state[id] # "none"
  /\ state' = [state EXCEPT ![id] = "unseen"]

Next == Move \/ \E id \in Ids : Deliver(id) \/ Resurface(id)

Spec == Init /\ [][Next]_state

-----------------------------------------------------------------------------
(* What follows from it.                                                   *)

\* No notification leaves the store: an insert that comes too late, under the id
\* or the key of one that is there, is refused whatever happened to that one since.
NeverLeaves == [][\A id \in Ids : state[id] # "none" => state'[id] # "none"]_state
=============================================================================
