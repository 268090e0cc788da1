------------------------------ MODULE Lifecycle ------------------------------
(***************************************************************************)
(* The notification state machine of lifecycle/state_machine.rs: six       *)
(* states, eight transitions, the transitions each state allows and the    *)
(* state each transition leads to.  A state is named by its database       *)
(* string, a transition by its Rust name.                                  *)
(***************************************************************************)

States == {"unseen", "unread", "read", "snoozed", "archived", "expired"}

\* The state a transition leads to, whatever state it is taken from.
Target == [ MarkSeen   |-> "unread",
            MarkRead   |-> "read",
            MarkUnread |-> "unread",
            Snooze     |-> "snoozed",
            Wake       |-> "unread",
            Archive    |-> "archived",
            Unarchive  |-> "read",
            Expire     |-> "expired" ]

\* The transitions each state allows.
ValidTransitions ==
  [ unseen   |-> {"MarkSeen", "Snooze", "Archive", "Expire"},
    unread   |-> {"MarkRead", "Snooze", "Archive", "Expire"},
    read     |-> {"MarkUnread", "Archive", "Expire"},
    snoozed  |-> {"Wake", "Expire"},
    archived |-> {"Unarchive"},
    expired  |-> {"Archive"} ]

\* Some transition allowed in state from leads to state to.
CanTransitionTo(from, to) == \E t \in ValidTransitions[from] : Target[t] = to
=============================================================================
