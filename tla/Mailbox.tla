------------------------------ MODULE Mailbox -------------------------------
(***************************************************************************)
(* What the ingestion pipeline promises to the inbox, whatever producers   *)
(* retry and whatever is redelivered: a notification is stored at most     *)
(* once, at most one notification is stored for an idempotency key, and a  *)
(* stored notification that is not archived on arrival is announced to the *)
(* live stream at most once, after it was stored.                          *)
(***************************************************************************)
EXTENDS Naturals

CONSTANTS Msgs, KeyOf, NULL

VARIABLES
  stored,    \* [Msgs -> "none", or the state the notification was stored in]
  announced  \* [Msgs -> how many new-notification events were published]

SameKey(m, n) == KeyOf[m] # NULL /\ KeyOf[m] = KeyOf[n]

Init ==
  /\ stored = [m \in Msgs |-> "none"]
  /\ announced = [m \in Msgs |-> 0]

Store(m) ==
  /\ \A n \in Msgs : n = m \/ SameKey(m, n) => stored[n] = "none"
  /\ stored' \in {[stored EXCEPT ![m] = s] : s \in {"unseen", "archived"}}
  /\ UNCHANGED announced

Announce(m) ==
  /\ stored[m] = "unseen"
  /\ announced[m] = 0
  /\ announced' = [announced EXCEPT ![m] = 1]
  /\ UNCHANGED stored

Next == \E m \in Msgs : Store(m) \/ Announce(m)

Spec == Init /\ [][Next]_<<stored, announced>>

-----------------------------------------------------------------------------
(* What follows from it.                                                   *)

\* What the pipeline has done to a notification it never does again: the row it
\* stored stays as it stored it, and what it told the user stays told.
StoredOnce ==
  [][ \A m \in Msgs : /\ stored[m] # "none" => stored'[m] = stored[m]
                      /\ announced[m] > 0 => announced'[m] = announced[m]
    ]_<<stored, announced>>

\* However a notification is resent, redelivered and processed twice at once,
\* the user is told of it at most once for its key, and only of a
\* notification that is in the inbox and not archived on arrival.
AnnouncedAtMostOnce ==
  \A m \in Msgs :
    /\ announced[m] <= 1
    /\ announced[m] > 0 => /\ stored[m] = "unseen"
                           /\ \A n \in Msgs : n # m /\ SameKey(m, n) => announced[n] = 0
=============================================================================
