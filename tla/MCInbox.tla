------------------------------ MODULE MCInbox -------------------------------
(***************************************************************************)
(* Instances of Inbox for TLC.                                             *)
(***************************************************************************)
EXTENDS Inbox, TLC

CONSTANTS n1, n2, u1, u2, s1, t1, i1, i2

\* One user, one service and one type, whatever the number of rows.
OneRecipient == [id \in Ids |-> u1]
OneService   == [id \in Ids |-> s1]
OneType      == [id \in Ids |-> t1]

Config(ttl, interval, max, action) ==
  [ttl |-> ttl, interval |-> interval, max |-> max, action |-> action]

\* Escalates twice and outlives its escalations.
Reminding == {Config(3, 1, 2, "resurface")}

\* An administrator edits the type between a longer and a shorter budget
\* and between resurfacing and bumping.
Edited == {Config(NULL, 1, 2, "resurface"), Config(2, 1, 1, "bump")}

\* Escalates once; expires soon after.
Once == {Config(2, 1, 1, "resurface")}

\* Everything comes due at the first tick.
DueForAll == {Config(1, 1, 1, "resurface")}

\* Instances are interchangeable in every safety property.
InstanceSymmetry == Permutations({i1, i2})

\* A snooze in the past, and one in the future.
PastAndFuture == {-1, 1}
Future == {1}
=============================================================================
