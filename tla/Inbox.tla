------------------------------- MODULE Inbox --------------------------------
(***************************************************************************)
(* The notification store and everything that changes it: the processor's  *)
(* insert, the user, producer and admin RPCs, and the three scheduler      *)
(* loops that every server instance runs (snooze wake-up, TTL expiry,      *)
(* escalation).                                                            *)
(*                                                                         *)
(* Each RPC and each wake-up or expiry pass is one SQL statement, hence    *)
(* one action.  An escalation pass is not: it selects a batch of due rows  *)
(* and then, row by row, looks up the type, writes the new count and acts, *)
(* each in a statement of its own, on the snapshot it took at the start.   *)
(* That pass is split into an action per statement, and one more action    *)
(* abandons it anywhere, as an error or a crash of the instance does.      *)
(***************************************************************************)
EXTENDS Integers, FiniteSets, Lifecycle

CONSTANTS
  Ids,          \* the notifications that may be inserted
  Users,        \* recipients
  Services,     \* producing services
  Types,        \* notification types
  Recipient,    \* [Ids -> Users]
  ServiceOf,    \* [Ids -> Services]
  TypeOf,       \* [Ids -> Types]
  TypeConfigs,  \* the lifecycle settings a type may be given
  Instances,    \* server instances running the scheduler
  BatchSize,    \* rows a scheduler pass takes
  SnoozeOffsets,\* how far from now a snooze may be set (the code takes any time)
  MaxTime,      \* bound on the clock
  MaxFailures,  \* bound on abandoned escalation passes
  NULL

Time == Int
OptTime == Time \cup {NULL}

\* A type's settings: time to live, escalation interval, number and action.
TypeConfig == [ ttl : OptTime, interval : OptTime, max : Int,
                action : {"resurface", "bump", "elevate"} ]

ASSUME NullAssumption == NULL \notin Int
ASSUME IdsAssumption ==
  /\ Recipient \in [Ids -> Users]
  /\ ServiceOf \in [Ids -> Services]
  /\ TypeOf \in [Ids -> Types]
ASSUME ConfigAssumption == TypeConfigs \subseteq TypeConfig
ASSUME BoundAssumption ==
  /\ BatchSize \in Nat \ {0}
  /\ SnoozeOffsets \subseteq Int
  /\ MaxTime \in Nat
  /\ MaxFailures \in Nat

VARIABLES
  now,       \* the clock
  rows,      \* the notifications table; state "none" is a row not yet inserted
  types,     \* the current settings of each type
  past,      \* every settings a type has had: what a stale cache may still hold
  esc,       \* the escalation pass of each instance
  reminders, \* history: how often an escalation has acted on each row
  failures   \* escalation passes abandoned so far

vars == <<now, rows, types, past, esc, reminders, failures>>

-----------------------------------------------------------------------------
(* The state.                                                              *)

\* A row of the table, as far as the lifecycle reads or writes it.  Of seen_at
\* it only matters whether it is set; read_at is left out, as no statement and
\* no property reads it.
Row == [ state : States \cup {"none"}, snoozed_until : OptTime,
         expires_at : OptTime, next_escalation_at : OptTime,
         escalation_count : Nat, seen_at : BOOLEAN ]

Absent == [ state |-> "none", snoozed_until |-> NULL, expires_at |-> NULL,
            next_escalation_at |-> NULL, escalation_count |-> 0,
            seen_at |-> FALSE ]

\* What an escalation pass remembers of a row it selected.
Snapshot == [ id : Ids, count : Nat, at : Time ]

\* An escalation pass: the snapshots still to handle, the one in hand, and
\* the next escalation time and action computed for it.
Pass == [ stage : {"idle", "lookup", "count", "act"}, due : SUBSET Snapshot,
          cur : Snapshot \cup {NULL}, next : OptTime,
          action : {"resurface", "bump", "elevate", "none"} ]

Idle == [ stage |-> "idle", due |-> {}, cur |-> NULL, next |-> NULL,
          action |-> "none" ]

TypeOK ==
  /\ now \in Nat
  /\ rows \in [Ids -> Row]
  /\ types \in [Types -> TypeConfigs]
  /\ past \in [Types -> SUBSET TypeConfigs]
  /\ esc \in [Instances -> Pass]
  /\ reminders \in [Ids -> Nat]
  /\ failures \in Nat

Init ==
  /\ now = 0
  /\ rows = [id \in Ids |-> Absent]
  /\ types \in [Types -> TypeConfigs]
  /\ past = [t \in Types |-> {types[t]}]
  /\ esc = [i \in Instances |-> Idle]
  /\ reminders = [id \in Ids |-> 0]
  /\ failures = 0

-----------------------------------------------------------------------------
(* Helpers.                                                                *)

In(states) == {id \in Ids : rows[id].state \in states}

Of(user) == {id \in Ids : Recipient[id] = user}

\* now + delay, and NULL when there is no delay.
After(delay) == IF delay = NULL THEN NULL ELSE now + delay

Reached(time) == time # NULL /\ time <= now

\* ORDER BY at LIMIT BatchSize over the rows S: ties may break either way.
Batches(S, at) ==
  { B \in SUBSET S :
      /\ Cardinality(B) <= BatchSize
      /\ Cardinality(B) < BatchSize => B = S
      /\ \A b \in B, a \in S \ B : at[b] <= at[a] }

\* Mutant: the Rust name of the state instead of its database string.
ResurfacedMisspelt(row) == [row EXCEPT !.state = "Unseen", !.seen_at = FALSE]

\* Mutant: seen_at is left.
ResurfacedStillSeen(row) == [row EXCEPT !.state = "unseen"]

\* Mutant: the escalations start again.
ResurfacedAfresh(row) ==
  [row EXCEPT !.state = "unseen", !.seen_at = FALSE, !.escalation_count = 0]

Resurfaced(row) == [row EXCEPT !.state = "unseen", !.seen_at = FALSE]

\* A statement that only touches the notifications table.
Table == UNCHANGED <<now, types, past, esc, reminders, failures>>

-----------------------------------------------------------------------------
(* The processor's insert.  The type's settings come from a cache that may *)
(* be out of date, so any settings the type has had may be used.  (The     *)
(* time to live a message asks for is read by nothing.)                    *)

Insert(id, deliver, config) ==
  /\ rows[id].state = "none"
  /\ config \in past[TypeOf[id]]
  /\ rows' = [rows EXCEPT ![id] =
       [Absent EXCEPT
          !.state = IF deliver THEN "unseen" ELSE "archived",
          !.expires_at = After(config.ttl),
          !.next_escalation_at =
             IF config.max > 0 THEN After(config.interval) ELSE NULL]]
  /\ Table

-----------------------------------------------------------------------------
(* User, producer and admin RPCs.                                          *)

\* An empty list of ids means every notification of the user.
SeenTargets(user, ids) == IF ids = {} THEN Of(user) ELSE ids \cap Of(user)

MarkSeen(user, ids) ==
  /\ rows' = [id \in Ids |->
       IF id \in SeenTargets(user, ids) \cap In({"unseen"})
         THEN [rows[id] EXCEPT !.state = "unread", !.seen_at = TRUE]
         ELSE rows[id]]
  /\ Table

MarkRead(user, ids) ==
  /\ rows' = [id \in Ids |->
       IF id \in ids \cap Of(user) \cap In({"unread"})
         THEN [rows[id] EXCEPT !.state = "read"]
         ELSE rows[id]]
  /\ Table

\* The same, asked for by the producer in the name of the user.
ProducerMarkRead(user, ids) ==
  /\ rows' = [id \in Ids |->
       IF id \in ids \cap Of(user) \cap In({"unread"})
         THEN [rows[id] EXCEPT !.state = "read"]
         ELSE rows[id]]
  /\ Table

MarkUnread(user, ids) ==
  /\ rows' = [id \in Ids |->
       IF id \in ids \cap Of(user) \cap In({"read"})
         THEN [rows[id] EXCEPT !.state = "unread"]
         ELSE rows[id]]
  /\ Table

\* Nothing requires the time to lie in the future.
Snooze(user, id, until) ==
  /\ id \in Of(user) \cap In({"unseen", "unread", "read"})
  /\ rows' = [rows EXCEPT ![id] =
       [@ EXCEPT !.state = "snoozed", !.snoozed_until = until]]
  /\ Table

Archivable == In({"unseen", "unread", "read", "snoozed"})

Archive(user, ids) ==
  /\ rows' = [id \in Ids |->
       IF id \in ids \cap Of(user) \cap Archivable
         THEN [rows[id] EXCEPT !.state = "archived"]
         ELSE rows[id]]
  /\ Table

ArchiveAllInGroup(user, service) ==
  /\ rows' = [id \in Ids |->
       IF id \in Of(user) \cap Archivable /\ ServiceOf[id] = service
         THEN [rows[id] EXCEPT !.state = "archived"]
         ELSE rows[id]]
  /\ Table

Unarchive(user, ids) ==
  /\ rows' = [id \in Ids |->
       IF id \in ids \cap Of(user) \cap In({"archived"})
         THEN [rows[id] EXCEPT !.state = "read"]
         ELSE rows[id]]
  /\ Table

\* An administrator may resurface a notification in any state; a bump
\* touches no column of the model.
AdminResurface(id) ==
  /\ rows[id].state # "none"
  /\ rows' = [rows EXCEPT ![id] = Resurfaced(@)]
  /\ Table

\* New settings for a type: rows already inserted keep their times.
UpdateType(t, config) ==
  /\ types' = [types EXCEPT ![t] = config]
  /\ past' = [past EXCEPT ![t] = @ \cup {config}]
  /\ UNCHANGED <<now, rows, esc, reminders, failures>>

-----------------------------------------------------------------------------
(* Scheduler: snooze wake-up and TTL expiry, one statement each.  locked   *)
(* is what SKIP LOCKED passes over: rows another statement has locked.     *)

\* Mutant: rows that are no longer snoozed are woken too.
DueToWakeAnyState == {id \in Ids : Reached(rows[id].snoozed_until)}

\* Mutant: the comparison is the wrong way round.
DueToWakeEarly ==
  {id \in In({"snoozed"}) :
     rows[id].snoozed_until # NULL /\ now < rows[id].snoozed_until}

DueToWake == {id \in In({"snoozed"}) : Reached(rows[id].snoozed_until)}

Wake(locked) ==
  /\ \E batch \in Batches(DueToWake \ locked,
                          [id \in Ids |-> rows[id].snoozed_until]) :
       /\ batch # {}
       /\ rows' = [id \in Ids |->
            IF id \in batch
              THEN [rows[id] EXCEPT !.state = "unread", !.snoozed_until = NULL]
              ELSE rows[id]]
  /\ Table

\* Mutant: rows that were read are kept.
DueToExpireUnread ==
  {id \in In({"unseen", "unread"}) : Reached(rows[id].expires_at)}

DueToExpire ==
  {id \in In({"unseen", "unread", "read"}) : Reached(rows[id].expires_at)}

Expire(locked) ==
  /\ \E batch \in Batches(DueToExpire \ locked,
                          [id \in Ids |-> rows[id].expires_at]) :
       /\ batch # {}
       /\ rows' = [id \in Ids |->
            IF id \in batch THEN [rows[id] EXCEPT !.state = "expired"]
                            ELSE rows[id]]
  /\ Table

-----------------------------------------------------------------------------
(* Scheduler: escalation.                                                  *)

DueToEscalate ==
  {id \in In({"unseen", "unread"}) : Reached(rows[id].next_escalation_at)}

\* The locks FOR UPDATE takes are gone when the SELECT returns, so the
\* snapshot is all the pass has.
SelectDue(i, locked) ==
  /\ esc[i].stage = "idle"
  /\ \E batch \in Batches(DueToEscalate \ locked,
                          [id \in Ids |-> rows[id].next_escalation_at]) :
       /\ batch # {}
       /\ esc' = [esc EXCEPT ![i] = [@ EXCEPT !.stage = "lookup",
            !.due = { [id    |-> id,
                       count |-> rows[id].escalation_count,
                       at    |-> rows[id].next_escalation_at] : id \in batch }]]
  /\ UNCHANGED <<now, rows, types, past, reminders, failures>>

\* The next row in time order: the type's current settings decide, from the
\* snapshot's count, when it escalates next.
LookupType(i) ==
  /\ esc[i].stage = "lookup"
  /\ \E d \in esc[i].due :
       /\ \A e \in esc[i].due : d.at <= e.at
       /\ LET nt == types[TypeOf[d.id]]
          IN  esc' = [esc EXCEPT ![i] = [@ EXCEPT
                !.stage = "count",
                !.cur = d,
                !.next = IF d.count + 1 < nt.max THEN After(nt.interval) ELSE NULL,
                !.action = nt.action]]
  /\ UNCHANGED <<now, rows, types, past, reminders, failures>>

\* Mutant: the row's count is incremented, as two instances may do at once.
UpdateEscalationIncrements(i) ==
  /\ esc[i].stage = "count"
  /\ LET d == esc[i].cur
     IN  rows' = [rows EXCEPT ![d.id] = [@ EXCEPT
           !.escalation_count = @ + 1,
           !.next_escalation_at = esc[i].next]]
  /\ esc' = [esc EXCEPT ![i].stage = "act"]
  /\ UNCHANGED <<now, types, past, reminders, failures>>

\* Mutant: the old count is written back.
UpdateEscalationForgets(i) ==
  /\ esc[i].stage = "count"
  /\ LET d == esc[i].cur
     IN  rows' = [rows EXCEPT ![d.id] = [@ EXCEPT
           !.escalation_count = d.count,
           !.next_escalation_at = esc[i].next]]
  /\ esc' = [esc EXCEPT ![i].stage = "act"]
  /\ UNCHANGED <<now, types, past, reminders, failures>>

\* Writes the snapshot's count plus one, whatever the row holds by now.
UpdateEscalation(i) ==
  /\ esc[i].stage = "count"
  /\ LET d == esc[i].cur
     IN  rows' = [rows EXCEPT ![d.id] = [@ EXCEPT
           !.escalation_count = d.count + 1,
           !.next_escalation_at = esc[i].next]]
  /\ esc' = [esc EXCEPT ![i].stage = "act"]
  /\ UNCHANGED <<now, types, past, reminders, failures>>

\* Mutant: a row that is no longer open is passed over.
EscalationActionIfOpen(i) ==
  /\ esc[i].stage = "act"
  /\ LET d == esc[i].cur
         rest == esc[i].due \ {d}
         open == rows[d.id].state \in {"unseen", "unread"}
     IN  /\ rows' = IF esc[i].action = "bump" \/ ~open THEN rows
                    ELSE [rows EXCEPT ![d.id] = Resurfaced(@)]
         /\ reminders' = IF open THEN [reminders EXCEPT ![d.id] = @ + 1] ELSE reminders
         /\ esc' = [esc EXCEPT ![i] =
              IF rest = {} THEN Idle
                           ELSE [Idle EXCEPT !.stage = "lookup", !.due = rest]]
  /\ UNCHANGED <<now, types, past, failures>>

\* Resurfaces or bumps the row, whatever state it is in by now.  "elevate"
\* is carried out as a resurface, and a bump changes only updated_at.
EscalationAction(i) ==
  /\ esc[i].stage = "act"
  /\ LET d == esc[i].cur
         rest == esc[i].due \ {d}
     IN  /\ rows' = IF esc[i].action = "bump" THEN rows
                    ELSE [rows EXCEPT ![d.id] = Resurfaced(@)]
         /\ reminders' = [reminders EXCEPT ![d.id] = @ + 1]
         /\ esc' = [esc EXCEPT ![i] =
              IF rest = {} THEN Idle
                           ELSE [Idle EXCEPT !.stage = "lookup", !.due = rest]]
  /\ UNCHANGED <<now, types, past, failures>>

\* Mutant: an error ends the loop, not just the pass.
AbandonPassStops(i) ==
  /\ esc[i].stage # "idle"
  /\ failures < MaxFailures
  /\ failures' = failures + 1
  /\ esc' = [esc EXCEPT ![i] = [Idle EXCEPT !.stage = "stopped"]]
  /\ UNCHANGED <<now, rows, types, past, reminders>>

\* A failed statement ends the pass, a crash ends it with the instance; the
\* rows not reached stay due and the next pass finds them.
AbandonPass(i) ==
  /\ esc[i].stage # "idle"
  /\ failures < MaxFailures
  /\ failures' = failures + 1
  /\ esc' = [esc EXCEPT ![i] = Idle]
  /\ UNCHANGED <<now, rows, types, past, reminders>>

-----------------------------------------------------------------------------

Tick ==
  /\ now < MaxTime
  /\ now' = now + 1
  /\ UNCHANGED <<rows, types, past, esc, reminders, failures>>

UserCall(user) ==
  \/ \E ids \in SUBSET Ids :
       \/ MarkSeen(user, ids)
       \/ MarkRead(user, ids)
       \/ ProducerMarkRead(user, ids)
       \/ MarkUnread(user, ids)
       \/ Archive(user, ids)
       \/ Unarchive(user, ids)
  \/ \E id \in Ids, d \in SnoozeOffsets : Snooze(user, id, now + d)
  \/ \E service \in Services : ArchiveAllInGroup(user, service)

Escalate(i) ==
  \/ LookupType(i)
  \/ UpdateEscalation(i)
  \/ EscalationAction(i)

Next ==
  \/ \E id \in Ids, deliver \in BOOLEAN, config \in TypeConfigs :
       Insert(id, deliver, config)
  \/ \E user \in Users : UserCall(user)
  \/ \E id \in Ids : AdminResurface(id)
  \/ \E t \in Types, config \in TypeConfigs : UpdateType(t, config)
  \/ \E locked \in SUBSET Ids : Wake(locked) \/ Expire(locked)
  \/ \E i \in Instances :
       \/ \E locked \in SUBSET Ids : SelectDue(i, locked)
       \/ Escalate(i)
       \/ AbandonPass(i)
  \/ Tick

Spec == Init /\ [][Next]_vars

\* Each loop is a task that sleeps on an interval and runs again whatever
\* the last pass returned, and no statement holds a row lock for ever: a
\* pass that meets no lock keeps coming.
Fairness ==
  /\ WF_vars(Wake({}))
  /\ WF_vars(Expire({}))
  /\ \A i \in Instances : WF_vars(SelectDue(i, {})) /\ WF_vars(Escalate(i))
  /\ WF_vars(Tick)

FairSpec == Spec /\ Fairness

-----------------------------------------------------------------------------
(* Safety.                                                                 *)

\* The columns fit the state, whatever row came by whatever calls into it: a
\* snoozed row has a time at which the wake-up loop will find it, or it would
\* sleep for ever (db/notifications.rs:380), and a row that came back to unseen
\* (escalation, admin) does not still carry the time at which it was seen.
ColumnsFitState ==
  /\ \A id \in In({"snoozed"}) : rows[id].snoozed_until # NULL
  /\ \A id \in In({"unseen"}) : ~rows[id].seen_at

\* The column escalation_count stays within some settings its type has had:
\* stale snapshots of concurrent passes, passes abandoned half way and settings
\* changed in between write no higher one.  Only the column: with two instances
\* the reminders a user gets may exceed it, and the settings too (see
\* RemindersWithinCount); with one they stay within it, and so within the
\* settings.
CountWithinSettings ==
  \A id \in Ids :
    \/ rows[id].escalation_count = 0
    \/ \E c \in past[TypeOf[id]] : rows[id].escalation_count <= c.max

\* An escalation is not cut short: a row is off the schedule only if it has
\* been escalated as often as some settings its type has had ask for, or these
\* ask for no escalation, whichever passes wrote counts and times of stale
\* snapshots over each other's.
EscalationNotCutShort ==
  \A id \in Ids :
    rows[id].state # "none" /\ rows[id].next_escalation_at = NULL =>
      \E c \in past[TypeOf[id]] :
        c.interval = NULL \/ c.max <= rows[id].escalation_count

\* The passes that have counted an escalation of the row and will act on it next.
AboutToRemind(id) == {i \in Instances : esc[i].stage = "act" /\ esc[i].cur.id = id}

\* No reminder is counted and then forgotten, on any number of instances: the
\* count is ahead of the reminders given by no more than the passes that were
\* cut off or are about to give theirs.
RemindersKeepUp ==
  \A id \in Ids :
    rows[id].escalation_count <= reminders[id] + failures + Cardinality(AboutToRemind(id))

\* The count is written before the reminder is given, so a pass cut off in
\* between loses the reminder and no later pass gives it twice.  This holds
\* with one instance; with two, both give the reminder of one cycle, although
\* the loops are "safe to run on every instance" (scheduler.rs:12).
RemindersWithinCount ==
  \A id \in Ids : reminders[id] <= rows[id].escalation_count

\* The count never goes back, and a row whose escalation has ended is not
\* put back on the schedule.  This too holds with one instance only: with two,
\* the slower pass writes the count and the schedule of its stale snapshot.
EscalationCountMonotone ==
  [][\A id \in Ids :
       /\ rows[id].escalation_count <= rows'[id].escalation_count
       /\ rows[id].state # "none" /\ rows[id].next_escalation_at = NULL
            => rows'[id].next_escalation_at = NULL]_vars

\* The table implements the abstract lifecycle.
Abstract == INSTANCE InboxSpec WITH state <- [id \in Ids |-> rows[id].state]

ImplementsInboxSpec == Abstract!Spec

-----------------------------------------------------------------------------
(* Liveness, under FairSpec.                                               *)

\* A row is snoozed until now or some time in the past: it is due at once.
SnoozeIntoPast ==
  \E id \in Ids :
    /\ rows[id].state # "snoozed" /\ rows'[id].state = "snoozed"
    /\ rows'[id].snoozed_until <= now

\* Every snooze whose time has come ends, provided users stop snoozing into
\* the past: the call takes any time, such rows are the oldest of their batch,
\* and BatchSize of them snoozed again for ever would keep the loop from the
\* rows behind them.  Snoozes into the future may go on.
DueSnoozeEnds ==
  <>[][~ SnoozeIntoPast]_vars
    => \A id \in Ids :
         rows[id].state = "snoozed" /\ Reached(rows[id].snoozed_until)
           ~> rows[id].state # "snoozed"

\* Every visible row past its time to live stops being visible, provided
\* administrators stop resurfacing expired rows: those are the oldest of
\* their batch, and BatchSize of them brought back for ever would keep the
\* loop from the rows behind them.
Visible(id) == rows[id].state \in {"unseen", "unread", "read"}

DueRowExpires ==
  <>[][~ \E id \in Ids : AdminResurface(id)]_vars
    => \A id \in Ids : Visible(id) /\ Reached(rows[id].expires_at) ~> ~Visible(id)

\* Every due escalation is counted or the row stops being open to it, even
\* when passes are abandoned, as long as that happens finitely often.
Open(id) == rows[id].state \in {"unseen", "unread"}

DueEscalationAdvances ==
  \A id \in Ids : \A n \in 0 .. MaxTime :
    Open(id) /\ rows[id].escalation_count = n /\ Reached(rows[id].next_escalation_at)
      ~> ~Open(id) \/ rows[id].escalation_count > n

-----------------------------------------------------------------------------
(* What the documentation, comments and tests say and the code does not    *)
(* do: TLC refutes it.                                                     *)

\* docs/lifecycle.md:33, 46, 57 and 61-63: a snoozed row leaves that state by
\* Wake, which "returns a snoozed notification to Unseen so it re-triggers the
\* bell badge", by expiry, or (101-103) by being dismissed, which here is
\* archived.
SnoozedWakesUnseen ==
  [][\A id \in In({"snoozed"}) :
       rows'[id].state \in {"snoozed", "unseen", "expired", "archived"}]_vars
=============================================================================
