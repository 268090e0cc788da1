---------------------------- MODULE InboxProofs -----------------------------
(***************************************************************************)
(* Proofs about Inbox, for any rows, users, types, instances and bounds.   *)
(***************************************************************************)
EXTENDS Inbox, FiniteSetTheorems, TLAPS

-----------------------------------------------------------------------------
(* Type correctness.  TypeOK is not inductive by itself: the row a pass    *)
(* writes comes from cur, which has to be one of the snapshots of the pass.*)

CurInHand ==
  \A i \in Instances :
    esc[i].stage \in {"count", "act"} => esc[i].cur \in esc[i].due

TypeInv == TypeOK /\ CurInHand

LEMMA AfterType ==
  ASSUME now \in Nat, NEW delay \in OptTime
  PROVE  After(delay) \in OptTime
BY DEF After, OptTime, Time

LEMMA ResurfacedType ==
  ASSUME NEW row \in Row
  PROVE  /\ Resurfaced(row) \in Row
         /\ Resurfaced(row).state = "unseen"
         /\ ~Resurfaced(row).seen_at
         /\ Resurfaced(row).escalation_count = row.escalation_count
         /\ Resurfaced(row).next_escalation_at = row.next_escalation_at
BY DEF Resurfaced, Row, States

LEMMA RescheduledType ==
  ASSUME NEW row \in Row, NEW n \in Nat, NEW at \in OptTime
  PROVE  [row EXCEPT !.escalation_count = n, !.next_escalation_at = at] \in Row
BY DEF Row

\* What a wake-up and an expiry pass do to the table.
LEMMA WakeEffect ==
  ASSUME NEW locked \in SUBSET Ids, Wake(locked)
  PROVE  /\ Table
         /\ \E batch \in SUBSET Ids :
              rows' = [id \in Ids |->
                IF id \in batch
                  THEN [rows[id] EXCEPT !.state = "unread", !.snoozed_until = NULL]
                  ELSE rows[id]]
BY DEF Wake, Batches, DueToWake, In

LEMMA ExpireEffect ==
  ASSUME NEW locked \in SUBSET Ids, Expire(locked)
  PROVE  /\ Table
         /\ \E batch \in SUBSET Ids :
              rows' = [id \in Ids |->
                IF id \in batch THEN [rows[id] EXCEPT !.state = "expired"]
                                ELSE rows[id]]
BY DEF Expire, Batches, DueToExpire, In

\* A statement that leaves the passes alone keeps TypeInv if it keeps the
\* types of the rows.
LEMMA TableKeepsTypeInv ==
  ASSUME TypeInv, Table, rows' \in [Ids -> Row]
  PROVE  TypeInv'
BY DEF TypeInv, TypeOK, CurInHand, Table

LEMMA InitTypeInv == Init => TypeInv
BY DEF Init, TypeInv, TypeOK, CurInHand, Absent, Row, Idle, Pass, OptTime, States

LEMMA InsertType ==
  ASSUME TypeInv, NEW id \in Ids, NEW deliver \in BOOLEAN,
         NEW config \in TypeConfigs, Insert(id, deliver, config)
  PROVE  TypeInv'
<1>1. After(config.ttl) \in OptTime /\ After(config.interval) \in OptTime
  BY AfterType, ConfigAssumption DEF TypeInv, TypeOK, TypeConfig
<1>2. rows' \in [Ids -> Row]
  BY <1>1 DEF Insert, TypeInv, TypeOK, Absent, Row, OptTime, States
<1> QED
  BY <1>2, TableKeepsTypeInv DEF Insert

LEMMA UserCallType ==
  ASSUME TypeInv, NEW user \in Users, UserCall(user)
  PROVE  TypeInv'
<1> USE DEF TypeInv, TypeOK, Row, States
<1> SUFFICES rows' \in [Ids -> Row] /\ Table
  BY TableKeepsTypeInv
<1>1. CASE \E ids \in SUBSET Ids :
             \/ MarkSeen(user, ids)
             \/ MarkRead(user, ids)
             \/ ProducerMarkRead(user, ids)
             \/ MarkUnread(user, ids)
             \/ Archive(user, ids)
             \/ Unarchive(user, ids)
  <2>1. PICK ids \in SUBSET Ids :
             \/ MarkSeen(user, ids)
             \/ MarkRead(user, ids)
             \/ ProducerMarkRead(user, ids)
             \/ MarkUnread(user, ids)
             \/ Archive(user, ids)
             \/ Unarchive(user, ids)
    BY <1>1
  <2>2. CASE MarkSeen(user, ids) BY <2>2 DEF MarkSeen
  <2>3. CASE MarkRead(user, ids) BY <2>3 DEF MarkRead
  <2>4. CASE ProducerMarkRead(user, ids) BY <2>4 DEF ProducerMarkRead
  <2>5. CASE MarkUnread(user, ids) BY <2>5 DEF MarkUnread
  <2>6. CASE Archive(user, ids) BY <2>6 DEF Archive
  <2>7. CASE Unarchive(user, ids) BY <2>7 DEF Unarchive
  <2> QED BY <2>1, <2>2, <2>3, <2>4, <2>5, <2>6, <2>7
<1>2. CASE \E id \in Ids, d \in SnoozeOffsets : Snooze(user, id, now + d)
  <2>1. PICK id \in Ids, d \in SnoozeOffsets : Snooze(user, id, now + d)
    BY <1>2
  <2>2. now + d \in OptTime
    BY BoundAssumption DEF TypeInv, TypeOK, OptTime, Time
  <2> QED BY <2>1, <2>2 DEF Snooze
<1>3. CASE \E service \in Services : ArchiveAllInGroup(user, service)
  BY <1>3 DEF ArchiveAllInGroup
<1> QED
  BY <1>1, <1>2, <1>3 DEF UserCall

LEMMA PassType ==
  ASSUME TypeInv, NEW i \in Instances,
         (\E locked \in SUBSET Ids : SelectDue(i, locked)) \/ Escalate(i)
           \/ AbandonPass(i)
  PROVE  TypeInv'
<1> USE DEF TypeInv, TypeOK, CurInHand
<1>1. CASE \E locked \in SUBSET Ids : SelectDue(i, locked)
  <2>1. PICK locked \in SUBSET Ids : SelectDue(i, locked)
    BY <1>1
  <2>2. PICK batch \in Batches(DueToEscalate \ locked,
                              [id \in Ids |-> rows[id].next_escalation_at]) :
          esc' = [esc EXCEPT ![i] = [@ EXCEPT !.stage = "lookup",
            !.due = { [id    |-> id,
                       count |-> rows[id].escalation_count,
                       at    |-> rows[id].next_escalation_at] : id \in batch }]]
    BY <2>1 DEF SelectDue
  <2>3. \A id \in batch : /\ id \in Ids
                          /\ rows[id].escalation_count \in Nat
                          /\ rows[id].next_escalation_at \in Time
    BY <2>2 DEF Batches, DueToEscalate, In, Reached, Row, OptTime
  <2>4. { [id    |-> id,
           count |-> rows[id].escalation_count,
           at    |-> rows[id].next_escalation_at] : id \in batch } \in SUBSET Snapshot
    BY <2>3 DEF Snapshot
  <2>5. PICK due \in SUBSET Snapshot :
          esc' = [esc EXCEPT ![i] = [@ EXCEPT !.stage = "lookup", !.due = due]]
    BY <2>2, <2>4
  <2>6. [esc[i] EXCEPT !.stage = "lookup", !.due = due] \in Pass
    BY DEF Pass
  <2>7. esc' \in [Instances -> Pass]
    BY <2>5, <2>6
  <2>8. CurInHand'
    BY <2>5, <2>7
  <2> QED BY <2>1, <2>7, <2>8 DEF SelectDue
<1>2. CASE LookupType(i)
  <2>1. PICK d \in esc[i].due :
          LET nt == types[TypeOf[d.id]]
          IN  esc' = [esc EXCEPT ![i] = [@ EXCEPT
                !.stage = "count",
                !.cur = d,
                !.next = IF d.count + 1 < nt.max THEN After(nt.interval) ELSE NULL,
                !.action = nt.action]]
    BY <1>2 DEF LookupType
  <2>2. d \in Snapshot /\ types[TypeOf[d.id]] \in TypeConfig
    BY IdsAssumption, ConfigAssumption DEF Pass, Snapshot
  <2>3. After(types[TypeOf[d.id]].interval) \in OptTime
    BY <2>2, AfterType DEF TypeConfig
  <2>4. PICK next \in OptTime, action \in {"resurface", "bump", "elevate"} :
          esc' = [esc EXCEPT ![i] = [@ EXCEPT !.stage = "count", !.cur = d,
                                              !.next = next, !.action = action]]
    BY <2>1, <2>2, <2>3 DEF TypeConfig, OptTime
  <2>5. [esc[i] EXCEPT !.stage = "count", !.cur = d, !.next = next,
                       !.action = action] \in Pass
    BY <2>2 DEF Pass
  <2>6. esc' \in [Instances -> Pass]
    BY <2>4, <2>5
  <2>7. CurInHand'
    BY <2>4, <2>6
  <2> QED BY <1>2, <2>6, <2>7 DEF LookupType
<1>3. CASE UpdateEscalation(i)
  <2>1. esc[i].cur \in Snapshot /\ esc[i].next \in OptTime
    BY <1>3 DEF UpdateEscalation, Pass
  <2>2. esc[i].cur.id \in Ids /\ esc[i].cur.count + 1 \in Nat
    BY <2>1 DEF Snapshot
  <2>3. rows' \in [Ids -> Row]
    BY <1>3, <2>1, <2>2, RescheduledType DEF UpdateEscalation
  <2>4. esc' \in [Instances -> Pass] /\ CurInHand'
    BY <1>3 DEF UpdateEscalation, Pass
  <2> QED BY <1>3, <2>3, <2>4 DEF UpdateEscalation
<1>4. CASE EscalationAction(i)
  <2>1. esc[i].cur \in Snapshot
    BY <1>4 DEF EscalationAction, Pass
  <2>2. rows' \in [Ids -> Row]
    BY <1>4, <2>1, ResurfacedType DEF EscalationAction, Snapshot
  <2>3. esc' \in [Instances -> Pass] /\ CurInHand'
    BY <1>4 DEF EscalationAction, Pass, Idle, OptTime
  <2>4. reminders' \in [Ids -> Nat]
    BY <1>4, <2>1 DEF EscalationAction, Snapshot
  <2> QED BY <1>4, <2>2, <2>3, <2>4 DEF EscalationAction
<1>5. CASE AbandonPass(i)
  BY <1>5 DEF AbandonPass, Pass, Idle, OptTime
<1> QED
  BY <1>1, <1>2, <1>3, <1>4, <1>5 DEF Escalate

LEMMA NextTypeInv == TypeInv /\ [Next]_vars => TypeInv'
<1> SUFFICES ASSUME TypeInv, [Next]_vars PROVE TypeInv'
  OBVIOUS
<1>1. CASE \E id \in Ids, deliver \in BOOLEAN, config \in TypeConfigs :
             Insert(id, deliver, config)
  BY <1>1, InsertType
<1>2. CASE \E user \in Users : UserCall(user)
  BY <1>2, UserCallType
<1>3. CASE \E id \in Ids : AdminResurface(id)
  <2>1. rows' \in [Ids -> Row]
    BY <1>3, ResurfacedType DEF AdminResurface, TypeInv, TypeOK
  <2> QED BY <1>3, <2>1, TableKeepsTypeInv DEF AdminResurface
<1>4. CASE \E t \in Types, config \in TypeConfigs : UpdateType(t, config)
  BY <1>4 DEF UpdateType, TypeInv, TypeOK, CurInHand
<1>5. CASE \E locked \in SUBSET Ids : Wake(locked) \/ Expire(locked)
  <2>1. PICK locked \in SUBSET Ids : Wake(locked) \/ Expire(locked)
    BY <1>5
  <2>2. CASE Wake(locked)
    <3>1. \A id \in Ids :
            [rows[id] EXCEPT !.state = "unread", !.snoozed_until = NULL] \in Row
      BY DEF TypeInv, TypeOK, Row, States, OptTime
    <3>2. rows' \in [Ids -> Row]
      BY <2>2, <3>1, WakeEffect DEF TypeInv, TypeOK
    <3> QED BY <2>2, <3>2, TableKeepsTypeInv DEF Wake
  <2>3. CASE Expire(locked)
    <3>1. \A id \in Ids : [rows[id] EXCEPT !.state = "expired"] \in Row
      BY DEF TypeInv, TypeOK, Row, States
    <3>2. rows' \in [Ids -> Row]
      BY <2>3, <3>1, ExpireEffect DEF TypeInv, TypeOK
    <3> QED BY <2>3, <3>2, TableKeepsTypeInv DEF Expire
  <2> QED BY <2>1, <2>2, <2>3
<1>6. CASE \E i \in Instances :
             \/ \E locked \in SUBSET Ids : SelectDue(i, locked)
             \/ Escalate(i)
             \/ AbandonPass(i)
  BY <1>6, PassType
<1>7. CASE Tick
  BY <1>7 DEF Tick, TypeInv, TypeOK, CurInHand
<1>8. CASE UNCHANGED vars
  BY <1>8 DEF vars, TypeInv, TypeOK, CurInHand
<1> QED
  BY <1>1, <1>2, <1>3, <1>4, <1>5, <1>6, <1>7, <1>8 DEF Next

LEMMA AlwaysTypeInv == Spec => []TypeInv
BY InitTypeInv, NextTypeInv, PTL DEF Spec

\* Every reachable state of the store is well typed, for any number of rows,
\* users and instances.
THEOREM TypeCorrect == Spec => []TypeOK
BY AlwaysTypeInv, PTL DEF TypeInv

-----------------------------------------------------------------------------
(* Rows on their own: a snoozed row has a deadline, an unseen row no       *)
(* seen_at.  Inductive given the types.                                    *)

LEMMA InitColumnsFit == Init => ColumnsFitState
BY DEF Init, ColumnsFitState, In, Absent

\* A step after which each row is the old one, is in neither of the two
\* states, or has just been put into one of them properly, keeps ColumnsFitState.
LEMMA RowStep ==
  ASSUME TypeInv, ColumnsFitState,
         \A id \in Ids :
           \/ rows'[id] = rows[id]
           \/ rows'[id].state \notin {"snoozed", "unseen"}
           \/ rows'[id].state = "snoozed" /\ rows'[id].snoozed_until # NULL
           \/ rows'[id].state = "unseen" /\ ~rows'[id].seen_at
  PROVE  ColumnsFitState'
BY DEF ColumnsFitState, In

LEMMA UserCallColumnsFit ==
  ASSUME TypeInv, ColumnsFitState, NEW user \in Users, UserCall(user)
  PROVE  ColumnsFitState'
<1> USE DEF TypeInv, TypeOK
<1>1. CASE \E ids \in SUBSET Ids :
             \/ MarkSeen(user, ids)
             \/ MarkRead(user, ids)
             \/ ProducerMarkRead(user, ids)
             \/ MarkUnread(user, ids)
             \/ Archive(user, ids)
             \/ Unarchive(user, ids)
  <2>1. PICK ids \in SUBSET Ids :
             \/ MarkSeen(user, ids)
             \/ MarkRead(user, ids)
             \/ ProducerMarkRead(user, ids)
             \/ MarkUnread(user, ids)
             \/ Archive(user, ids)
             \/ Unarchive(user, ids)
    BY <1>1
  <2> SUFFICES \A id \in Ids :
                 \/ rows'[id] = rows[id]
                 \/ rows'[id].state \notin {"snoozed", "unseen"}
    BY RowStep
  <2>2. CASE MarkSeen(user, ids) BY <2>2 DEF MarkSeen, Row
  <2>3. CASE MarkRead(user, ids) BY <2>3 DEF MarkRead, Row
  <2>4. CASE ProducerMarkRead(user, ids) BY <2>4 DEF ProducerMarkRead, Row
  <2>5. CASE MarkUnread(user, ids) BY <2>5 DEF MarkUnread, Row
  <2>6. CASE Archive(user, ids) BY <2>6 DEF Archive, Row
  <2>7. CASE Unarchive(user, ids) BY <2>7 DEF Unarchive, Row
  <2> QED BY <2>1, <2>2, <2>3, <2>4, <2>5, <2>6, <2>7
<1>2. CASE \E id \in Ids, d \in SnoozeOffsets : Snooze(user, id, now + d)
  <2>1. PICK snoozed \in Ids, d \in SnoozeOffsets : Snooze(user, snoozed, now + d)
    BY <1>2
  <2>2. now + d # NULL
    BY NullAssumption, BoundAssumption DEF TypeInv, TypeOK
  <2>3. /\ rows'[snoozed].state = "snoozed"
        /\ rows'[snoozed].snoozed_until = now + d
        /\ \A id \in Ids : id # snoozed => rows'[id] = rows[id]
    BY <2>1 DEF Snooze, Row
  <2> QED BY <2>2, <2>3, RowStep
<1>3. CASE \E service \in Services : ArchiveAllInGroup(user, service)
  <2>1. \A id \in Ids : \/ rows'[id] = rows[id]
                        \/ rows'[id].state \notin {"snoozed", "unseen"}
    BY <1>3 DEF ArchiveAllInGroup, Row
  <2> QED BY <2>1, RowStep
<1> QED
  BY <1>1, <1>2, <1>3 DEF UserCall

LEMMA NextColumnsFit == TypeInv /\ ColumnsFitState /\ [Next]_vars => ColumnsFitState'
<1> SUFFICES ASSUME TypeInv, ColumnsFitState, [Next]_vars PROVE ColumnsFitState'
  OBVIOUS
<1> USE DEF TypeInv, TypeOK
<1>1. CASE \E id \in Ids, deliver \in BOOLEAN, config \in TypeConfigs :
             Insert(id, deliver, config)
  <2>1. \A id \in Ids :
          \/ rows'[id] = rows[id]
          \/ rows'[id].state = "archived"
          \/ rows'[id].state = "unseen" /\ ~rows'[id].seen_at
    BY <1>1 DEF Insert, Absent
  <2> QED BY <2>1, RowStep
<1>2. CASE \E user \in Users : UserCall(user)
  BY <1>2, UserCallColumnsFit
<1>3. CASE \E id \in Ids : AdminResurface(id)
  <2>1. \A id \in Ids :
          \/ rows'[id] = rows[id]
          \/ rows'[id].state = "unseen" /\ ~rows'[id].seen_at
    BY <1>3 DEF AdminResurface, Resurfaced, Row
  <2> QED BY <2>1, RowStep
<1>4. CASE \E locked \in SUBSET Ids : Wake(locked) \/ Expire(locked)
  <2>1. \A id \in Ids : \/ rows'[id] = rows[id]
                        \/ rows'[id].state \notin {"snoozed", "unseen"}
    <3>1. PICK locked \in SUBSET Ids : Wake(locked) \/ Expire(locked)
      BY <1>4
    <3>2. CASE Wake(locked) BY <3>2 DEF Wake, Row
    <3>3. CASE Expire(locked) BY <3>3 DEF Expire, Row
    <3> QED BY <3>1, <3>2, <3>3
  <2> QED BY <2>1, RowStep
<1>5. ASSUME NEW i \in Instances, UpdateEscalation(i)
      PROVE  ColumnsFitState'
  <2>1. \A id \in Ids : /\ rows'[id].state = rows[id].state
                        /\ rows'[id].snoozed_until = rows[id].snoozed_until
                        /\ rows'[id].seen_at = rows[id].seen_at
    BY <1>5 DEF UpdateEscalation, Row
  <2> QED
    BY <2>1 DEF ColumnsFitState, In
<1>6. ASSUME NEW i \in Instances, EscalationAction(i)
      PROVE  ColumnsFitState'
  <2>1. \A id \in Ids :
          \/ rows'[id] = rows[id]
          \/ rows'[id].state = "unseen" /\ ~rows'[id].seen_at
    BY <1>6 DEF EscalationAction, Resurfaced, Row
  <2> QED BY <2>1, RowStep
<1>7. CASE rows' = rows
  BY <1>7, RowStep
<1> QED
  <2>1. ASSUME NEW i \in Instances, \/ \E locked \in SUBSET Ids : SelectDue(i, locked)
                                    \/ LookupType(i) \/ AbandonPass(i)
        PROVE  rows' = rows
    BY <2>1 DEF SelectDue, LookupType, AbandonPass
  <2>2. ASSUME \/ \E t \in Types, config \in TypeConfigs : UpdateType(t, config)
               \/ Tick \/ UNCHANGED vars
        PROVE  rows' = rows
    BY <2>2 DEF UpdateType, Tick, vars
  <2> QED
    BY <1>1, <1>2, <1>3, <1>4, <1>5, <1>6, <1>7, <2>1, <2>2 DEF Next, Escalate

\* No interleaving of calls, wake-ups, expiries and escalation passes leaves
\* a row snoozed without a time at which the wake-up loop would find it, nor an
\* unseen row that still carries the time it was seen.
THEOREM ColumnsFit == Spec => []ColumnsFitState
BY AlwaysTypeInv, InitColumnsFit, NextColumnsFit, PTL DEF Spec

-----------------------------------------------------------------------------
(* The escalation budget.  A pass may write the count of a snapshot into a *)
(* row that has moved on, so the bound has to hold of snapshots too: a row *)
(* on the schedule, and a row some pass still holds a snapshot of, has     *)
(* room for one more escalation under settings its type has had.           *)

Room(id, n) == \E c \in past[TypeOf[id]] : n < c.max

RowsWithinBudget ==
  \A id \in Ids :
    /\ rows[id].escalation_count = 0 \/ Room(id, rows[id].escalation_count - 1)
    /\ rows[id].next_escalation_at # NULL => Room(id, rows[id].escalation_count)

PassesWithinBudget ==
  \A i \in Instances :
    /\ \A d \in esc[i].due : Room(d.id, d.count)
    /\ esc[i].stage = "count" /\ esc[i].next # NULL
         => Room(esc[i].cur.id, esc[i].cur.count + 1)

CurrentIsPast == \A t \in Types : types[t] \in past[t]

BudgetInv == RowsWithinBudget /\ PassesWithinBudget /\ CurrentIsPast

LEMMA BudgetBounds == TypeInv /\ BudgetInv => CountWithinSettings
BY IdsAssumption, ConfigAssumption
   DEF TypeInv, TypeOK, BudgetInv, RowsWithinBudget, Room, CountWithinSettings, Row, TypeConfig

LEMMA InitBudget == Init => BudgetInv
BY DEF Init, BudgetInv, RowsWithinBudget, PassesWithinBudget, CurrentIsPast,
       Absent, Idle

\* Statements that touch neither counts, schedules, passes nor types.
LEMMA BudgetUntouched ==
  ASSUME BudgetInv, UNCHANGED <<types, past, esc>>,
         \A id \in Ids :
           /\ rows'[id].escalation_count = rows[id].escalation_count
           /\ rows'[id].next_escalation_at = rows[id].next_escalation_at
  PROVE  BudgetInv'
BY DEF BudgetInv, RowsWithinBudget, PassesWithinBudget, CurrentIsPast, Room

LEMMA InsertBudget ==
  ASSUME TypeInv, BudgetInv, NEW new \in Ids, NEW deliver \in BOOLEAN,
         NEW config \in TypeConfigs, Insert(new, deliver, config)
  PROVE  BudgetInv'
<1>1. UNCHANGED <<types, past, esc>>
  BY DEF Insert, Table
<1>2. \A id \in Ids : id # new => rows'[id] = rows[id]
  BY DEF Insert, TypeInv, TypeOK
<1>3. /\ rows'[new].escalation_count = 0
      /\ rows'[new].next_escalation_at # NULL => Room(new, 0)
  BY DEF Insert, TypeInv, TypeOK, Absent, Room
<1>4. RowsWithinBudget'
  BY <1>1, <1>2, <1>3 DEF BudgetInv, RowsWithinBudget, Room
<1> QED
  BY <1>1, <1>4 DEF BudgetInv, PassesWithinBudget, CurrentIsPast, Room

\* No call of a user touches an escalation column.
LEMMA UserCallKeepsEscalation ==
  ASSUME TypeInv, NEW user \in Users, UserCall(user)
  PROVE  /\ Table
         /\ \A id \in Ids :
              /\ rows'[id].escalation_count = rows[id].escalation_count
              /\ rows'[id].next_escalation_at = rows[id].next_escalation_at
<1> USE DEF TypeInv, TypeOK, Row
<1>1. CASE \E ids \in SUBSET Ids :
             \/ MarkSeen(user, ids)
             \/ MarkRead(user, ids)
             \/ ProducerMarkRead(user, ids)
             \/ MarkUnread(user, ids)
             \/ Archive(user, ids)
             \/ Unarchive(user, ids)
  <2>1. PICK ids \in SUBSET Ids :
             \/ MarkSeen(user, ids)
             \/ MarkRead(user, ids)
             \/ ProducerMarkRead(user, ids)
             \/ MarkUnread(user, ids)
             \/ Archive(user, ids)
             \/ Unarchive(user, ids)
    BY <1>1
  <2>2. CASE MarkSeen(user, ids) BY <2>2 DEF MarkSeen
  <2>3. CASE MarkRead(user, ids) BY <2>3 DEF MarkRead
  <2>4. CASE ProducerMarkRead(user, ids) BY <2>4 DEF ProducerMarkRead
  <2>5. CASE MarkUnread(user, ids) BY <2>5 DEF MarkUnread
  <2>6. CASE Archive(user, ids) BY <2>6 DEF Archive
  <2>7. CASE Unarchive(user, ids) BY <2>7 DEF Unarchive
  <2> QED BY <2>1, <2>2, <2>3, <2>4, <2>5, <2>6, <2>7
<1>2. CASE \E id \in Ids, d \in SnoozeOffsets : Snooze(user, id, now + d)
  BY <1>2 DEF Snooze
<1>3. CASE \E service \in Services : ArchiveAllInGroup(user, service)
  BY <1>3 DEF ArchiveAllInGroup
<1> QED
  BY <1>1, <1>2, <1>3 DEF UserCall

\* Nor does a resurface, a wake-up or an expiry.
LEMMA OtherCallsKeepEscalation ==
  ASSUME TypeInv,
         \/ \E id \in Ids : AdminResurface(id)
         \/ \E locked \in SUBSET Ids : Wake(locked) \/ Expire(locked)
  PROVE  /\ Table
         /\ \A id \in Ids :
              /\ rows'[id].escalation_count = rows[id].escalation_count
              /\ rows'[id].next_escalation_at = rows[id].next_escalation_at
<1> USE DEF TypeInv, TypeOK, Row
<1>1. CASE \E id \in Ids : AdminResurface(id)
  <2>1. PICK shown \in Ids : AdminResurface(shown)
    BY <1>1
  <2>2. /\ rows'[shown] = Resurfaced(rows[shown])
        /\ \A id \in Ids : id # shown => rows'[id] = rows[id]
    BY <2>1 DEF AdminResurface
  <2> QED BY <2>1, <2>2, ResurfacedType DEF AdminResurface
<1>2. CASE \E locked \in SUBSET Ids : Wake(locked) \/ Expire(locked)
  <2>1. PICK locked \in SUBSET Ids : Wake(locked) \/ Expire(locked)
    BY <1>2
  <2>2. CASE Wake(locked) BY <2>2, WakeEffect
  <2>3. CASE Expire(locked) BY <2>3, ExpireEffect
  <2> QED BY <2>1, <2>2, <2>3
<1> QED
  BY <1>1, <1>2

LEMMA PassBudget ==
  ASSUME TypeInv, BudgetInv, NEW i \in Instances,
         (\E locked \in SUBSET Ids : SelectDue(i, locked)) \/ Escalate(i)
           \/ AbandonPass(i)
  PROVE  BudgetInv'
<1> USE DEF TypeInv, TypeOK, BudgetInv
<1>1. CASE \E locked \in SUBSET Ids : SelectDue(i, locked)
  <2>1. PICK locked \in SUBSET Ids : SelectDue(i, locked)
    BY <1>1
  <2>2. PICK batch \in SUBSET DueToEscalate :
          esc' = [esc EXCEPT ![i] = [@ EXCEPT !.stage = "lookup",
            !.due = { [id    |-> id,
                       count |-> rows[id].escalation_count,
                       at    |-> rows[id].next_escalation_at] : id \in batch }]]
    BY <2>1 DEF SelectDue, Batches
  <2>3. \A id \in batch : Room(id, rows[id].escalation_count)
    BY <2>2 DEF DueToEscalate, In, Reached, RowsWithinBudget
  <2>4. \A d \in { [id    |-> id,
                    count |-> rows[id].escalation_count,
                    at    |-> rows[id].next_escalation_at] : id \in batch } :
          Room(d.id, d.count)
    BY <2>3
  <2>5. PassesWithinBudget'
    BY <2>1, <2>2, <2>4 DEF SelectDue, PassesWithinBudget, Room, Pass
  <2> QED
    BY <2>1, <2>5 DEF SelectDue, RowsWithinBudget, CurrentIsPast, Room
<1>2. CASE LookupType(i)
  <2>1. PICK d \in esc[i].due :
          LET nt == types[TypeOf[d.id]]
          IN  esc' = [esc EXCEPT ![i] = [@ EXCEPT
                !.stage = "count",
                !.cur = d,
                !.next = IF d.count + 1 < nt.max THEN After(nt.interval) ELSE NULL,
                !.action = nt.action]]
    BY <1>2 DEF LookupType
  <2>2. d \in Snapshot /\ types[TypeOf[d.id]] \in past[TypeOf[d.id]]
    BY IdsAssumption DEF Pass, Snapshot, CurrentIsPast
  <2>3. /\ esc'[i].due = esc[i].due
        /\ esc'[i].cur = d
        /\ esc'[i].next # NULL => d.count + 1 < types[TypeOf[d.id]].max
        /\ \A j \in Instances : j # i => esc'[j] = esc[j]
    BY <2>1 DEF Pass
  <2>4. PassesWithinBudget'
    BY <1>2, <2>2, <2>3 DEF LookupType, PassesWithinBudget, Room
  <2> QED
    BY <1>2, <2>4 DEF LookupType, RowsWithinBudget, CurrentIsPast, Room
<1>3. CASE UpdateEscalation(i)
  <2>1. /\ esc[i].cur \in esc[i].due
        /\ esc[i].cur \in Snapshot
    BY <1>3 DEF UpdateEscalation, CurInHand, Pass
  <2>2. /\ Room(esc[i].cur.id, esc[i].cur.count)
        /\ esc[i].next # NULL => Room(esc[i].cur.id, esc[i].cur.count + 1)
    BY <1>3, <2>1 DEF UpdateEscalation, PassesWithinBudget
  <2>3. /\ rows'[esc[i].cur.id].escalation_count = esc[i].cur.count + 1
        /\ rows'[esc[i].cur.id].next_escalation_at = esc[i].next
        /\ \A id \in Ids : id # esc[i].cur.id => rows'[id] = rows[id]
    BY <1>3, <2>1 DEF UpdateEscalation, Row, Snapshot
  <2>4. RowsWithinBudget'
    <3>1. UNCHANGED past /\ esc[i].cur.count \in Nat
      BY <1>3, <2>1 DEF UpdateEscalation, Snapshot
    <3>2. \A id, n : Room(id, n)' <=> Room(id, n)
      BY <3>1 DEF Room
    <3>3. ASSUME NEW id \in Ids
          PROVE  /\ \/ rows'[id].escalation_count = 0
                    \/ Room(id, rows'[id].escalation_count - 1)
                 /\ rows'[id].next_escalation_at # NULL
                      => Room(id, rows'[id].escalation_count)
      <4>1. CASE id = esc[i].cur.id
        <5>1. rows'[id].escalation_count - 1 = esc[i].cur.count
          BY <2>3, <3>1, <4>1
        <5>2. Room(id, rows'[id].escalation_count - 1)
          BY <2>2, <4>1, <5>1
        <5> QED BY <2>2, <2>3, <4>1, <5>2
      <4>2. CASE id # esc[i].cur.id
        BY <2>3, <4>2 DEF RowsWithinBudget
      <4> QED BY <4>1, <4>2
    <3> QED BY <3>2, <3>3 DEF RowsWithinBudget
  <2>5. PassesWithinBudget'
    <3>1. \A j \in Instances : /\ esc'[j].due = esc[j].due
                               /\ esc'[j].cur = esc[j].cur
                               /\ esc'[j].next = esc[j].next
                               /\ esc'[j].stage = "count" => esc[j].stage = "count"
      BY <1>3 DEF UpdateEscalation, Pass
    <3> QED BY <1>3, <3>1 DEF UpdateEscalation, PassesWithinBudget, Room
  <2> QED
    BY <1>3, <2>4, <2>5 DEF UpdateEscalation, CurrentIsPast
<1>4. CASE EscalationAction(i)
  <2>1. /\ esc'[i].due \subseteq esc[i].due
        /\ esc'[i].stage # "count"
        /\ \A j \in Instances : j # i => esc'[j] = esc[j]
    BY <1>4 DEF EscalationAction, Idle
  <2>2. PassesWithinBudget'
    BY <1>4, <2>1 DEF EscalationAction, PassesWithinBudget, Room
  <2>3. \A id \in Ids :
          /\ rows'[id].escalation_count = rows[id].escalation_count
          /\ rows'[id].next_escalation_at = rows[id].next_escalation_at
    BY <1>4 DEF EscalationAction, Resurfaced, Row
  <2> QED
    BY <1>4, <2>2, <2>3 DEF EscalationAction, RowsWithinBudget, CurrentIsPast, Room
<1>5. CASE AbandonPass(i)
  <2>1. PassesWithinBudget'
    BY <1>5 DEF AbandonPass, PassesWithinBudget, Room, Idle
  <2> QED
    BY <1>5, <2>1 DEF AbandonPass, RowsWithinBudget, CurrentIsPast, Room
<1> QED
  BY <1>1, <1>2, <1>3, <1>4, <1>5 DEF Escalate

LEMMA NextBudget == TypeInv /\ BudgetInv /\ [Next]_vars => BudgetInv'
<1> SUFFICES ASSUME TypeInv, BudgetInv, [Next]_vars PROVE BudgetInv'
  OBVIOUS
<1>1. CASE \E id \in Ids, deliver \in BOOLEAN, config \in TypeConfigs :
             Insert(id, deliver, config)
  BY <1>1, InsertBudget
<1>2. CASE \E user \in Users : UserCall(user)
  BY <1>2, UserCallKeepsEscalation, BudgetUntouched DEF Table
<1>3. CASE \/ \E id \in Ids : AdminResurface(id)
           \/ \E locked \in SUBSET Ids : Wake(locked) \/ Expire(locked)
  BY <1>3, OtherCallsKeepEscalation, BudgetUntouched DEF Table
<1>4. CASE \E t \in Types, config \in TypeConfigs : UpdateType(t, config)
  <2>1. \A t \in Types : past[t] \subseteq past'[t]
    BY <1>4 DEF UpdateType, TypeInv, TypeOK
  <2>2. \A id \in Ids : \A n : Room(id, n) => Room(id, n)'
    BY <2>1, IdsAssumption DEF Room
  <2>3. RowsWithinBudget'
    BY <1>4, <2>2 DEF UpdateType, BudgetInv, RowsWithinBudget
  <2>4. PassesWithinBudget'
    <3>1. UNCHANGED esc
      BY <1>4 DEF UpdateType
    <3>2. \A i \in Instances : /\ \A d \in esc[i].due : d.id \in Ids
                               /\ esc[i].stage = "count" => esc[i].cur.id \in Ids
      BY DEF TypeInv, TypeOK, CurInHand, Pass, Snapshot
    <3> QED BY <2>2, <3>1, <3>2 DEF BudgetInv, PassesWithinBudget
  <2>5. CurrentIsPast'
    BY <1>4 DEF UpdateType, BudgetInv, CurrentIsPast, TypeInv, TypeOK
  <2> QED BY <2>3, <2>4, <2>5 DEF BudgetInv
<1>5. CASE \E i \in Instances :
             \/ \E locked \in SUBSET Ids : SelectDue(i, locked)
             \/ Escalate(i)
             \/ AbandonPass(i)
  BY <1>5, PassBudget
<1>6. CASE Tick \/ UNCHANGED vars
  BY <1>6, BudgetUntouched DEF Tick, vars
<1> QED
  BY <1>1, <1>2, <1>3, <1>4, <1>5, <1>6 DEF Next

\* However many instances run passes over the same rows, with whatever stale
\* counts and edited settings, the column escalation_count stays within some
\* settings the type has had.  (The reminders given may be more.)
THEOREM CountIsBounded == Spec => []CountWithinSettings
BY AlwaysTypeInv, InitBudget, NextBudget, BudgetBounds, PTL DEF Spec

-----------------------------------------------------------------------------
(* One instance.  With a single scheduler nobody else writes a row's count *)
(* while a pass holds its snapshot, so the snapshot stays what the row     *)
(* holds until the pass has written it; between that write and the action  *)
(* the reminder of the new count is still owed.                            *)

AbsentUncounted == \A id \in Ids : rows[id].state = "none" => rows[id].escalation_count = 0

Written(i, d) == esc[i].stage = "act" /\ d = esc[i].cur

Current(i) ==
  \A d \in esc[i].due :
    /\ rows[d.id].state # "none"
    /\ ~Written(i, d) => /\ rows[d.id].escalation_count = d.count
                         /\ rows[d.id].next_escalation_at = d.at
    /\ Written(i, d) => /\ rows[d.id].escalation_count = d.count + 1
                        /\ reminders[d.id] <= d.count
    /\ \A e \in esc[i].due : e.id = d.id => e = d

CurrentInv ==
  /\ AbsentUncounted
  /\ \A i \in Instances : Current(i)
  /\ RemindersWithinCount

LEMMA InitCurrent == Init => CurrentInv
BY DEF Init, CurrentInv, AbsentUncounted, Current, RemindersWithinCount, Idle, Absent

\* A step that leaves passes and reminders alone and changes no escalation
\* column of a row that is in the table.
LEMMA CurrentUntouched ==
  ASSUME TypeInv, CurrentInv, UNCHANGED <<esc, reminders>>,
         \A id \in Ids :
           /\ rows[id].state # "none" => rows'[id].state # "none"
           /\ rows'[id].escalation_count = rows[id].escalation_count
           /\ \/ rows[id].state = "none"
              \/ rows'[id].next_escalation_at = rows[id].next_escalation_at
  PROVE  CurrentInv'
<1>1. \A i \in Instances : \A d \in esc[i].due : d.id \in Ids
  BY DEF TypeInv, TypeOK, Pass, Snapshot
<1>2. AbsentUncounted' /\ RemindersWithinCount'
  BY DEF CurrentInv, AbsentUncounted, RemindersWithinCount
<1>3. ASSUME NEW i \in Instances PROVE Current(i)'
  BY <1>1 DEF CurrentInv, Current, Written
<1> QED BY <1>2, <1>3 DEF CurrentInv

\* No statement of a user puts a row into the table or takes one out of it.
LEMMA UserCallKeepsRows ==
  ASSUME TypeInv, NEW user \in Users, UserCall(user)
  PROVE  \A id \in Ids : rows[id].state = "none" <=> rows'[id].state = "none"
<1> USE DEF TypeInv, TypeOK, Row, In
<1>1. CASE \E ids \in SUBSET Ids :
             \/ MarkSeen(user, ids)
             \/ MarkRead(user, ids)
             \/ ProducerMarkRead(user, ids)
             \/ MarkUnread(user, ids)
             \/ Archive(user, ids)
             \/ Unarchive(user, ids)
  <2>1. PICK ids \in SUBSET Ids :
             \/ MarkSeen(user, ids)
             \/ MarkRead(user, ids)
             \/ ProducerMarkRead(user, ids)
             \/ MarkUnread(user, ids)
             \/ Archive(user, ids)
             \/ Unarchive(user, ids)
    BY <1>1
  <2>2. CASE MarkSeen(user, ids) BY <2>2 DEF MarkSeen
  <2>3. CASE MarkRead(user, ids) BY <2>3 DEF MarkRead
  <2>4. CASE ProducerMarkRead(user, ids) BY <2>4 DEF ProducerMarkRead
  <2>5. CASE MarkUnread(user, ids) BY <2>5 DEF MarkUnread
  <2>6. CASE Archive(user, ids) BY <2>6 DEF Archive, Archivable
  <2>7. CASE Unarchive(user, ids) BY <2>7 DEF Unarchive
  <2> QED BY <2>1, <2>2, <2>3, <2>4, <2>5, <2>6, <2>7
<1>2. CASE \E id \in Ids, d \in SnoozeOffsets : Snooze(user, id, now + d)
  BY <1>2 DEF Snooze
<1>3. CASE \E service \in Services : ArchiveAllInGroup(user, service)
  BY <1>3 DEF ArchiveAllInGroup, Archivable
<1> QED
  BY <1>1, <1>2, <1>3 DEF UserCall

LEMMA OtherCallsKeepRows ==
  ASSUME TypeInv,
         \/ \E id \in Ids : AdminResurface(id)
         \/ \E locked \in SUBSET Ids : Wake(locked) \/ Expire(locked)
  PROVE  \A id \in Ids : rows[id].state = "none" <=> rows'[id].state = "none"
<1> USE DEF TypeInv, TypeOK, In, Row
<1>1. CASE \E id \in Ids : AdminResurface(id)
  BY <1>1, ResurfacedType DEF AdminResurface
<1>2. CASE \E locked \in SUBSET Ids : Wake(locked) \/ Expire(locked)
  <2>1. PICK locked \in SUBSET Ids : Wake(locked) \/ Expire(locked)
    BY <1>2
  <2>2. CASE Wake(locked)
    <3>1. PICK batch \in SUBSET DueToWake :
            rows' = [id \in Ids |->
              IF id \in batch
                THEN [rows[id] EXCEPT !.state = "unread", !.snoozed_until = NULL]
                ELSE rows[id]]
      BY <2>2 DEF Wake, Batches
    <3> QED BY <3>1 DEF DueToWake
  <2>3. CASE Expire(locked)
    <3>1. PICK batch \in SUBSET DueToExpire :
            rows' = [id \in Ids |->
              IF id \in batch THEN [rows[id] EXCEPT !.state = "expired"]
                              ELSE rows[id]]
      BY <2>3 DEF Expire, Batches
    <3> QED BY <3>1 DEF DueToExpire
  <2> QED BY <2>1, <2>2, <2>3
<1> QED
  BY <1>1, <1>2

\* What the steps of a pass do to the row in hand and to the others.
LEMMA UpdateEscalationEffect ==
  ASSUME TypeInv, NEW i \in Instances, UpdateEscalation(i)
  PROVE  LET d == esc[i].cur IN
         /\ d \in esc[i].due /\ d \in Snapshot
         /\ rows'[d.id].state = rows[d.id].state
         /\ rows'[d.id].escalation_count = d.count + 1
         /\ rows'[d.id].next_escalation_at = esc[i].next
         /\ \A id \in Ids : id # d.id => rows'[id] = rows[id]
         /\ esc'[i].due = esc[i].due /\ esc'[i].cur = d /\ esc'[i].stage = "act"
<1>1. esc[i].cur \in esc[i].due /\ esc[i].cur \in Snapshot
  BY DEF UpdateEscalation, TypeInv, TypeOK, CurInHand, Pass
<1> QED
  BY <1>1 DEF UpdateEscalation, TypeInv, TypeOK, Row, Snapshot, Pass

LEMMA EscalationActionEffect ==
  ASSUME TypeInv, NEW i \in Instances, EscalationAction(i)
  PROVE  LET d == esc[i].cur IN
         /\ d \in esc[i].due /\ d \in Snapshot
         /\ \A id \in Ids :
              /\ rows'[id].state = rows[id].state \/ rows'[id].state = "unseen"
              /\ rows'[id].escalation_count = rows[id].escalation_count
              /\ rows'[id].next_escalation_at = rows[id].next_escalation_at
              /\ id # d.id => rows'[id] = rows[id]
         /\ reminders'[d.id] = reminders[d.id] + 1
         /\ \A id \in Ids : id # d.id => reminders'[id] = reminders[id]
         /\ esc'[i].due = esc[i].due \ {d} /\ esc'[i].stage # "act"
<1>1. esc[i].cur \in esc[i].due /\ esc[i].cur \in Snapshot
  BY DEF EscalationAction, TypeInv, TypeOK, CurInHand, Pass
<1>2. \A id \in Ids :
        /\ rows'[id].state = rows[id].state \/ rows'[id].state = "unseen"
        /\ rows'[id].escalation_count = rows[id].escalation_count
        /\ rows'[id].next_escalation_at = rows[id].next_escalation_at
        /\ id # esc[i].cur.id => rows'[id] = rows[id]
  BY ResurfacedType DEF EscalationAction, TypeInv, TypeOK
<1>3. esc'[i].due = esc[i].due \ {esc[i].cur} /\ esc'[i].stage # "act"
  BY DEF EscalationAction, TypeInv, TypeOK, Idle
<1>4. /\ reminders'[esc[i].cur.id] = reminders[esc[i].cur.id] + 1
      /\ \A id \in Ids : id # esc[i].cur.id => reminders'[id] = reminders[id]
  BY <1>1 DEF EscalationAction, TypeInv, TypeOK, Snapshot
<1> QED BY <1>1, <1>2, <1>3, <1>4

LEMMA PassCurrent ==
  ASSUME TypeInv, CurrentInv, NEW i, Instances = {i},
         (\E locked \in SUBSET Ids : SelectDue(i, locked)) \/ Escalate(i)
           \/ AbandonPass(i)
  PROVE  CurrentInv'
<1> SUFFICES AbsentUncounted' /\ Current(i)' /\ RemindersWithinCount'
  BY DEF CurrentInv
<1>0. i \in Instances /\ Current(i) /\ AbsentUncounted /\ RemindersWithinCount
  BY DEF CurrentInv
<1>1. CASE \E locked \in SUBSET Ids : SelectDue(i, locked)
  <2>1. PICK locked \in SUBSET Ids : SelectDue(i, locked)
    BY <1>1
  <2>2. PICK batch \in SUBSET DueToEscalate :
          esc' = [esc EXCEPT ![i] = [@ EXCEPT !.stage = "lookup",
            !.due = { [id    |-> id,
                       count |-> rows[id].escalation_count,
                       at    |-> rows[id].next_escalation_at] : id \in batch }]]
    BY <2>1 DEF SelectDue, Batches
  <2>3. /\ esc'[i].stage = "lookup"
        /\ esc'[i].due = { [id    |-> id,
                            count |-> rows[id].escalation_count,
                            at    |-> rows[id].next_escalation_at] : id \in batch }
    BY <1>0, <2>2 DEF TypeInv, TypeOK, Pass
  <2>4. \A id \in batch : rows[id].state # "none"
    BY <2>2 DEF DueToEscalate, In
  <2>5. UNCHANGED <<rows, reminders>>
    BY <2>1 DEF SelectDue
  <2>6. Current(i)'
    BY <2>3, <2>4, <2>5 DEF Current, Written
  <2> QED BY <1>0, <2>5, <2>6 DEF AbsentUncounted, RemindersWithinCount
<1>2. CASE LookupType(i)
  <2>1. /\ esc'[i].due = esc[i].due /\ esc'[i].stage = "count"
        /\ esc[i].stage = "lookup"
        /\ UNCHANGED <<rows, reminders>>
    BY <1>0, <1>2 DEF LookupType, TypeInv, TypeOK, Pass
  <2> QED
    BY <1>0, <2>1 DEF Current, Written, AbsentUncounted, RemindersWithinCount
<1>3. CASE UpdateEscalation(i)
  <2> DEFINE d == esc[i].cur
  <2>1. /\ d \in esc[i].due /\ d \in Snapshot
        /\ rows'[d.id].state = rows[d.id].state
        /\ rows'[d.id].escalation_count = d.count + 1
        /\ \A id \in Ids : id # d.id => rows'[id] = rows[id]
        /\ esc'[i].due = esc[i].due /\ esc'[i].cur = d /\ esc'[i].stage = "act"
    BY <1>0, <1>3, UpdateEscalationEffect
  <2>2. esc[i].stage = "count" /\ UNCHANGED reminders
    BY <1>3 DEF UpdateEscalation
  <2>3. /\ rows[d.id].escalation_count = d.count
        /\ rows[d.id].state # "none"
        /\ \A e \in esc[i].due : e.id = d.id => e = d
    BY <1>0, <2>1, <2>2 DEF Current, Written
  <2>4. d.id \in Ids /\ d.count \in Nat /\ reminders[d.id] <= d.count
    BY <1>0, <2>1, <2>3 DEF Snapshot, RemindersWithinCount
  <2>5. AbsentUncounted' /\ RemindersWithinCount'
    BY <1>0, <2>1, <2>2, <2>3, <2>4
       DEF AbsentUncounted, RemindersWithinCount, TypeInv, TypeOK
  <2>6. ASSUME NEW e \in esc[i].due
        PROVE  /\ rows'[e.id].state # "none"
               /\ e # d => /\ rows'[e.id].escalation_count = e.count
                           /\ rows'[e.id].next_escalation_at = e.at
               /\ e = d => /\ rows'[e.id].escalation_count = e.count + 1
                           /\ reminders'[e.id] <= e.count
    <3>1. e.id \in Ids
      BY <1>0 DEF TypeInv, TypeOK, Pass, Snapshot
    <3>2. CASE e = d
      BY <2>1, <2>2, <2>3, <2>4, <3>2
    <3>3. CASE e # d
      <4>1. e.id # d.id
        BY <2>3, <3>3
      <4> QED BY <1>0, <2>1, <2>2, <3>1, <3>3, <4>1 DEF Current, Written
    <3> QED BY <3>2, <3>3
  <2>7. Current(i)'
    BY <1>0, <2>1, <2>6 DEF Current, Written
  <2> QED BY <2>5, <2>7
<1>4. CASE EscalationAction(i)
  <2> DEFINE d == esc[i].cur
  <2>1. /\ d \in esc[i].due /\ d \in Snapshot
        /\ \A id \in Ids :
             /\ rows'[id].state = rows[id].state \/ rows'[id].state = "unseen"
             /\ rows'[id].escalation_count = rows[id].escalation_count
             /\ rows'[id].next_escalation_at = rows[id].next_escalation_at
        /\ reminders'[d.id] = reminders[d.id] + 1
        /\ \A id \in Ids : id # d.id => reminders'[id] = reminders[id]
        /\ esc'[i].due = esc[i].due \ {d} /\ esc'[i].stage # "act"
    BY <1>0, <1>4, EscalationActionEffect
  <2>2. /\ rows[d.id].escalation_count = d.count + 1
        /\ reminders[d.id] <= d.count
        /\ d.id \in Ids /\ d.count \in Nat
    BY <1>0, <1>4, <2>1 DEF EscalationAction, Current, Written, Snapshot
  <2>3. AbsentUncounted'
    BY <1>0, <2>1 DEF AbsentUncounted
  <2>4. RemindersWithinCount'
    BY <1>0, <2>1, <2>2 DEF RemindersWithinCount, TypeInv, TypeOK
  <2>5. \A e \in esc[i].due : e.id \in Ids
    BY <1>0 DEF TypeInv, TypeOK, Pass, Snapshot
  <2>6. Current(i)'
    BY <1>0, <2>1, <2>5 DEF Current, Written
  <2> QED BY <2>3, <2>4, <2>6
<1>5. CASE AbandonPass(i)
  <2>1. esc'[i] = Idle /\ UNCHANGED <<rows, reminders>>
    BY <1>0, <1>5 DEF AbandonPass, TypeInv, TypeOK
  <2> QED
    BY <1>0, <2>1 DEF Idle, Current, AbsentUncounted, RemindersWithinCount
<1> QED
  BY <1>1, <1>2, <1>3, <1>4, <1>5 DEF Escalate

LEMMA NextCurrent ==
  ASSUME NEW i, Instances = {i}
  PROVE  TypeInv /\ CurrentInv /\ [Next]_vars => CurrentInv'
<1> SUFFICES ASSUME TypeInv, CurrentInv, [Next]_vars PROVE CurrentInv'
  OBVIOUS
<1>1. CASE \E id \in Ids, deliver \in BOOLEAN, config \in TypeConfigs :
             Insert(id, deliver, config)
  <2>1. PICK new \in Ids, deliver \in BOOLEAN, config \in TypeConfigs :
          Insert(new, deliver, config)
    BY <1>1
  <2>2. /\ rows[new].state = "none" /\ rows'[new].escalation_count = 0
        /\ \A id \in Ids : id # new => rows'[id] = rows[id]
        /\ UNCHANGED <<esc, reminders>>
    BY <2>1 DEF Insert, Table, Absent, TypeInv, TypeOK
  <2> QED BY <2>2, CurrentUntouched DEF CurrentInv, AbsentUncounted
<1>2. CASE \E user \in Users : UserCall(user)
  BY <1>2, UserCallKeepsEscalation, UserCallKeepsRows, CurrentUntouched DEF Table
<1>3. CASE \/ \E id \in Ids : AdminResurface(id)
           \/ \E locked \in SUBSET Ids : Wake(locked) \/ Expire(locked)
  BY <1>3, OtherCallsKeepEscalation, OtherCallsKeepRows, CurrentUntouched DEF Table
<1>4. CASE \/ \E t \in Types, config \in TypeConfigs : UpdateType(t, config)
           \/ Tick \/ UNCHANGED vars
  <2>1. UNCHANGED <<rows, esc, reminders>>
    BY <1>4 DEF UpdateType, Tick, vars
  <2> QED BY <2>1, CurrentUntouched
<1>5. CASE \E j \in Instances :
             \/ \E locked \in SUBSET Ids : SelectDue(j, locked)
             \/ Escalate(j)
             \/ AbandonPass(j)
  BY <1>5, PassCurrent
<1> QED
  BY <1>1, <1>2, <1>3, <1>4, <1>5 DEF Next

\* On a deployment of one instance, whatever passes are cut off between the
\* count and the action, no escalation gives its reminder twice.
THEOREM OneInstanceReminders ==
  ASSUME NEW i, Instances = {i}
  PROVE  Spec => []RemindersWithinCount
<1>1. TypeInv /\ CurrentInv /\ [Next]_vars => CurrentInv'
  BY NextCurrent
<1> QED
  BY <1>1, AlwaysTypeInv, InitCurrent, PTL DEF Spec, CurrentInv

\* On such a deployment, therefore, no user is reminded of a row more often
\* than some settings its type has had allow.
RemindersWithinSettings ==
  \A id \in Ids :
    \/ reminders[id] = 0
    \/ \E c \in past[TypeOf[id]] : reminders[id] <= c.max

THEOREM OneInstanceRemindersBounded ==
  ASSUME NEW i, Instances = {i}
  PROVE  Spec => []RemindersWithinSettings
<1>1. TypeInv /\ RemindersWithinCount /\ CountWithinSettings => RemindersWithinSettings
  <2> SUFFICES ASSUME TypeInv, RemindersWithinCount, CountWithinSettings, NEW id \in Ids
               PROVE  \/ reminders[id] = 0
                      \/ \E c \in past[TypeOf[id]] : reminders[id] <= c.max
    BY DEF RemindersWithinSettings
  <2> USE DEF TypeInv, TypeOK, Row
  <2>1. reminders[id] \in Nat /\ rows[id].escalation_count \in Nat
    OBVIOUS
  <2>2. reminders[id] <= rows[id].escalation_count
    BY DEF RemindersWithinCount
  <2>3. CASE rows[id].escalation_count = 0
    BY <2>1, <2>2, <2>3
  <2>4. CASE \E c \in past[TypeOf[id]] : rows[id].escalation_count <= c.max
    <3>1. PICK c \in past[TypeOf[id]] : rows[id].escalation_count <= c.max
      BY <2>4
    <3>2. c.max \in Int
      BY IdsAssumption, ConfigAssumption DEF TypeConfig
    <3> QED BY <2>1, <2>2, <3>1, <3>2
  <2> QED BY <2>3, <2>4 DEF CountWithinSettings
<1>2. Spec => []RemindersWithinCount
  BY OneInstanceReminders
<1> QED
  BY <1>1, <1>2, AlwaysTypeInv, CountIsBounded, PTL

\* The step behind EscalationCountMonotone.
CountNeverBack ==
  \A id \in Ids :
    /\ rows[id].escalation_count <= rows'[id].escalation_count
    /\ rows[id].state # "none" /\ rows[id].next_escalation_at = NULL
         => rows'[id].next_escalation_at = NULL

\* Statements that change no escalation column of a row in the table.
LEMMA CountUntouched ==
  ASSUME TypeInv,
         \A id \in Ids :
           /\ rows'[id].escalation_count = rows[id].escalation_count
           /\ \/ rows[id].state = "none"
              \/ rows'[id].next_escalation_at = rows[id].next_escalation_at
  PROVE  CountNeverBack
BY DEF CountNeverBack, TypeInv, TypeOK, Row

LEMMA StepNeverBack ==
  ASSUME NEW i, Instances = {i}
  PROVE  TypeInv /\ CurrentInv /\ [Next]_vars => [CountNeverBack]_vars
<1> SUFFICES ASSUME TypeInv, CurrentInv, Next PROVE CountNeverBack
  OBVIOUS
<1>1. CASE \E id \in Ids, deliver \in BOOLEAN, config \in TypeConfigs :
             Insert(id, deliver, config)
  <2>1. PICK new \in Ids, deliver \in BOOLEAN, config \in TypeConfigs :
          Insert(new, deliver, config)
    BY <1>1
  <2>2. /\ rows[new].state = "none" /\ rows'[new].escalation_count = 0
        /\ \A id \in Ids : id # new => rows'[id] = rows[id]
    BY <2>1 DEF Insert, Absent, TypeInv, TypeOK
  <2> QED BY <2>2, CountUntouched DEF CurrentInv, AbsentUncounted
<1>2. CASE \E user \in Users : UserCall(user)
  BY <1>2, UserCallKeepsEscalation, CountUntouched
<1>3. CASE \/ \E id \in Ids : AdminResurface(id)
           \/ \E locked \in SUBSET Ids : Wake(locked) \/ Expire(locked)
  BY <1>3, OtherCallsKeepEscalation, CountUntouched
<1>4. CASE \/ \E t \in Types, config \in TypeConfigs : UpdateType(t, config)
           \/ Tick
           \/ \E locked \in SUBSET Ids : SelectDue(i, locked)
           \/ LookupType(i) \/ AbandonPass(i)
  <2>1. UNCHANGED rows
    BY <1>4 DEF UpdateType, Tick, SelectDue, LookupType, AbandonPass
  <2> QED BY <2>1, CountUntouched
<1>5. CASE UpdateEscalation(i)
  <2> DEFINE d == esc[i].cur
  <2>1. /\ d \in esc[i].due /\ d \in Snapshot
        /\ rows'[d.id].escalation_count = d.count + 1
        /\ \A id \in Ids : id # d.id => rows'[id] = rows[id]
    BY <1>5, UpdateEscalationEffect
  <2>2. /\ rows[d.id].escalation_count = d.count
        /\ rows[d.id].next_escalation_at = d.at
    BY <1>5, <2>1 DEF UpdateEscalation, CurrentInv, Current, Written
  <2>3. d.count \in Nat /\ d.at # NULL
    BY <2>1, NullAssumption DEF Snapshot, Time
  <2> QED BY <2>1, <2>2, <2>3 DEF CountNeverBack, TypeInv, TypeOK, Row
<1>6. CASE EscalationAction(i)
  BY <1>6, EscalationActionEffect, CountUntouched
<1> QED
  BY <1>1, <1>2, <1>3, <1>4, <1>5, <1>6 DEF Next, Escalate

\* On a deployment of one instance no count goes back and no row whose
\* escalation has ended is put back on the schedule.  With two instances TLC
\* refutes this.
THEOREM OneInstanceMonotone ==
  ASSUME NEW i, Instances = {i}
  PROVE  Spec => EscalationCountMonotone
<1>1. TypeInv /\ CurrentInv /\ [Next]_vars => CurrentInv'
  BY NextCurrent
<1>2. TypeInv /\ CurrentInv /\ [Next]_vars => [CountNeverBack]_vars
  BY StepNeverBack
<1>3. Spec => [][CountNeverBack]_vars
  BY <1>1, <1>2, AlwaysTypeInv, InitCurrent, PTL DEF Spec
<1> QED
  BY <1>3 DEF EscalationCountMonotone, CountNeverBack

-----------------------------------------------------------------------------
(* The table implements the abstract lifecycle.                            *)

Bar == [id \in Ids |-> rows[id].state]

\* The edges the statements of Inbox take are edges of the abstraction.
LEMMA EdgesOfStatements ==
  { <<"unseen", "unread">>,   <<"unread", "read">>,      <<"read", "unread">>,
    <<"unseen", "snoozed">>,  <<"unread", "snoozed">>,   <<"read", "snoozed">>,
    <<"unseen", "archived">>, <<"unread", "archived">>,  <<"read", "archived">>,
    <<"snoozed", "archived">>,
    <<"snoozed", "unread">>,  <<"archived", "read">>,
    <<"unseen", "expired">>,  <<"unread", "expired">>,   <<"read", "expired">> }
  \subseteq Abstract!Moves
<1>1. ASSUME NEW from \in Abstract!States, NEW to \in Abstract!States,
             NEW t \in Abstract!ValidTransitions[from], Abstract!Target[t] = to,
             <<from, to>> \notin Abstract!Untaken
      PROVE  <<from, to>> \in Abstract!Moves
  BY <1>1 DEF Abstract!Moves, Abstract!CanTransitionTo
<1> USE DEF Abstract!States, Abstract!ValidTransitions, Abstract!Target, Abstract!Untaken
<1>2. /\ <<"unseen", "unread">> \in Abstract!Moves
      /\ <<"unseen", "snoozed">> \in Abstract!Moves
      /\ <<"unseen", "archived">> \in Abstract!Moves
      /\ <<"unseen", "expired">> \in Abstract!Moves
  BY <1>1
<1>3. /\ <<"unread", "read">> \in Abstract!Moves
      /\ <<"unread", "snoozed">> \in Abstract!Moves
      /\ <<"unread", "archived">> \in Abstract!Moves
      /\ <<"unread", "expired">> \in Abstract!Moves
  BY <1>1
<1>4. /\ <<"read", "unread">> \in Abstract!Moves
      /\ <<"read", "archived">> \in Abstract!Moves
      /\ <<"read", "expired">> \in Abstract!Moves
  BY <1>1
<1>5. /\ <<"snoozed", "unread">> \in Abstract!Moves
      /\ <<"archived", "read">> \in Abstract!Moves
  BY <1>1
<1>6. /\ <<"read", "snoozed">> \in Abstract!Moves
      /\ <<"snoozed", "archived">> \in Abstract!Moves
  BY DEF Abstract!Moves, Abstract!Beyond
<1> QED BY <1>2, <1>3, <1>4, <1>5, <1>6

\* A step that takes the rows of one set along edges to one state.
LEMMA MoveStep ==
  ASSUME TypeInv, NEW moved \in SUBSET Ids, NEW to,
         \A id \in moved : <<rows[id].state, to>> \in Abstract!Moves,
         \A id \in moved : rows'[id].state = to,
         \A id \in Ids \ moved : rows'[id].state = rows[id].state
  PROVE  [Abstract!Next]_Bar
<1>1. Bar' = [id \in Ids |-> IF id \in moved THEN to ELSE Bar[id]]
  BY DEF Bar
<1>2. CASE moved = {}
  BY <1>1, <1>2 DEF Bar
<1>3. CASE moved # {}
  <2>1. PICK id \in moved : <<rows[id].state, to>> \in Abstract!Moves
    BY <1>3
  <2>2. to \in {m[2] : m \in Abstract!Moves}
    BY <2>1, to = <<rows[id].state, to>>[2]
  <2>3. Abstract!Move
    BY <1>1, <2>2 DEF Abstract!Move, Bar
  <2> QED BY <2>3 DEF Abstract!Next
<1> QED BY <1>2, <1>3

\* A step that resurfaces one row of the table.
LEMMA ResurfaceStep ==
  ASSUME TypeInv, NEW id \in Ids, rows[id].state # "none",
         rows' = [rows EXCEPT ![id] = Resurfaced(@)]
  PROVE  [Abstract!Next]_Bar
<1>1. /\ rows'[id].state = "unseen"
      /\ \A other \in Ids : other # id => rows'[other].state = rows[other].state
  BY ResurfacedType DEF TypeInv, TypeOK
<1>2. Bar' = [Bar EXCEPT ![id] = "unseen"]
  BY <1>1 DEF Bar
<1>3. Bar[id] # "none"
  BY DEF Bar
<1>4. Abstract!Resurface(id)
  BY <1>2, <1>3 DEF Abstract!Resurface, Bar
<1> QED BY <1>4 DEF Abstract!Next

LEMMA UserCallStep ==
  ASSUME TypeInv, NEW user \in Users, UserCall(user)
  PROVE  [Abstract!Next]_Bar
<1> USE EdgesOfStatements DEF TypeInv, TypeOK, Row, In
<1>1. ASSUME NEW ids \in SUBSET Ids, MarkSeen(user, ids)
      PROVE  [Abstract!Next]_Bar
  <2> DEFINE moved == SeenTargets(user, ids) \cap In({"unseen"})
  <2>1. moved \in SUBSET Ids
    OBVIOUS
  <2>2. \A id \in moved : /\ <<rows[id].state, "unread">> \in Abstract!Moves
                          /\ rows'[id].state = "unread"
    BY <1>1 DEF MarkSeen
  <2>3. \A id \in Ids \ moved : rows'[id].state = rows[id].state
    BY <1>1 DEF MarkSeen
  <2> HIDE DEF moved
  <2> QED BY <2>1, <2>2, <2>3, MoveStep
<1>2. ASSUME NEW ids \in SUBSET Ids,
             MarkRead(user, ids) \/ ProducerMarkRead(user, ids)
      PROVE  [Abstract!Next]_Bar
  <2> DEFINE moved == ids \cap Of(user) \cap In({"unread"})
  <2>0. MarkRead(user, ids)
    BY <1>2 DEF MarkRead, ProducerMarkRead
  <2>1. moved \in SUBSET Ids
    OBVIOUS
  <2>2. \A id \in moved : /\ <<rows[id].state, "read">> \in Abstract!Moves
                          /\ rows'[id].state = "read"
    BY <2>0 DEF MarkRead
  <2>3. \A id \in Ids \ moved : rows'[id].state = rows[id].state
    BY <2>0 DEF MarkRead
  <2> HIDE DEF moved
  <2> QED BY <2>1, <2>2, <2>3, MoveStep
<1>3. ASSUME NEW ids \in SUBSET Ids, MarkUnread(user, ids)
      PROVE  [Abstract!Next]_Bar
  <2> DEFINE moved == ids \cap Of(user) \cap In({"read"})
  <2>1. moved \in SUBSET Ids
    OBVIOUS
  <2>2. \A id \in moved : /\ <<rows[id].state, "unread">> \in Abstract!Moves
                          /\ rows'[id].state = "unread"
    BY <1>3 DEF MarkUnread
  <2>3. \A id \in Ids \ moved : rows'[id].state = rows[id].state
    BY <1>3 DEF MarkUnread
  <2> HIDE DEF moved
  <2> QED BY <2>1, <2>2, <2>3, MoveStep
<1>4. ASSUME NEW ids \in SUBSET Ids, Archive(user, ids)
      PROVE  [Abstract!Next]_Bar
  <2> DEFINE moved == ids \cap Of(user) \cap Archivable
  <2>1. moved \in SUBSET Ids
    BY DEF Archivable
  <2>2. \A id \in moved : /\ <<rows[id].state, "archived">> \in Abstract!Moves
                          /\ rows'[id].state = "archived"
    BY <1>4 DEF Archive, Archivable
  <2>3. \A id \in Ids \ moved : rows'[id].state = rows[id].state
    BY <1>4 DEF Archive
  <2> HIDE DEF moved
  <2> QED BY <2>1, <2>2, <2>3, MoveStep
<1>5. ASSUME NEW ids \in SUBSET Ids, Unarchive(user, ids)
      PROVE  [Abstract!Next]_Bar
  <2> DEFINE moved == ids \cap Of(user) \cap In({"archived"})
  <2>1. moved \in SUBSET Ids
    OBVIOUS
  <2>2. \A id \in moved : /\ <<rows[id].state, "read">> \in Abstract!Moves
                          /\ rows'[id].state = "read"
    BY <1>5 DEF Unarchive
  <2>3. \A id \in Ids \ moved : rows'[id].state = rows[id].state
    BY <1>5 DEF Unarchive
  <2> HIDE DEF moved
  <2> QED BY <2>1, <2>2, <2>3, MoveStep
<1>6. ASSUME NEW id \in Ids, NEW until, Snooze(user, id, until)
      PROVE  [Abstract!Next]_Bar
  <2>1. <<rows[id].state, "snoozed">> \in Abstract!Moves
    BY <1>6 DEF Snooze
  <2>2. /\ rows'[id].state = "snoozed"
        /\ \A other \in Ids \ {id} : rows'[other].state = rows[other].state
    BY <1>6 DEF Snooze
  <2>3. {id} \in SUBSET Ids
    OBVIOUS
  <2>4. \A other \in {id} : /\ <<rows[other].state, "snoozed">> \in Abstract!Moves
                            /\ rows'[other].state = "snoozed"
    BY <2>1, <2>2
  <2> QED BY <2>2, <2>3, <2>4, MoveStep
<1>7. ASSUME NEW service \in Services, ArchiveAllInGroup(user, service)
      PROVE  [Abstract!Next]_Bar
  <2> DEFINE moved == {id \in Of(user) \cap Archivable : ServiceOf[id] = service}
  <2>1. moved \in SUBSET Ids
    BY DEF Archivable
  <2>2. \A id \in moved : /\ <<rows[id].state, "archived">> \in Abstract!Moves
                          /\ rows'[id].state = "archived"
    BY <1>7 DEF ArchiveAllInGroup, Archivable
  <2>3. \A id \in Ids \ moved : rows'[id].state = rows[id].state
    BY <1>7 DEF ArchiveAllInGroup
  <2> HIDE DEF moved
  <2> QED BY <2>1, <2>2, <2>3, MoveStep
<1> QED
  BY <1>1, <1>2, <1>3, <1>4, <1>5, <1>6, <1>7 DEF UserCall

LEMMA LoopStep ==
  ASSUME TypeInv, NEW locked \in SUBSET Ids, Wake(locked) \/ Expire(locked)
  PROVE  [Abstract!Next]_Bar
<1> USE EdgesOfStatements DEF TypeInv, TypeOK, Row, In
<1>1. CASE Wake(locked)
  <2>1. PICK batch \in SUBSET DueToWake :
          rows' = [id \in Ids |->
            IF id \in batch
              THEN [rows[id] EXCEPT !.state = "unread", !.snoozed_until = NULL]
              ELSE rows[id]]
    BY <1>1 DEF Wake, Batches
  <2>2. batch \in SUBSET Ids
    BY DEF DueToWake
  <2>3. \A id \in batch : /\ <<rows[id].state, "unread">> \in Abstract!Moves
                          /\ rows'[id].state = "unread"
    BY <2>1, <2>2 DEF DueToWake
  <2>4. \A id \in Ids \ batch : rows'[id].state = rows[id].state
    BY <2>1
  <2> QED BY <2>2, <2>3, <2>4, MoveStep
<1>2. CASE Expire(locked)
  <2>1. PICK batch \in SUBSET DueToExpire :
          rows' = [id \in Ids |->
            IF id \in batch THEN [rows[id] EXCEPT !.state = "expired"]
                            ELSE rows[id]]
    BY <1>2 DEF Expire, Batches
  <2>2. batch \in SUBSET Ids
    BY DEF DueToExpire
  <2>3. \A id \in batch : /\ <<rows[id].state, "expired">> \in Abstract!Moves
                          /\ rows'[id].state = "expired"
    BY <2>1, <2>2 DEF DueToExpire
  <2>4. \A id \in Ids \ batch : rows'[id].state = rows[id].state
    BY <2>1
  <2> QED BY <2>2, <2>3, <2>4, MoveStep
<1> QED BY <1>1, <1>2

\* A pass only ever holds rows that are in the table, however many instances
\* there are: the part of Current that survives concurrency.
HeldRowsPresent ==
  \A i \in Instances : \A d \in esc[i].due : rows[d.id].state # "none"

LEMMA InitHeld == Init => HeldRowsPresent
BY DEF Init, HeldRowsPresent, Idle

LEMMA NextHeld == TypeInv /\ HeldRowsPresent /\ [Next]_vars => HeldRowsPresent'
<1> SUFFICES ASSUME TypeInv, HeldRowsPresent, [Next]_vars PROVE HeldRowsPresent'
  OBVIOUS
<1>0. \A i \in Instances : \A d \in esc[i].due : d.id \in Ids
  BY DEF TypeInv, TypeOK, Pass, Snapshot
<1>1. ASSUME UNCHANGED esc,
             \A id \in Ids : rows[id].state # "none" => rows'[id].state # "none"
      PROVE  HeldRowsPresent'
  BY <1>0, <1>1 DEF HeldRowsPresent
<1>2. CASE \E id \in Ids, deliver \in BOOLEAN, config \in TypeConfigs :
             Insert(id, deliver, config)
  BY <1>1, <1>2 DEF Insert, Table, TypeInv, TypeOK
<1>3. CASE \E user \in Users : UserCall(user)
  BY <1>1, <1>3, UserCallKeepsEscalation, UserCallKeepsRows DEF Table
<1>4. CASE \/ \E id \in Ids : AdminResurface(id)
           \/ \E locked \in SUBSET Ids : Wake(locked) \/ Expire(locked)
  BY <1>1, <1>4, OtherCallsKeepEscalation, OtherCallsKeepRows DEF Table
<1>5. CASE \/ \E t \in Types, config \in TypeConfigs : UpdateType(t, config)
           \/ Tick \/ UNCHANGED vars
  BY <1>1, <1>5 DEF UpdateType, Tick, vars
<1>6. ASSUME NEW i \in Instances
      PROVE  /\ (\E locked \in SUBSET Ids : SelectDue(i, locked)) => HeldRowsPresent'
             /\ LookupType(i) => HeldRowsPresent'
             /\ UpdateEscalation(i) => HeldRowsPresent'
             /\ EscalationAction(i) => HeldRowsPresent'
             /\ AbandonPass(i) => HeldRowsPresent'
  <2>1. ASSUME NEW locked \in SUBSET Ids, SelectDue(i, locked)
        PROVE  HeldRowsPresent'
    <3>1. PICK batch \in SUBSET DueToEscalate :
            esc' = [esc EXCEPT ![i] = [@ EXCEPT !.stage = "lookup",
              !.due = { [id    |-> id,
                         count |-> rows[id].escalation_count,
                         at    |-> rows[id].next_escalation_at] : id \in batch }]]
      BY <2>1 DEF SelectDue, Batches
    <3>2. \A d \in esc'[i].due : rows[d.id].state # "none"
      BY <3>1 DEF TypeInv, TypeOK, Pass, DueToEscalate, In
    <3>3. UNCHANGED rows /\ \A j \in Instances : j # i => esc'[j] = esc[j]
      BY <2>1, <3>1 DEF SelectDue, TypeInv, TypeOK
    <3> QED BY <3>2, <3>3 DEF HeldRowsPresent
  <2>2. ASSUME LookupType(i) PROVE HeldRowsPresent'
    BY <2>2 DEF LookupType, HeldRowsPresent, TypeInv, TypeOK, Pass
  <2>3. ASSUME UpdateEscalation(i) PROVE HeldRowsPresent'
    <3>1. \A id \in Ids : rows'[id].state = rows[id].state
      BY <2>3, UpdateEscalationEffect
    <3>2. \A j \in Instances : esc'[j].due = esc[j].due
      BY <2>3 DEF UpdateEscalation, TypeInv, TypeOK, Pass
    <3> QED BY <1>0, <3>1, <3>2 DEF HeldRowsPresent
  <2>4. ASSUME EscalationAction(i) PROVE HeldRowsPresent'
    <3>1. \A id \in Ids : rows[id].state # "none" => rows'[id].state # "none"
      BY <2>4, EscalationActionEffect
    <3>2. \A j \in Instances : esc'[j].due \subseteq esc[j].due
      BY <2>4 DEF EscalationAction, TypeInv, TypeOK, Pass, Idle
    <3> QED BY <1>0, <3>1, <3>2 DEF HeldRowsPresent
  <2>5. ASSUME AbandonPass(i) PROVE HeldRowsPresent'
    BY <2>5 DEF AbandonPass, HeldRowsPresent, TypeInv, TypeOK, Idle
  <2> QED BY <2>1, <2>2, <2>3, <2>4, <2>5
<1> QED
  BY <1>2, <1>3, <1>4, <1>5, <1>6 DEF Next, Escalate

LEMMA AlwaysHeld == Spec => []HeldRowsPresent
BY InitHeld, NextHeld, AlwaysTypeInv, PTL DEF Spec

LEMMA NextMaps == TypeInv /\ HeldRowsPresent /\ [Next]_vars => [Abstract!Next]_Bar
<1> SUFFICES ASSUME TypeInv, HeldRowsPresent, [Next]_vars
             PROVE  [Abstract!Next]_Bar
  OBVIOUS
<1>1. CASE \E id \in Ids, deliver \in BOOLEAN, config \in TypeConfigs :
             Insert(id, deliver, config)
  <2>1. PICK new \in Ids, deliver \in BOOLEAN, config \in TypeConfigs :
          Insert(new, deliver, config)
    BY <1>1
  <2>2. /\ rows'[new].state \in {"unseen", "archived"}
        /\ \A id \in Ids : id # new => rows'[id].state = rows[id].state
    BY <2>1 DEF Insert, Absent, TypeInv, TypeOK
  <2>3. Bar' = [Bar EXCEPT ![new] = rows'[new].state] /\ Bar[new] = "none"
    BY <2>1, <2>2 DEF Bar, Insert
  <2>4. Abstract!Deliver(new)
    BY <2>2, <2>3 DEF Abstract!Deliver, Bar
  <2> QED BY <2>4 DEF Abstract!Next
<1>2. CASE \E user \in Users : UserCall(user)
  BY <1>2, UserCallStep
<1>3. CASE \E id \in Ids : AdminResurface(id)
  BY <1>3, ResurfaceStep DEF AdminResurface
<1>4. CASE \E locked \in SUBSET Ids : Wake(locked) \/ Expire(locked)
  BY <1>4, LoopStep
<1>5. ASSUME NEW i \in Instances, UpdateEscalation(i)
      PROVE  [Abstract!Next]_Bar
  <2>1. \A id \in Ids : rows'[id].state = rows[id].state
    BY <1>5, UpdateEscalationEffect
  <2> QED BY <2>1 DEF Bar
<1>6. ASSUME NEW i \in Instances, EscalationAction(i)
      PROVE  [Abstract!Next]_Bar
  <2>1. /\ esc[i].cur \in esc[i].due /\ esc[i].cur \in Snapshot
        /\ rows[esc[i].cur.id].state # "none"
    BY <1>6, EscalationActionEffect DEF HeldRowsPresent
  <2>2. esc[i].cur.id \in Ids
    BY <2>1 DEF Snapshot
  <2>3. CASE esc[i].action = "bump"
    BY <1>6, <2>3 DEF EscalationAction, Bar
  <2>4. CASE esc[i].action # "bump"
    BY <1>6, <2>1, <2>2, <2>4, ResurfaceStep DEF EscalationAction
  <2> QED BY <2>3, <2>4
<1>7. ASSUME \/ \E i \in Instances :
                  \/ \E locked \in SUBSET Ids : SelectDue(i, locked)
                  \/ LookupType(i) \/ AbandonPass(i)
             \/ \E t \in Types, config \in TypeConfigs : UpdateType(t, config)
             \/ Tick
             \/ UNCHANGED vars
      PROVE  [Abstract!Next]_Bar
  BY <1>7 DEF SelectDue, LookupType, AbandonPass, UpdateType, Tick, vars, Bar
<1> QED
  BY <1>1, <1>2, <1>3, <1>4, <1>5, <1>6, <1>7 DEF Next, Escalate

\* However calls, loops and passes of however many instances interleave, each
\* notification only moves along the edges of the abstract lifecycle.
THEOREM Refinement == Spec => ImplementsInboxSpec
<1>1. Init => Abstract!Init
  BY DEF Init, Abstract!Init, Absent
<1>2. TypeInv /\ HeldRowsPresent /\ [Next]_vars => [Abstract!Next]_Bar
  BY NextMaps
<1> QED
  BY <1>1, <1>2, AlwaysHeld, AlwaysTypeInv, PTL DEF Spec, ImplementsInboxSpec, Abstract!Spec, Bar

\* So a row is never gone again from the table, which is what a message that is
\* delivered once more relies on.
THEOREM RowsStay == Spec => Abstract!NeverLeaves
<1>1. [Abstract!Next]_Bar => [\A id \in Ids : Bar[id] # "none" => Bar'[id] # "none"]_Bar
  <2> SUFFICES ASSUME Abstract!Next, NEW id \in Ids, Bar[id] # "none"
               PROVE  Bar'[id] # "none"
    OBVIOUS
  <2>1. CASE Abstract!Move
    <3>1. \A m \in Abstract!Moves : m[2] \in Abstract!States
      BY DEF Abstract!Moves, Abstract!Beyond, Abstract!States
    <3>2. \A to \in {m[2] : m \in Abstract!Moves} : to # "none"
      BY <3>1 DEF Abstract!States
    <3> QED BY <2>1, <3>2 DEF Abstract!Move, Bar
  <2>2. CASE \E other \in Ids : Abstract!Deliver(other) \/ Abstract!Resurface(other)
    BY <2>2 DEF Abstract!Deliver, Abstract!Resurface, Bar
  <2> QED BY <2>1, <2>2 DEF Abstract!Next
<1> QED
  BY <1>1, Refinement, PTL DEF ImplementsInboxSpec, Abstract!Spec, Abstract!NeverLeaves, Bar

-----------------------------------------------------------------------------
(* The other side of the budget.  A pass takes a row off the schedule with *)
(* the count of its own snapshot, so the settings that allow it have to be *)
(* known when the pass looks them up, and what it writes over the row has  *)
(* to be count and time of the same snapshot.                              *)

Enough(id, n) == \E c \in past[TypeOf[id]] : c.interval = NULL \/ c.max <= n

PassesSpent ==
  \A i \in Instances :
    esc[i].stage = "count" /\ esc[i].next = NULL
      => Enough(esc[i].cur.id, esc[i].cur.count + 1)

SpentInv == EscalationNotCutShort /\ PassesSpent

LEMMA InitSpent == Init => SpentInv
BY DEF Init, SpentInv, EscalationNotCutShort, PassesSpent, Absent, Idle

\* Settings are only ever added to those a type has had.
LEMMA EnoughStays ==
  ASSUME TypeInv, [Next]_vars
  PROVE  \A id \in Ids : \A n : Enough(id, n) => Enough(id, n)'
<1>1. \A t \in Types : past[t] \subseteq past'[t]
  <2>1. ASSUME NEW t \in Types, NEW config \in TypeConfigs, UpdateType(t, config)
        PROVE  \A u \in Types : past[u] \subseteq past'[u]
    BY <2>1 DEF UpdateType, TypeInv, TypeOK
  <2>2. ASSUME ~ \E t \in Types, config \in TypeConfigs : UpdateType(t, config)
        PROVE  past' = past
    <3>1. (\E user \in Users : UserCall(user)) => past' = past
      BY UserCallKeepsEscalation DEF Table
    <3> QED
      BY <2>2, <3>1 DEF Next, vars, Insert, AdminResurface, Wake, Expire, Table,
           Escalate, SelectDue, LookupType, UpdateEscalation, EscalationAction,
           AbandonPass, Tick
  <2> QED BY <2>1, <2>2
<1> QED BY <1>1, IdsAssumption DEF Enough

\* A step that takes no row off the schedule and puts none into the table,
\* and brings no pass to its count.
LEMMA SpentUntouched ==
  ASSUME TypeInv, SpentInv, [Next]_vars,
         \A id \in Ids :
           /\ rows[id].state = "none" <=> rows'[id].state = "none"
           /\ rows'[id].escalation_count = rows[id].escalation_count
           /\ rows'[id].next_escalation_at = rows[id].next_escalation_at,
         \A i \in Instances :
           \/ esc'[i].stage # "count"
           \/ esc'[i] = esc[i]
  PROVE  SpentInv'
<1>1. EscalationNotCutShort'
  <2>1. SUFFICES ASSUME NEW id \in Ids, rows'[id].state # "none",
                        rows'[id].next_escalation_at = NULL
                 PROVE  Enough(id, rows[id].escalation_count)'
    BY DEF EscalationNotCutShort, Enough
  <2>2. Enough(id, rows[id].escalation_count)
    BY <2>1 DEF SpentInv, EscalationNotCutShort, Enough
  <2> QED BY <2>2, EnoughStays DEF Enough
<1>2. PassesSpent'
  <2>1. SUFFICES ASSUME NEW i \in Instances, esc'[i].stage = "count",
                        esc'[i].next = NULL
                 PROVE  Enough(esc[i].cur.id, esc[i].cur.count + 1)'
    BY DEF PassesSpent
  <2>2. esc'[i] = esc[i] /\ esc[i].cur.id \in Ids
    BY <2>1 DEF TypeInv, TypeOK, CurInHand, Pass, Snapshot
  <2>3. Enough(esc[i].cur.id, esc[i].cur.count + 1)
    BY <2>1, <2>2 DEF SpentInv, PassesSpent
  <2> QED BY <2>2, <2>3, EnoughStays DEF Enough
<1> QED BY <1>1, <1>2 DEF SpentInv

\* An insert leaves a row off the schedule only if its settings ask for no
\* escalation at all.
LEMMA InsertSpent ==
  ASSUME TypeInv, SpentInv, NEW new \in Ids, NEW deliver \in BOOLEAN,
         NEW config \in TypeConfigs, Insert(new, deliver, config)
  PROVE  SpentInv'
<1>1. /\ rows'[new].escalation_count = 0
      /\ rows'[new].next_escalation_at =
           IF config.max > 0 THEN After(config.interval) ELSE NULL
      /\ \A id \in Ids : id # new => rows'[id] = rows[id]
      /\ UNCHANGED <<past, esc>>
  BY DEF Insert, Table, Absent, TypeInv, TypeOK
<1>2. config.interval \in OptTime /\ config.max \in Int /\ config \in past[TypeOf[new]]
  BY ConfigAssumption DEF TypeConfig, Insert
<1>3. After(config.interval) = NULL => config.interval = NULL
  BY <1>2, NullAssumption DEF After, OptTime, Time, TypeInv, TypeOK
<1>4. rows'[new].next_escalation_at = NULL
        => config.interval = NULL \/ config.max <= rows'[new].escalation_count
  BY <1>1, <1>2, <1>3
<1>5. EscalationNotCutShort'
  BY <1>1, <1>2, <1>4 DEF SpentInv, EscalationNotCutShort
<1>6. PassesSpent'
  BY <1>1 DEF SpentInv, PassesSpent, Enough
<1> QED BY <1>5, <1>6 DEF SpentInv

LEMMA LookupSpent ==
  ASSUME TypeInv, BudgetInv, SpentInv, NEW i \in Instances, LookupType(i)
  PROVE  SpentInv'
<1>1. PICK d \in esc[i].due :
        LET nt == types[TypeOf[d.id]]
        IN  esc' = [esc EXCEPT ![i] = [@ EXCEPT
              !.stage = "count",
              !.cur = d,
              !.next = IF d.count + 1 < nt.max THEN After(nt.interval) ELSE NULL,
              !.action = nt.action]]
  BY DEF LookupType
<1> DEFINE nt == types[TypeOf[d.id]]
<1>2. d \in Snapshot /\ nt \in past[TypeOf[d.id]] /\ nt \in TypeConfig
  BY IdsAssumption, ConfigAssumption
     DEF TypeInv, TypeOK, Pass, Snapshot, BudgetInv, CurrentIsPast
<1>3. /\ esc'[i].cur = d
      /\ esc'[i].next = IF d.count + 1 < nt.max THEN After(nt.interval) ELSE NULL
      /\ \A j \in Instances : j # i => esc'[j] = esc[j]
      /\ UNCHANGED <<rows, past>>
  BY <1>1 DEF TypeInv, TypeOK, Pass, LookupType
<1>4. After(nt.interval) = NULL => nt.interval = NULL
  BY <1>2, NullAssumption DEF After, TypeConfig, OptTime, Time, TypeInv, TypeOK
<1>5. esc'[i].next = NULL => nt.interval = NULL \/ nt.max <= d.count + 1
  BY <1>2, <1>3, <1>4 DEF TypeConfig, Snapshot
<1>6. esc'[i].next = NULL => Enough(d.id, d.count + 1)
  BY <1>2, <1>5 DEF Enough
<1>7. PassesSpent'
  BY <1>3, <1>6 DEF SpentInv, PassesSpent, Enough
<1>8. EscalationNotCutShort'
  BY <1>3 DEF SpentInv, EscalationNotCutShort
<1> QED BY <1>7, <1>8 DEF SpentInv

LEMMA UpdateSpent ==
  ASSUME TypeInv, SpentInv, NEW i \in Instances, UpdateEscalation(i)
  PROVE  SpentInv'
<1> DEFINE d == esc[i].cur
<1>1. /\ rows'[d.id].escalation_count = d.count + 1
      /\ rows'[d.id].next_escalation_at = esc[i].next
      /\ \A id \in Ids : id # d.id => rows'[id] = rows[id]
  BY UpdateEscalationEffect
<1>2. esc[i].next = NULL => Enough(d.id, d.count + 1)
  BY DEF UpdateEscalation, SpentInv, PassesSpent
<1>3. UNCHANGED past
  BY DEF UpdateEscalation
<1>4. EscalationNotCutShort'
  <2>1. SUFFICES ASSUME NEW id \in Ids, rows'[id].state # "none",
                        rows'[id].next_escalation_at = NULL
                 PROVE  Enough(id, rows'[id].escalation_count)
    BY <1>3 DEF EscalationNotCutShort, Enough
  <2>2. CASE id = d.id
    BY <1>1, <1>2, <2>1, <2>2
  <2>3. CASE id # d.id
    BY <1>1, <2>1, <2>3 DEF SpentInv, EscalationNotCutShort, Enough
  <2> QED BY <2>2, <2>3
<1>5. PassesSpent'
  <2>1. \A j \in Instances : esc'[j].stage = "count" => esc'[j] = esc[j]
    BY DEF UpdateEscalation, TypeInv, TypeOK, Pass
  <2> QED BY <1>3, <2>1 DEF SpentInv, PassesSpent, Enough
<1> QED BY <1>4, <1>5 DEF SpentInv

LEMMA NextSpent ==
  TypeInv /\ BudgetInv /\ HeldRowsPresent /\ SpentInv /\ [Next]_vars => SpentInv'
<1> SUFFICES ASSUME TypeInv, BudgetInv, HeldRowsPresent, SpentInv, [Next]_vars
             PROVE  SpentInv'
  OBVIOUS
<1>1. CASE \E id \in Ids, deliver \in BOOLEAN, config \in TypeConfigs :
             Insert(id, deliver, config)
  BY <1>1, InsertSpent
<1>2. CASE \E user \in Users : UserCall(user)
  BY <1>2, UserCallKeepsEscalation, UserCallKeepsRows, SpentUntouched DEF Table
<1>3. CASE \/ \E id \in Ids : AdminResurface(id)
           \/ \E locked \in SUBSET Ids : Wake(locked) \/ Expire(locked)
  BY <1>3, OtherCallsKeepEscalation, OtherCallsKeepRows, SpentUntouched DEF Table
<1>4. CASE \/ \E t \in Types, config \in TypeConfigs : UpdateType(t, config)
           \/ Tick \/ UNCHANGED vars
  BY <1>4, SpentUntouched DEF UpdateType, Tick, vars
<1>5. ASSUME NEW i \in Instances,
             (\E locked \in SUBSET Ids : SelectDue(i, locked)) \/ AbandonPass(i)
      PROVE  SpentInv'
  <2>1. esc'[i].stage # "count" /\ \A j \in Instances : j # i => esc'[j] = esc[j]
    <3>1. CASE \E locked \in SUBSET Ids : SelectDue(i, locked)
      BY <3>1 DEF SelectDue, TypeInv, TypeOK, Pass
    <3>2. CASE AbandonPass(i)
      BY <3>2 DEF AbandonPass, TypeInv, TypeOK, Idle
    <3> QED BY <1>5, <3>1, <3>2
  <2>2. UNCHANGED rows
    BY <1>5 DEF SelectDue, AbandonPass
  <2> QED BY <2>1, <2>2, SpentUntouched
<1>6. ASSUME NEW i \in Instances, LookupType(i) PROVE SpentInv'
  BY <1>6, LookupSpent
<1>7. ASSUME NEW i \in Instances, UpdateEscalation(i) PROVE SpentInv'
  BY <1>7, UpdateSpent
<1>8. ASSUME NEW i \in Instances, EscalationAction(i) PROVE SpentInv'
  <2>1. \A j \in Instances : esc'[j].stage # "count" \/ esc'[j] = esc[j]
    BY <1>8 DEF EscalationAction, TypeInv, TypeOK, Idle
  <2>2. \A id \in Ids : rows[id].state = "none" <=> rows'[id].state = "none"
    BY <1>8, EscalationActionEffect DEF HeldRowsPresent
  <2> QED BY <1>8, <2>1, <2>2, EscalationActionEffect, SpentUntouched
<1> QED
  BY <1>1, <1>2, <1>3, <1>4, <1>5, <1>6, <1>7, <1>8 DEF Next, Escalate

\* However many instances run passes over the same rows, no row goes off the
\* schedule before it has been escalated as often as some settings its type
\* has had ask for.
THEOREM EscalationIsNotCutShort == Spec => []EscalationNotCutShort
<1>1. Spec => []BudgetInv
  BY AlwaysTypeInv, InitBudget, NextBudget, PTL DEF Spec
<1> QED
  BY <1>1, AlwaysTypeInv, AlwaysHeld, InitSpent, NextSpent, PTL DEF Spec, SpentInv

-----------------------------------------------------------------------------
(* No reminder is counted and forgotten.  The bound on a row's count is    *)
(* what the row has had, what was cut off, and what is about to come; a    *)
(* snapshot may be older than the row but its count stays below the bound, *)
(* because the bound never falls.                                          *)

Owed(id) == reminders[id] + failures + Cardinality(AboutToRemind(id))

KeepUpInv ==
  /\ \A id \in Ids : IsFiniteSet(AboutToRemind(id))
  /\ \A id \in Ids : rows[id].escalation_count <= Owed(id)
  /\ \A i \in Instances : \A d \in esc[i].due : d.count <= Owed(d.id)

LEMMA OwedType ==
  ASSUME TypeInv, NEW id \in Ids, IsFiniteSet(AboutToRemind(id))
  PROVE  Owed(id) \in Nat
BY FS_CardinalityType DEF TypeInv, TypeOK, Owed

LEMMA InitKeepUp == Init => KeepUpInv
<1> SUFFICES ASSUME Init PROVE KeepUpInv
  OBVIOUS
<1>1. \A id \in Ids : AboutToRemind(id) = {}
  BY DEF Init, AboutToRemind, Idle
<1>2. \A id \in Ids : Owed(id) = 0 /\ IsFiniteSet(AboutToRemind(id))
  BY <1>1, FS_EmptySet DEF Init, Owed
<1> QED
  BY <1>2 DEF Init, KeepUpInv, Absent, Idle

\* A step that lowers no bound, and writes only counts and selects only
\* snapshots that were within the bounds.
LEMMA KeepUpStep ==
  ASSUME TypeInv, TypeInv', KeepUpInv,
         \A id \in Ids : IsFiniteSet(AboutToRemind(id))',
         \A id \in Ids : Owed(id) <= Owed(id)',
         \A id \in Ids : \/ rows'[id].escalation_count <= rows[id].escalation_count
                         \/ rows'[id].escalation_count <= Owed(id)',
         \A i \in Instances : \A d \in esc'[i].due :
           d \in esc[i].due \/ d.count = rows[d.id].escalation_count
  PROVE  KeepUpInv'
<1>1. ASSUME NEW id \in Ids
      PROVE  /\ Owed(id) \in Int /\ Owed(id)' \in Int
             /\ rows[id].escalation_count \in Int /\ rows'[id].escalation_count \in Int
  <2>1. Cardinality(AboutToRemind(id)) \in Nat /\ Cardinality(AboutToRemind(id)') \in Nat
    BY FS_CardinalityType DEF KeepUpInv
  <2> QED BY <2>1 DEF Owed, TypeInv, TypeOK, Row
<1>2. \A id \in Ids : rows'[id].escalation_count <= Owed(id)'
  BY <1>1 DEF KeepUpInv
<1>3. ASSUME NEW i \in Instances, NEW d \in esc'[i].due
      PROVE  d.id \in Ids /\ d.count \in Int /\ d.count <= Owed(d.id)'
  <2>1. d.id \in Ids /\ d.count \in Nat
    BY <1>3 DEF TypeInv, TypeOK, Pass, Snapshot
  <2>2. d.count <= Owed(d.id)
    BY <2>1 DEF KeepUpInv
  <2> QED BY <1>1, <2>1, <2>2
<1> QED BY <1>2, <1>3 DEF KeepUpInv

\* A step that leaves the reminders, the failures and the passes in action
\* as they are.
LEMMA OwedUntouched ==
  ASSUME TypeInv, UNCHANGED <<reminders, failures>>,
         \A i \in Instances :
           \/ esc'[i] = esc[i]
           \/ esc[i].stage # "act" /\ esc'[i].stage # "act"
  PROVE  \A id \in Ids : AboutToRemind(id)' = AboutToRemind(id) /\ Owed(id)' = Owed(id)
<1>1. \A id \in Ids : AboutToRemind(id)' = AboutToRemind(id)
  BY DEF AboutToRemind
<1> QED BY <1>1 DEF Owed

\* Such a step keeps the bounds.
LEMMA KeepUpUntouched ==
  ASSUME TypeInv, TypeInv', KeepUpInv, UNCHANGED <<reminders, failures>>,
         \A i \in Instances :
           \/ esc'[i] = esc[i]
           \/ /\ esc[i].stage # "act" /\ esc'[i].stage # "act"
              /\ \A d \in esc'[i].due :
                   d \in esc[i].due \/ d.count = rows[d.id].escalation_count,
         \A id \in Ids : rows'[id].escalation_count <= rows[id].escalation_count
  PROVE  KeepUpInv'
<1>1. \A id \in Ids : AboutToRemind(id)' = AboutToRemind(id) /\ Owed(id)' = Owed(id)
  BY OwedUntouched
<1>2. \A id \in Ids : Owed(id) \in Int
  BY OwedType DEF KeepUpInv
<1> QED BY <1>1, <1>2, KeepUpStep DEF KeepUpInv

\* Writing a count puts the pass among those about to remind.
LEMMA UpdateKeepsUp ==
  ASSUME TypeInv, TypeInv', KeepUpInv, NEW i \in Instances, UpdateEscalation(i)
  PROVE  KeepUpInv'
<1>1. PICK d \in Snapshot :
        /\ d \in esc[i].due /\ d = esc[i].cur
        /\ rows'[d.id].escalation_count = d.count + 1
        /\ \A id \in Ids : id # d.id => rows'[id] = rows[id]
        /\ esc'[i].due = esc[i].due /\ esc'[i].cur = d /\ esc'[i].stage = "act"
  BY UpdateEscalationEffect
<1>2. /\ esc[i].stage = "count" /\ UNCHANGED <<reminders, failures>>
      /\ \A j \in Instances : j # i => esc'[j] = esc[j]
  BY DEF UpdateEscalation, TypeInv, TypeOK
<1>3. d.id \in Ids /\ d.count \in Nat
  BY DEF Snapshot
<1>4. AboutToRemind(d.id)' = AboutToRemind(d.id) \cup {i} /\ i \notin AboutToRemind(d.id)
  BY <1>1, <1>2 DEF AboutToRemind
<1>5. \A id \in Ids : id # d.id => AboutToRemind(id)' = AboutToRemind(id)
  BY <1>1, <1>2 DEF AboutToRemind
<1>6. /\ IsFiniteSet(AboutToRemind(d.id))'
      /\ Cardinality(AboutToRemind(d.id))' = Cardinality(AboutToRemind(d.id)) + 1
      /\ Cardinality(AboutToRemind(d.id)) \in Nat
  BY <1>3, <1>4, FS_AddElement, FS_CardinalityType DEF KeepUpInv
<1>7. Owed(d.id)' = Owed(d.id) + 1
  BY <1>2, <1>3, <1>6 DEF Owed, TypeInv, TypeOK
<1>8. \A id \in Ids : Owed(id) \in Int
  BY OwedType DEF KeepUpInv
<1>9. \A id \in Ids : id # d.id => Owed(id)' = Owed(id)
  BY <1>2, <1>5 DEF Owed
<1>10. ASSUME NEW id \in Ids
       PROVE  IsFiniteSet(AboutToRemind(id))' /\ Owed(id) <= Owed(id)'
  <2>1. CASE id = d.id
    BY <1>6, <1>7, <1>8, <2>1
  <2>2. CASE id # d.id
    BY <1>5, <1>8, <1>9, <2>2 DEF KeepUpInv
  <2> QED BY <2>1, <2>2
<1>11. rows'[d.id].escalation_count <= Owed(d.id)'
  BY <1>1, <1>3, <1>7, <1>8 DEF KeepUpInv
<1>12. \A id \in Ids : \/ rows'[id].escalation_count <= rows[id].escalation_count
                       \/ rows'[id].escalation_count <= Owed(id)'
  BY <1>1, <1>3, <1>11 DEF TypeInv, TypeOK, Row
<1>13. \A j \in Instances : esc'[j].due = esc[j].due
  BY <1>1, <1>2
<1> QED BY <1>10, <1>12, <1>13, KeepUpStep

\* Giving the reminder takes the pass out of them again.
LEMMA ActionKeepsUp ==
  ASSUME TypeInv, TypeInv', KeepUpInv, NEW i \in Instances, EscalationAction(i)
  PROVE  KeepUpInv'
<1>1. PICK d \in Snapshot :
        /\ d = esc[i].cur
        /\ \A id \in Ids : rows'[id].escalation_count = rows[id].escalation_count
        /\ reminders'[d.id] = reminders[d.id] + 1
        /\ \A id \in Ids : id # d.id => reminders'[id] = reminders[id]
        /\ esc'[i].due = esc[i].due \ {d} /\ esc'[i].stage # "act"
  BY EscalationActionEffect
<1>2. /\ esc[i].stage = "act" /\ UNCHANGED failures
      /\ \A j \in Instances : j # i => esc'[j] = esc[j]
  BY DEF EscalationAction, TypeInv, TypeOK
<1>3. d.id \in Ids
  BY DEF Snapshot
<1>4. AboutToRemind(d.id)' = AboutToRemind(d.id) \ {i} /\ i \in AboutToRemind(d.id)
  BY <1>1, <1>2 DEF AboutToRemind
<1>5. \A id \in Ids : id # d.id => AboutToRemind(id)' = AboutToRemind(id)
  BY <1>1, <1>2 DEF AboutToRemind
<1>6. /\ IsFiniteSet(AboutToRemind(d.id))'
      /\ Cardinality(AboutToRemind(d.id))' = Cardinality(AboutToRemind(d.id)) - 1
      /\ Cardinality(AboutToRemind(d.id)) \in Nat
  BY <1>3, <1>4, FS_RemoveElement, FS_CardinalityType DEF KeepUpInv
<1>7. Owed(d.id)' = Owed(d.id)
  <2>1. reminders[d.id] \in Nat /\ failures \in Nat
    BY <1>3 DEF TypeInv, TypeOK
  <2>2. Owed(d.id)' = (reminders[d.id] + 1) + failures
                        + (Cardinality(AboutToRemind(d.id)) - 1)
    BY <1>1, <1>2, <1>6 DEF Owed
  <2> QED BY <1>6, <2>1, <2>2 DEF Owed
<1>8. \A id \in Ids : id # d.id => Owed(id)' = Owed(id)
  BY <1>1, <1>2, <1>5 DEF Owed
<1>9. \A id \in Ids : Owed(id) \in Int
  BY OwedType DEF KeepUpInv
<1>10. ASSUME NEW id \in Ids
       PROVE  IsFiniteSet(AboutToRemind(id))' /\ Owed(id) <= Owed(id)'
  <2>1. CASE id = d.id
    BY <1>6, <1>7, <1>9, <2>1
  <2>2. CASE id # d.id
    BY <1>5, <1>8, <1>9, <2>2 DEF KeepUpInv
  <2> QED BY <2>1, <2>2
<1>11. \A j \in Instances : \A e \in esc'[j].due : e \in esc[j].due
  BY <1>1, <1>2
<1>12. \A id \in Ids : rows'[id].escalation_count <= rows[id].escalation_count
  BY <1>1 DEF TypeInv, TypeOK, Row
<1> QED BY <1>10, <1>11, <1>12, KeepUpStep

\* A pass cut off between the two is one more failure.
LEMMA AbandonKeepsUp ==
  ASSUME TypeInv, TypeInv', KeepUpInv, NEW i \in Instances, AbandonPass(i)
  PROVE  KeepUpInv'
<1>1. /\ failures' = failures + 1 /\ UNCHANGED <<rows, reminders>>
      /\ esc'[i] = Idle
      /\ \A j \in Instances : j # i => esc'[j] = esc[j]
  BY DEF AbandonPass, TypeInv, TypeOK
<1>2. ASSUME NEW id \in Ids
      PROVE  /\ IsFiniteSet(AboutToRemind(id)')
             /\ Owed(id) \in Int /\ Owed(id) <= Owed(id)'
  <2>1. AboutToRemind(id)' = AboutToRemind(id) \ {i}
    BY <1>1 DEF AboutToRemind, Idle
  <2>2. /\ IsFiniteSet(AboutToRemind(id)')
        /\ Cardinality(AboutToRemind(id)) \in Nat
        /\ Cardinality(AboutToRemind(id)') \in Nat
        /\ Cardinality(AboutToRemind(id)) <= Cardinality(AboutToRemind(id)') + 1
    <3>1. IsFiniteSet(AboutToRemind(id))
      BY DEF KeepUpInv
    <3>2. /\ IsFiniteSet(AboutToRemind(id) \ {i})
          /\ Cardinality(AboutToRemind(id) \ {i}) =
               IF i \in AboutToRemind(id) THEN Cardinality(AboutToRemind(id)) - 1
                                          ELSE Cardinality(AboutToRemind(id))
      BY <3>1, FS_RemoveElement
    <3>3. /\ Cardinality(AboutToRemind(id)) \in Nat
          /\ Cardinality(AboutToRemind(id) \ {i}) \in Nat
      BY <3>1, <3>2, FS_CardinalityType
    <3> QED BY <2>1, <3>2, <3>3
  <2> QED BY <1>1, <2>2 DEF Owed, TypeInv, TypeOK
<1>3. \A j \in Instances : \A d \in esc'[j].due : d \in esc[j].due
  BY <1>1 DEF Idle
<1>4. \A id \in Ids : rows'[id].escalation_count <= rows[id].escalation_count
  BY <1>1 DEF TypeInv, TypeOK, Row
<1> QED BY <1>2, <1>3, <1>4, KeepUpStep

LEMMA NextKeepUp == TypeInv /\ KeepUpInv /\ [Next]_vars => KeepUpInv'
<1> SUFFICES ASSUME TypeInv, KeepUpInv, [Next]_vars PROVE KeepUpInv'
  OBVIOUS
<1>0. TypeInv'
  BY NextTypeInv
<1>1. ASSUME UNCHANGED <<esc, reminders, failures>>,
             \A id \in Ids : rows'[id].escalation_count = rows[id].escalation_count
      PROVE  KeepUpInv'
  <2>1. \A id \in Ids : rows'[id].escalation_count <= rows[id].escalation_count
    BY <1>1 DEF TypeInv, TypeOK, Row
  <2> QED BY <1>0, <1>1, <2>1, KeepUpUntouched
<1>2. CASE \E id \in Ids, deliver \in BOOLEAN, config \in TypeConfigs :
             Insert(id, deliver, config)
  <2>1. UNCHANGED <<esc, reminders, failures>>
    BY <1>2 DEF Insert, Table
  <2>2. \A id \in Ids : rows'[id].escalation_count <= rows[id].escalation_count
    BY <1>2 DEF Insert, TypeInv, TypeOK, Row, Absent
  <2> QED BY <1>0, <2>1, <2>2, KeepUpUntouched
<1>3. CASE \E user \in Users : UserCall(user)
  BY <1>1, <1>3, UserCallKeepsEscalation DEF Table
<1>4. CASE \/ \E id \in Ids : AdminResurface(id)
           \/ \E locked \in SUBSET Ids : Wake(locked) \/ Expire(locked)
  BY <1>1, <1>4, OtherCallsKeepEscalation DEF Table
<1>5. CASE \/ \E t \in Types, config \in TypeConfigs : UpdateType(t, config)
           \/ Tick \/ UNCHANGED vars
  BY <1>1, <1>5 DEF UpdateType, Tick, vars
<1>6. ASSUME NEW i \in Instances, NEW locked \in SUBSET Ids, SelectDue(i, locked)
      PROVE  KeepUpInv'
  <2>1. UNCHANGED <<rows, reminders, failures>>
    BY <1>6 DEF SelectDue
  <2>2. /\ esc[i].stage = "idle" /\ esc'[i].stage = "lookup"
        /\ \A d \in esc'[i].due : d.count = rows[d.id].escalation_count
        /\ \A j \in Instances : j # i => esc'[j] = esc[j]
    BY <1>6 DEF SelectDue, TypeInv, TypeOK, Pass
  <2>3. \A id \in Ids : rows'[id].escalation_count <= rows[id].escalation_count
    BY <2>1 DEF TypeInv, TypeOK, Row
  <2> QED BY <1>0, <2>1, <2>2, <2>3, KeepUpUntouched
<1>7. ASSUME NEW i \in Instances, LookupType(i) PROVE KeepUpInv'
  <2>1. UNCHANGED <<rows, reminders, failures>>
    BY <1>7 DEF LookupType
  <2>2. /\ esc[i].stage = "lookup" /\ esc'[i].stage = "count"
        /\ esc'[i].due = esc[i].due
        /\ \A j \in Instances : j # i => esc'[j] = esc[j]
    BY <1>7 DEF LookupType, TypeInv, TypeOK, Pass
  <2>3. \A id \in Ids : rows'[id].escalation_count <= rows[id].escalation_count
    BY <2>1 DEF TypeInv, TypeOK, Row
  <2> QED BY <1>0, <2>1, <2>2, <2>3, KeepUpUntouched
<1>8. ASSUME NEW i \in Instances,
             UpdateEscalation(i) \/ EscalationAction(i) \/ AbandonPass(i)
      PROVE  KeepUpInv'
  BY <1>0, <1>8, UpdateKeepsUp, ActionKeepsUp, AbandonKeepsUp
<1> QED
  BY <1>2, <1>3, <1>4, <1>5, <1>6, <1>7, <1>8 DEF Next, Escalate

\* On any number of instances, a row's count is ahead of the reminders it has
\* had by no more than the passes cut off or about to give theirs.
THEOREM RemindersAreGiven == Spec => []RemindersKeepUp
<1>1. KeepUpInv => RemindersKeepUp
  BY DEF KeepUpInv, RemindersKeepUp, Owed
<1> QED
  BY <1>1, AlwaysTypeInv, InitKeepUp, NextKeepUp, PTL DEF Spec
=============================================================================
