------------------------------- MODULE Ingest -------------------------------
(***************************************************************************)
(* The way of a notification from SendNotification to the table: the RPC   *)
(* publishes a message to the NOTIFICATIONS work queue, JetStream hands a  *)
(* copy of it to one of the processors, the processor loads what it needs, *)
(* inserts the row, announces it to the live stream and acknowledges the   *)
(* message; an error anywhere before makes it send a negative              *)
(* acknowledgement, which has the message delivered again.                 *)
(*                                                                         *)
(* Answers and acknowledgements get lost, the acknowledgement wait may run *)
(* out while a processor still holds a copy, processors crash, and         *)
(* producers send again under the same idempotency key.                    *)
(***************************************************************************)
EXTENDS Naturals

CONSTANTS
  Msgs,        \* the messages producers may send, one per generated id
  Keys,        \* idempotency keys
  KeyOf,       \* [Msgs -> Keys \cup {NULL}]: the key the producer gave
  Workers,     \* the processors, one per server instance
  MaxDeliver,  \* deliveries JetStream attempts (nats/setup.rs: 5)
  MaxFailures, \* bound on lost answers, errors, late processors and crashes
  NULL

ASSUME KeyAssumption == KeyOf \in [Msgs -> Keys \cup {NULL}]
ASSUME DeliverAssumption == MaxDeliver \in Nat \ {0} /\ MaxFailures \in Nat

VARIABLES
  answer,     \* what the producer was told of each message
  queue,      \* where each message is in the work queue
  deliveries, \* how often each message has been delivered
  buffer,     \* copies each processor has fetched and not yet started
  hand,       \* what each processor is doing
  stored,     \* the notifications table: "none" or the state at insertion
  announced,  \* new-notification events published for each message
  failures    \* failures so far

vars == <<answer, queue, deliveries, buffer, hand, stored, announced, failures>>

-----------------------------------------------------------------------------

Stages == {"idle", "load", "insert", "publish", "ack", "nak"}

\* deliver is what preference resolution decided: shown, or archived at once.
Hand == [ stage : Stages, msg : Msgs \cup {NULL}, deliver : BOOLEAN ]

Idle == [ stage |-> "idle", msg |-> NULL, deliver |-> FALSE ]

TypeOK ==
  /\ answer \in [Msgs -> {"none", "accepted", "failed"}]
  /\ queue \in [Msgs -> {"none", "ready", "pending", "exhausted", "removed"}]
  /\ deliveries \in [Msgs -> Nat]
  /\ buffer \in [Workers -> SUBSET (Msgs \X Nat)]
  /\ hand \in [Workers -> Hand]
  /\ stored \in [Msgs -> {"none", "unseen", "archived"}]
  /\ announced \in [Msgs -> Nat]
  /\ failures \in Nat
  /\ \A w \in Workers : hand[w].stage # "idle" => hand[w].msg \in Msgs

Init ==
  /\ answer = [m \in Msgs |-> "none"]
  /\ queue = [m \in Msgs |-> "none"]
  /\ deliveries = [m \in Msgs |-> 0]
  /\ buffer = [w \in Workers |-> {}]
  /\ hand = [w \in Workers |-> Idle]
  /\ stored = [m \in Msgs |-> "none"]
  /\ announced = [m \in Msgs |-> 0]
  /\ failures = 0

-----------------------------------------------------------------------------
(* Helpers.                                                                *)

SameKey(m, n) == KeyOf[m] # NULL /\ KeyOf[m] = KeyOf[n]

\* Mutant: the key is not compared.
ConflictsById(m) == {n \in {m} : stored[n] # "none"}

\* A row that the primary key or the unique index on idempotency_key would
\* set against a row for m.
Conflicts(m) == {n \in Msgs : (n = m \/ SameKey(m, n)) /\ stored[n] # "none"}

\* Some processor still has a copy of m.
Held(m) == \E w \in Workers :
  \/ hand[w].stage # "idle" /\ hand[w].msg = m
  \/ \E n \in 1 .. deliveries[m] : <<m, n>> \in buffer[w]

\* One more failure, within the bound.
Fail == failures < MaxFailures /\ failures' = failures + 1

NoFail == UNCHANGED failures

\* Mutant: the last delivery is not attempted.
RequeuedOffByOne(m) ==
  [queue EXCEPT ![m] =
     IF deliveries[m] + 1 < MaxDeliver THEN "ready" ELSE "exhausted"]

\* A message that is to be delivered again, unless it has been delivered
\* MaxDeliver times: then it stays in the stream and is never delivered.
Requeued(m) ==
  [queue EXCEPT ![m] =
     IF deliveries[m] < MaxDeliver THEN "ready" ELSE "exhausted"]

-----------------------------------------------------------------------------
(* SendNotification: publish and wait for the stream's answer.             *)

\* The message is stored in the stream; the producer learns so, or the
\* answer is lost and the call fails although the message is in.
Send(m) ==
  /\ answer[m] = "none"
  /\ queue' = [queue EXCEPT ![m] = "ready"]
  /\ \/ answer' = [answer EXCEPT ![m] = "accepted"] /\ NoFail
     \/ answer' = [answer EXCEPT ![m] = "failed"] /\ Fail
  /\ UNCHANGED <<deliveries, buffer, hand, stored, announced>>

\* The call is rejected or the publish fails: nothing is in the stream.
SendFails(m) ==
  /\ answer[m] = "none"
  /\ answer' = [answer EXCEPT ![m] = "failed"]
  /\ UNCHANGED <<queue, deliveries, buffer, hand, stored, announced, failures>>

-----------------------------------------------------------------------------
(* JetStream: a durable pull consumer with explicit acknowledgement.       *)

Deliver(w, m) ==
  /\ queue[m] = "ready"
  /\ queue' = [queue EXCEPT ![m] = "pending"]
  /\ deliveries' = [deliveries EXCEPT ![m] = @ + 1]
  /\ buffer' = [buffer EXCEPT ![w] = @ \cup {<<m, deliveries[m] + 1>>}]
  /\ UNCHANGED <<answer, hand, stored, announced, failures>>

\* ack_wait runs out.  With a copy still held this is a processor that is
\* too slow, and counts as a failure.
AckWaitExpires(m) ==
  /\ queue[m] = "pending"
  /\ IF Held(m) THEN Fail ELSE NoFail
  /\ queue' = Requeued(m)
  /\ UNCHANGED <<answer, deliveries, buffer, hand, stored, announced>>

-----------------------------------------------------------------------------
(* The processor.                                                          *)

Step(w, stage) == hand' = [hand EXCEPT ![w].stage = stage]

\* Mutant: the copy is kept instead of its message.
TakeCopy(w) ==
  /\ hand[w].stage = "idle"
  /\ \E copy \in buffer[w] :
       /\ hand' = [hand EXCEPT ![w] =
                     [stage |-> "load", msg |-> copy, deliver |-> FALSE]]
       /\ buffer' = [buffer EXCEPT ![w] = @ \ {copy}]
  /\ UNCHANGED <<answer, queue, deliveries, stored, announced, failures>>

Take(w) ==
  /\ hand[w].stage = "idle"
  /\ \E copy \in buffer[w] :
       /\ hand' = [hand EXCEPT ![w] =
                     [stage |-> "load", msg |-> copy[1], deliver |-> FALSE]]
       /\ buffer' = [buffer EXCEPT ![w] = @ \ {copy}]
  /\ UNCHANGED <<answer, queue, deliveries, stored, announced, failures>>

\* Mutant: the message is acknowledged on an error.
LoadAcknowledges(w) ==
  /\ hand[w].stage = "load"
  /\ \/ /\ \E deliver \in BOOLEAN :
             hand' = [hand EXCEPT ![w] =
                        [@ EXCEPT !.stage = "insert", !.deliver = deliver]]
        /\ NoFail
     \/ Step(w, "ack") /\ Fail
  /\ UNCHANGED <<answer, queue, deliveries, buffer, stored, announced>>

\* Type, level and preferences through the caches, then preference
\* resolution; a database error ends in a negative acknowledgement.
Load(w) ==
  /\ hand[w].stage = "load"
  /\ \/ /\ \E deliver \in BOOLEAN :
             hand' = [hand EXCEPT ![w] =
                        [@ EXCEPT !.stage = "insert", !.deliver = deliver]]
        /\ NoFail
     \/ Step(w, "nak") /\ Fail
  /\ UNCHANGED <<answer, queue, deliveries, buffer, stored, announced>>

\* The insert is refused if a row with this id or key is there already.
\* Otherwise the row is in; the processor goes on, or loses the answer and
\* takes the insert for failed.
Insert(w) ==
  /\ hand[w].stage = "insert"
  /\ LET m == hand[w].msg IN
     \/ Conflicts(m) # {} /\ Step(w, "nak") /\ NoFail /\ UNCHANGED stored
     \/ /\ Conflicts(m) = {}
        /\ stored' = [stored EXCEPT ![m] =
                        IF hand[w].deliver THEN "unseen" ELSE "archived"]
        /\ \/ Step(w, IF hand[w].deliver THEN "publish" ELSE "ack") /\ NoFail
           \/ Step(w, "nak") /\ Fail
     \/ Step(w, "nak") /\ Fail /\ UNCHANGED stored
  /\ UNCHANGED <<answer, queue, deliveries, buffer, announced>>

\* A publish that fails is only logged.
Publish(w) ==
  /\ hand[w].stage = "publish"
  /\ Step(w, "ack")
  /\ \/ announced' = [announced EXCEPT ![hand[w].msg] = @ + 1] /\ NoFail
     \/ UNCHANGED announced /\ Fail
  /\ UNCHANGED <<answer, queue, deliveries, buffer, stored>>

\* Whichever delivery it answers, an acknowledgement takes the message out
\* of the work queue; nobody waits for it and it may be lost.
Ack(w) ==
  /\ hand[w].stage = "ack"
  /\ hand' = [hand EXCEPT ![w] = Idle]
  /\ \/ queue' = [queue EXCEPT ![hand[w].msg] = "removed"] /\ NoFail
     \/ UNCHANGED queue /\ Fail
  /\ UNCHANGED <<answer, deliveries, buffer, stored, announced>>

\* A negative acknowledgement only counts while the message is pending.
Nak(w) ==
  /\ hand[w].stage = "nak"
  /\ hand' = [hand EXCEPT ![w] = Idle]
  /\ \/ /\ queue' = IF queue[hand[w].msg] = "pending"
                      THEN Requeued(hand[w].msg) ELSE queue
        /\ NoFail
     \/ UNCHANGED queue /\ Fail
  /\ UNCHANGED <<answer, deliveries, buffer, stored, announced>>

\* The instance stops and starts again with nothing in hand.
Crash(w) ==
  /\ Fail
  /\ hand' = [hand EXCEPT ![w] = Idle]
  /\ buffer' = [buffer EXCEPT ![w] = {}]
  /\ UNCHANGED <<answer, queue, deliveries, stored, announced>>

-----------------------------------------------------------------------------

Process(w) == Load(w) \/ Insert(w) \/ Publish(w) \/ Ack(w) \/ Nak(w)

Next ==
  \/ \E m \in Msgs : Send(m) \/ SendFails(m) \/ AckWaitExpires(m)
  \/ \E w \in Workers, m \in Msgs : Deliver(w, m)
  \/ \E w \in Workers : Take(w) \/ Process(w) \/ Crash(w)

Spec == Init /\ [][Next]_vars

\* JetStream keeps delivering and its timer runs; a processor that has a copy
\* works on it.  Nothing makes a producer send.
Fairness ==
  /\ \A m \in Msgs : /\ WF_vars(\E w \in Workers : Deliver(w, m))
                     /\ WF_vars(AckWaitExpires(m))
  /\ \A w \in Workers : WF_vars(Take(w)) /\ WF_vars(Process(w))

FairSpec == Spec /\ Fairness

-----------------------------------------------------------------------------
(* Safety.                                                                 *)

\* A message leaves the queue only when its own row is in the table.
RemovedOnlyIfStored ==
  \A m \in Msgs : queue[m] = "removed" => stored[m] # "none"

\* Nothing is given up for nothing: what leaves the queue is stored, and what
\* the producer was told is accepted is in the table, under its own id or that
\* of another message with its key, or will be delivered again, or as many
\* failures have befallen the pipeline as JetStream attempts deliveries.
AcceptedIsKept ==
  /\ RemovedOnlyIfStored
  /\ \A m \in Msgs :
       answer[m] = "accepted" =>
         \/ Conflicts(m) # {}
         \/ queue[m] \in {"ready", "pending"}
         \/ failures >= MaxDeliver

\* The pipeline implements the abstract mailbox.
Abstract == INSTANCE Mailbox

ImplementsMailbox == Abstract!Spec

-----------------------------------------------------------------------------
(* Liveness, under FairSpec.                                               *)

\* A message the producer was told is accepted ends up in the table, under
\* its own id or that of another message with its key, as long as there are
\* fewer failures than deliveries.
AcceptedIsStored ==
  \A m \in Msgs : answer[m] = "accepted" ~> Conflicts(m) # {}

-----------------------------------------------------------------------------
(* What the documentation says and the code does not do.                   *)

\* docs/architecture.md:318: each message is processed by exactly one
\* consumer instance, then removed.  A message that is stored and answered by
\* a negative acknowledgement, because the answer of the insert was lost, is
\* delivered again and refused by its own row each time; when its deliveries
\* are used up it stays in the stream and no processor has a copy left.
ProcessedThenRemoved ==
  \A m \in Msgs : queue[m] = "exhausted" /\ stored[m] # "none" => Held(m)
=============================================================================
