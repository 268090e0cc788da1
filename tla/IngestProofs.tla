---------------------------- MODULE IngestProofs -----------------------------
(***************************************************************************)
(* Proofs about Ingest, for any messages, keys, processors and bounds.     *)
(***************************************************************************)
EXTENDS Ingest, FiniteSetTheorems, TLAPS

-----------------------------------------------------------------------------
(* Type correctness: TypeOK is inductive by itself.                        *)

LEMMA RequeuedType ==
  ASSUME TypeOK, NEW m \in Msgs
  PROVE  Requeued(m) \in [Msgs -> {"none", "ready", "pending", "exhausted", "removed"}]
BY DEF Requeued, TypeOK

\* A processor moves to another stage with the message it has, or is idle.
LEMMA StepType ==
  ASSUME TypeOK, NEW w \in Workers, hand[w].stage # "idle",
         NEW stage \in Stages, Step(w, stage)
  PROVE  /\ hand' \in [Workers -> Hand]
         /\ \A x \in Workers : hand'[x].stage # "idle" => hand'[x].msg \in Msgs
<1>1. hand[w] \in Hand /\ hand[w].msg \in Msgs
  BY DEF TypeOK
<1>2. [hand[w] EXCEPT !.stage = stage] \in Hand
  BY <1>1 DEF Hand
<1>3. hand' = [hand EXCEPT ![w] = [hand[w] EXCEPT !.stage = stage]]
  BY DEF Step, TypeOK
<1> QED
  BY <1>1, <1>2, <1>3 DEF TypeOK, Hand

LEMMA IdleType ==
  ASSUME TypeOK, NEW w \in Workers, hand' = [hand EXCEPT ![w] = Idle]
  PROVE  /\ hand' \in [Workers -> Hand]
         /\ \A x \in Workers : hand'[x].stage # "idle" => hand'[x].msg \in Msgs
<1>1. Idle \in Hand /\ Idle.stage = "idle"
  BY DEF Idle, Hand, Stages
<1> QED
  BY <1>1 DEF TypeOK

LEMMA FailureType == ASSUME TypeOK, Fail \/ NoFail PROVE failures' \in Nat
BY DEF TypeOK, Fail, NoFail

LEMMA InitType == Init => TypeOK
BY DeliverAssumption DEF Init, TypeOK, Hand, Idle, Stages

LEMMA ProcessType ==
  ASSUME TypeOK, NEW w \in Workers, Process(w)
  PROVE  TypeOK'
<1>1. CASE Load(w)
  <2>1. CASE \E deliver \in BOOLEAN :
               hand' = [hand EXCEPT ![w] =
                          [@ EXCEPT !.stage = "insert", !.deliver = deliver]]
    <3>1. PICK deliver \in BOOLEAN :
            hand' = [hand EXCEPT ![w] =
                       [@ EXCEPT !.stage = "insert", !.deliver = deliver]]
      BY <2>1
    <3>2. hand[w] \in Hand /\ hand[w].msg \in Msgs
      BY <1>1 DEF Load, TypeOK
    <3>3. [hand[w] EXCEPT !.stage = "insert", !.deliver = deliver] \in Hand
      BY <3>2 DEF Hand, Stages
    <3>4. /\ hand' \in [Workers -> Hand]
          /\ \A x \in Workers : hand'[x].stage # "idle" => hand'[x].msg \in Msgs
      BY <3>1, <3>2, <3>3 DEF TypeOK, Hand
    <3> QED BY <1>1, <3>4, FailureType DEF Load, TypeOK
  <2>2. CASE Step(w, "nak")
    BY <1>1, <2>2, StepType, FailureType DEF Load, TypeOK, Stages
  <2> QED BY <1>1, <2>1, <2>2 DEF Load
<1>2. CASE Insert(w)
  <2>1. \E stage \in Stages : Step(w, stage)
    BY <1>2 DEF Insert, Stages
  <2>2. stored' \in [Msgs -> {"none", "unseen", "archived"}]
    BY <1>2 DEF Insert, TypeOK
  <2> QED BY <1>2, <2>1, <2>2, StepType, FailureType DEF Insert, TypeOK
<1>3. CASE Publish(w)
  <2>1. announced' \in [Msgs -> Nat]
    BY <1>3 DEF Publish, TypeOK
  <2> QED BY <1>3, <2>1, StepType, FailureType DEF Publish, TypeOK, Stages
<1>4. CASE Ack(w)
  <2>1. queue' \in [Msgs -> {"none", "ready", "pending", "exhausted", "removed"}]
    BY <1>4 DEF Ack, TypeOK
  <2> QED BY <1>4, <2>1, IdleType, FailureType DEF Ack, TypeOK
<1>5. CASE Nak(w)
  <2>1. queue' \in [Msgs -> {"none", "ready", "pending", "exhausted", "removed"}]
    BY <1>5, RequeuedType DEF Nak, TypeOK
  <2> QED BY <1>5, <2>1, IdleType, FailureType DEF Nak, TypeOK
<1> QED
  BY <1>1, <1>2, <1>3, <1>4, <1>5 DEF Process

LEMMA NextType == TypeOK /\ [Next]_vars => TypeOK'
<1> SUFFICES ASSUME TypeOK, [Next]_vars PROVE TypeOK'
  OBVIOUS
<1>1. CASE \E m \in Msgs : Send(m) \/ SendFails(m) \/ AckWaitExpires(m)
  <2>1. PICK m \in Msgs : Send(m) \/ SendFails(m) \/ AckWaitExpires(m)
    BY <1>1
  <2>2. CASE Send(m) BY <2>2, FailureType DEF Send, TypeOK
  <2>3. CASE SendFails(m) BY <2>3 DEF SendFails, TypeOK
  <2>4. CASE AckWaitExpires(m)
    BY <2>4, RequeuedType, FailureType DEF AckWaitExpires, TypeOK
  <2> QED BY <2>1, <2>2, <2>3, <2>4
<1>2. CASE \E w \in Workers, m \in Msgs : Deliver(w, m)
  BY <1>2 DEF Deliver, TypeOK
<1>3. CASE \E w \in Workers : Take(w)
  <2>1. PICK w \in Workers : Take(w)
    BY <1>3
  <2>2. PICK copy \in buffer[w] :
          /\ hand' = [hand EXCEPT ![w] =
                        [stage |-> "load", msg |-> copy[1], deliver |-> FALSE]]
          /\ buffer' = [buffer EXCEPT ![w] = @ \ {copy}]
    BY <2>1 DEF Take
  <2>3. copy[1] \in Msgs
    BY DEF TypeOK
  <2>4. [stage |-> "load", msg |-> copy[1], deliver |-> FALSE] \in Hand
    BY <2>3 DEF Hand, Stages
  <2>5. buffer' \in [Workers -> SUBSET (Msgs \X Nat)]
    BY <2>2 DEF TypeOK
  <2> QED BY <2>1, <2>2, <2>3, <2>4, <2>5 DEF Take, TypeOK
<1>4. CASE \E w \in Workers : Process(w)
  BY <1>4, ProcessType
<1>5. CASE \E w \in Workers : Crash(w)
  BY <1>5, IdleType, FailureType DEF Crash, TypeOK
<1>6. CASE UNCHANGED vars
  BY <1>6 DEF vars, TypeOK
<1> QED
  BY <1>1, <1>2, <1>3, <1>4, <1>5, <1>6 DEF Next

\* Every reachable state of the pipeline is well typed.
THEOREM TypeCorrect == Spec => []TypeOK
BY InitType, NextType, PTL DEF Spec

-----------------------------------------------------------------------------
(* The invariant behind the promises.  What a processor is about to do was *)
(* earned: it acknowledges only what is stored, and announces only what it *)
(* stored itself, which nobody else has announced or is about to.          *)

AcksStored ==
  \A w \in Workers : hand[w].stage = "ack" => stored[hand[w].msg] # "none"

PublishesUnannounced ==
  \A w \in Workers : hand[w].stage = "publish" =>
    stored[hand[w].msg] = "unseen" /\ announced[hand[w].msg] = 0

OnePublisher ==
  \A w, x \in Workers :
    hand[w].stage = "publish" /\ hand[x].stage = "publish" /\ hand[w].msg = hand[x].msg
      => w = x

AnnouncedStored ==
  \A m \in Msgs : announced[m] <= 1 /\ (announced[m] > 0 => stored[m] = "unseen")

OneRowPerKey ==
  \A m, n \in Msgs :
    stored[m] # "none" /\ stored[n] # "none" /\ SameKey(m, n) => m = n

Inv ==
  /\ RemovedOnlyIfStored
  /\ AcksStored
  /\ PublishesUnannounced
  /\ OnePublisher
  /\ AnnouncedStored
  /\ OneRowPerKey

LEMMA InitInv == Init => Inv
BY DEF Init, Inv, RemovedOnlyIfStored, AcksStored, PublishesUnannounced,
       OnePublisher, AnnouncedStored, OneRowPerKey, Idle

LEMMA InvAnnouncedOnce == TypeOK /\ Inv => Abstract!AnnouncedAtMostOnce
<1> SUFFICES ASSUME TypeOK, Inv, NEW m \in Msgs
             PROVE  /\ announced[m] <= 1
                    /\ announced[m] > 0 =>
                         /\ stored[m] = "unseen"
                         /\ \A n \in Msgs : n # m /\ SameKey(m, n) => announced[n] = 0
  BY DEF Abstract!AnnouncedAtMostOnce, Abstract!SameKey, SameKey
<1>1. announced[m] <= 1 /\ (announced[m] > 0 => stored[m] = "unseen")
  BY DEF Inv, AnnouncedStored
<1>2. ASSUME announced[m] > 0, NEW n \in Msgs, n # m, SameKey(m, n)
      PROVE  announced[n] = 0
  <2>1. stored[n] = "none"
    BY <1>1, <1>2 DEF Inv, OneRowPerKey
  <2> QED BY <2>1 DEF Inv, AnnouncedStored, TypeOK
<1> QED
  BY <1>1, <1>2

-----------------------------------------------------------------------------
(* Steps.                                                                  *)

\* A step that stores and announces nothing, puts no processor at publishing
\* or acknowledging and removes nothing keeps Inv.
LEMMA Harmless ==
  ASSUME Inv, UNCHANGED <<stored, announced>>,
         \A m \in Msgs : queue'[m] = "removed" => stored[m] # "none",
         \A w \in Workers :
           hand'[w].stage \in {"ack", "publish"} => hand'[w] = hand[w]
  PROVE  Inv'
<1>1. RemovedOnlyIfStored' BY DEF RemovedOnlyIfStored
<1>2. AcksStored' BY DEF Inv, AcksStored
<1>3. PublishesUnannounced' BY DEF Inv, PublishesUnannounced
<1>4. OnePublisher' BY DEF Inv, OnePublisher
<1>5. AnnouncedStored' BY DEF Inv, AnnouncedStored
<1>6. OneRowPerKey' BY DEF Inv, OneRowPerKey, SameKey
<1> QED
  BY <1>1, <1>2, <1>3, <1>4, <1>5, <1>6 DEF Inv

LEMMA RequeuedRemovesNothing ==
  ASSUME TypeOK, Inv, NEW m \in Msgs, queue' = Requeued(m)
  PROVE  \A n \in Msgs : queue'[n] = "removed" => stored[n] # "none"
BY DEF Requeued, TypeOK, Inv, RemovedOnlyIfStored

\* The row goes in: no row has the id or the key, so nobody is announcing it.
LEMMA StoreKeepsInv ==
  ASSUME TypeOK, Inv, NEW w \in Workers, hand[w].stage = "insert",
         Conflicts(hand[w].msg) = {},
         stored' = [stored EXCEPT ![hand[w].msg] =
                      IF hand[w].deliver THEN "unseen" ELSE "archived"],
         NEW stage \in Stages, Step(w, stage),
         stage = "publish" => hand[w].deliver,
         UNCHANGED <<queue, announced>>
  PROVE  Inv'
<1> DEFINE m == hand[w].msg
<1>1. m \in Msgs /\ stored[m] = "none" /\ stored'[m] \in {"unseen", "archived"}
  BY DEF TypeOK, Conflicts
<1>2. /\ \A n \in Msgs : n # m => stored'[n] = stored[n]
      /\ \A n \in Msgs : stored[n] # "none" => stored'[n] = stored[n]
  BY <1>1 DEF TypeOK
<1>3. /\ hand'[w].msg = m /\ hand'[w].stage = stage
      /\ \A x \in Workers : x # w => hand'[x] = hand[x]
  BY DEF Step, TypeOK, Hand
<1>4. \A x \in Workers : hand[x].stage = "publish" => hand[x].msg # m
  BY <1>1 DEF Inv, PublishesUnannounced
<1>5. announced[m] = 0
  BY <1>1 DEF Inv, AnnouncedStored, TypeOK
<1>6. RemovedOnlyIfStored'
  BY <1>1, <1>2 DEF Inv, RemovedOnlyIfStored
<1>7. AcksStored'
  BY <1>1, <1>2, <1>3 DEF Inv, AcksStored, TypeOK
<1>8. PublishesUnannounced'
  <2>1. stage = "publish" => stored'[m] = "unseen"
    BY <1>1 DEF TypeOK
  <2>2. \A x \in Workers : x # w /\ hand[x].stage = "publish" =>
          hand[x].msg \in Msgs /\ stored[hand[x].msg] = "unseen"
    BY DEF Inv, PublishesUnannounced, TypeOK
  <2> QED BY <1>2, <1>3, <1>5, <2>1, <2>2 DEF Inv, PublishesUnannounced
<1>9. OnePublisher'
  BY <1>3, <1>4 DEF Inv, OnePublisher
<1>10. AnnouncedStored'
  BY <1>2, <1>1 DEF Inv, AnnouncedStored, TypeOK
<1>11. OneRowPerKey'
  <2>1. \A n \in Msgs : SameKey(m, n) \/ SameKey(n, m) => stored[n] = "none"
    BY <1>1 DEF Conflicts, SameKey
  <2> QED BY <1>1, <1>2, <2>1 DEF Inv, OneRowPerKey, SameKey
<1> QED
  BY <1>6, <1>7, <1>8, <1>9, <1>10, <1>11 DEF Inv

LEMMA ProcessInv ==
  ASSUME TypeOK, Inv, NEW w \in Workers, Process(w)
  PROVE  Inv'
<1>1. CASE Load(w)
  <2>1. \A x \in Workers : hand'[x].stage \in {"ack", "publish"} => hand'[x] = hand[x]
    BY <1>1 DEF Load, Step, TypeOK, Hand
  <2> QED BY <1>1, <2>1, Harmless DEF Load, Inv, RemovedOnlyIfStored
<1>2. CASE Insert(w)
  <2>1. CASE Conflicts(hand[w].msg) = {}
             /\ stored' = [stored EXCEPT ![hand[w].msg] =
                             IF hand[w].deliver THEN "unseen" ELSE "archived"]
             /\ \/ Step(w, IF hand[w].deliver THEN "publish" ELSE "ack")
                \/ Step(w, "nak")
    <3>1. PICK stage \in Stages :
            Step(w, stage) /\ (stage = "publish" => hand[w].deliver)
      BY <2>1 DEF Stages
    <3> QED BY <1>2, <2>1, <3>1, StoreKeepsInv DEF Insert
  <2>2. CASE Step(w, "nak") /\ UNCHANGED stored
    <3>1. \A x \in Workers : hand'[x].stage \in {"ack", "publish"} => hand'[x] = hand[x]
      BY <2>2 DEF Step, TypeOK, Hand
    <3> QED BY <1>2, <2>2, <3>1, Harmless DEF Insert, Inv, RemovedOnlyIfStored
  <2> QED BY <1>2, <2>1, <2>2 DEF Insert
<1>3. CASE Publish(w)
  <2> DEFINE m == hand[w].msg
  <2>1. /\ m \in Msgs /\ stored[m] = "unseen" /\ announced[m] = 0
        /\ UNCHANGED <<queue, stored>>
    BY <1>3 DEF Publish, TypeOK, Inv, PublishesUnannounced
  <2>2. /\ hand'[w].msg = m /\ hand'[w].stage = "ack"
        /\ \A x \in Workers : x # w => hand'[x] = hand[x]
    BY <1>3 DEF Publish, Step, TypeOK, Hand
  <2>3. /\ announced'[m] \in {0, 1}
        /\ \A n \in Msgs : n # m => announced'[n] = announced[n]
    BY <1>3, <2>1 DEF Publish, TypeOK
  <2>4. RemovedOnlyIfStored' BY <2>1 DEF Inv, RemovedOnlyIfStored
  <2>5. AcksStored' BY <2>1, <2>2 DEF Inv, AcksStored
  <2>6. PublishesUnannounced'
    <3>1. \A x \in Workers : x # w /\ hand[x].stage = "publish" =>
            hand[x].msg \in Msgs /\ hand[x].msg # m
      BY <1>3 DEF Publish, Inv, OnePublisher, TypeOK
    <3> QED BY <2>1, <2>2, <2>3, <3>1 DEF Inv, PublishesUnannounced
  <2>7. OnePublisher' BY <2>2 DEF Inv, OnePublisher
  <2>8. AnnouncedStored' BY <2>1, <2>3 DEF Inv, AnnouncedStored
  <2>9. OneRowPerKey' BY <2>1 DEF Inv, OneRowPerKey, SameKey
  <2> QED BY <2>4, <2>5, <2>6, <2>7, <2>8, <2>9 DEF Inv
<1>4. CASE Ack(w)
  <2>1. \A m \in Msgs : queue'[m] = "removed" => stored[m] # "none"
    BY <1>4 DEF Ack, Inv, AcksStored, RemovedOnlyIfStored, TypeOK
  <2>2. \A x \in Workers : hand'[x].stage \in {"ack", "publish"} => hand'[x] = hand[x]
    BY <1>4 DEF Ack, Idle, TypeOK
  <2> QED BY <1>4, <2>1, <2>2, Harmless DEF Ack
<1>5. CASE Nak(w)
  <2>1. \A m \in Msgs : queue'[m] = "removed" => stored[m] # "none"
    <3>1. hand[w].msg \in Msgs
      BY <1>5 DEF Nak, TypeOK
    <3> QED BY <1>5, <3>1, RequeuedRemovesNothing DEF Nak, Inv, RemovedOnlyIfStored
  <2>2. \A x \in Workers : hand'[x].stage \in {"ack", "publish"} => hand'[x] = hand[x]
    BY <1>5 DEF Nak, Idle, TypeOK
  <2> QED BY <1>5, <2>1, <2>2, Harmless DEF Nak
<1> QED
  BY <1>1, <1>2, <1>3, <1>4, <1>5 DEF Process

LEMMA NextInv == TypeOK /\ Inv /\ [Next]_vars => Inv'
<1> SUFFICES ASSUME TypeOK, Inv, [Next]_vars PROVE Inv'
  OBVIOUS
<1>1. CASE \E m \in Msgs : Send(m) \/ SendFails(m) \/ AckWaitExpires(m)
  <2>1. PICK m \in Msgs : Send(m) \/ SendFails(m) \/ AckWaitExpires(m)
    BY <1>1
  <2>2. \A n \in Msgs : queue'[n] = "removed" => stored[n] # "none"
    BY <2>1, RequeuedRemovesNothing
       DEF Send, SendFails, AckWaitExpires, Inv, RemovedOnlyIfStored, TypeOK
  <2>3. UNCHANGED <<stored, announced, hand>>
    BY <2>1 DEF Send, SendFails, AckWaitExpires
  <2> QED BY <2>2, <2>3, Harmless
<1>2. CASE \E w \in Workers, m \in Msgs : Deliver(w, m)
  <2>1. \A n \in Msgs : queue'[n] = "removed" => stored[n] # "none"
    BY <1>2 DEF Deliver, Inv, RemovedOnlyIfStored, TypeOK
  <2>2. UNCHANGED <<stored, announced, hand>>
    BY <1>2 DEF Deliver
  <2> QED BY <2>1, <2>2, Harmless
<1>3. CASE \E w \in Workers : Take(w)
  <2>1. \A x \in Workers : hand'[x].stage \in {"ack", "publish"} => hand'[x] = hand[x]
    BY <1>3 DEF Take, TypeOK
  <2> QED BY <1>3, <2>1, Harmless DEF Take, Inv, RemovedOnlyIfStored
<1>4. CASE \E w \in Workers : Process(w)
  BY <1>4, ProcessInv
<1>5. CASE \E w \in Workers : Crash(w)
  <2>1. \A x \in Workers : hand'[x].stage \in {"ack", "publish"} => hand'[x] = hand[x]
    BY <1>5 DEF Crash, Idle, TypeOK
  <2> QED BY <1>5, <2>1, Harmless DEF Crash, Inv, RemovedOnlyIfStored
<1>6. CASE UNCHANGED vars
  BY <1>6, Harmless DEF vars, Inv, RemovedOnlyIfStored
<1> QED
  BY <1>1, <1>2, <1>3, <1>4, <1>5, <1>6 DEF Next

LEMMA AlwaysInv == Spec => [](TypeOK /\ Inv)
BY InitType, NextType, InitInv, NextInv, PTL DEF Spec

\* One announcement at most for a notification and for a key, and only of
\* what is in the inbox.
THEOREM NothingTwice == Spec => []Abstract!AnnouncedAtMostOnce
BY AlwaysInv, InvAnnouncedOnce, PTL

-----------------------------------------------------------------------------
(* Nothing accepted is given up for nothing.  As long as a message is not  *)
(* in the table, each of its deliveries has cost a failure of its own, save *)
(* the one in progress: an error that is yet to be answered by a negative  *)
(* acknowledgement has been paid for already, and so has a copy that is    *)
(* held by nobody while the stream still waits for its acknowledgement.    *)

Naks(m) == {w \in Workers : hand[w].stage = "nak" /\ hand[w].msg = m}

InProgress(m) == IF queue[m] = "pending" /\ Held(m) THEN 1 ELSE 0

Accounted(m) ==
  /\ answer[m] = "none" => queue[m] = "none"
  /\ answer[m] = "accepted" => queue[m] # "none"
  /\ queue[m] = "exhausted" => deliveries[m] >= MaxDeliver
  /\ deliveries[m] + Cardinality(Naks(m)) <= failures + InProgress(m)

KeptInv ==
  \A m \in Msgs :
    /\ IsFiniteSet(Naks(m))
    /\ Conflicts(m) = {} => Accounted(m)

LEMMA KeptImpliesKept == TypeOK /\ Inv /\ KeptInv => AcceptedIsKept
<1> SUFFICES ASSUME TypeOK, Inv, KeptInv, NEW m \in Msgs, answer[m] = "accepted",
                    Conflicts(m) = {}, queue[m] \notin {"ready", "pending"}
             PROVE  failures >= MaxDeliver
  BY DEF AcceptedIsKept, Inv
<1>1. Accounted(m) /\ Cardinality(Naks(m)) \in Nat
  BY FS_CardinalityType DEF KeptInv
<1>2. queue[m] # "removed"
  BY DEF Inv, RemovedOnlyIfStored, Conflicts
<1>3. queue[m] = "exhausted"
  BY <1>1, <1>2 DEF Accounted, TypeOK
<1>4. deliveries[m] >= MaxDeliver /\ deliveries[m] <= failures
  BY <1>1, <1>3 DEF Accounted, InProgress, TypeOK
<1> QED
  BY <1>4, DeliverAssumption DEF TypeOK

LEMMA InitKept == Init => KeptInv
<1> SUFFICES ASSUME Init, NEW m \in Msgs
             PROVE  IsFiniteSet(Naks(m)) /\ Accounted(m)
  BY DEF KeptInv
<1>1. Naks(m) = {}
  BY DEF Init, Naks, Idle
<1>2. IsFiniteSet(Naks(m)) /\ Cardinality(Naks(m)) = 0
  BY <1>1, FS_EmptySet
<1> QED
  BY <1>2 DEF Init, Accounted, InProgress

\* No row leaves the table.
LEMMA ConflictsStay ==
  ASSUME TypeOK, [Next]_vars, NEW m \in Msgs, Conflicts(m)' = {}
  PROVE  Conflicts(m) = {}
<1>1. \A n \in Msgs : stored[n] # "none" => stored'[n] # "none"
  <2>1. CASE \E w \in Workers : Insert(w)
    BY <2>1 DEF Insert, TypeOK
  <2>2. CASE UNCHANGED stored
    BY <2>2
  <2> QED
    BY <2>1, <2>2 DEF Next, vars, Send, SendFails, AckWaitExpires, Deliver, Take,
                      Process, Load, Publish, Ack, Nak, Crash
<1> QED BY <1>1 DEF Conflicts, SameKey

\* When one processor moves, at most it joins or leaves those about to send
\* a negative acknowledgement.
LEMMA NaksStep ==
  ASSUME NEW m, NEW w \in Workers, IsFiniteSet(Naks(m)),
         \A x \in Workers : x # w => hand'[x] = hand[x]
  PROVE  /\ IsFiniteSet(Naks(m))'
         /\ Cardinality(Naks(m)) \in Nat
         /\ Cardinality(Naks(m))' = Cardinality(Naks(m))
              - (IF w \in Naks(m) THEN 1 ELSE 0) + (IF w \in Naks(m)' THEN 1 ELSE 0)
<1>1. /\ IsFiniteSet(Naks(m) \ {w})
      /\ Cardinality(Naks(m) \ {w}) =
           Cardinality(Naks(m)) - (IF w \in Naks(m) THEN 1 ELSE 0)
      /\ Cardinality(Naks(m)) \in Nat
      /\ Cardinality(Naks(m) \ {w}) \in Nat
  BY FS_RemoveElement, FS_CardinalityType
<1>2. CASE w \in Naks(m)'
  <2>1. Naks(m)' = (Naks(m) \ {w}) \cup {w}
    BY <1>2 DEF Naks
  <2> QED BY <1>1, <1>2, <2>1, FS_AddElement
<1>3. CASE w \notin Naks(m)'
  <2>1. Naks(m)' = Naks(m) \ {w}
    BY <1>3 DEF Naks
  <2> QED BY <1>1, <1>3, <2>1
<1> QED BY <1>2, <1>3

\* Every step moves one processor at most.
LEMMA NaksFinite ==
  ASSUME TypeOK, KeptInv, [Next]_vars
  PROVE  \A m \in Msgs : IsFiniteSet(Naks(m))'
<1>1. CASE UNCHANGED hand
  BY <1>1 DEF KeptInv, Naks
<1>2. CASE \E w \in Workers : Take(w) \/ Process(w) \/ Crash(w)
  <2>1. PICK w \in Workers : Take(w) \/ Process(w) \/ Crash(w)
    BY <1>2
  <2>2. \A x \in Workers : x # w => hand'[x] = hand[x]
    BY <2>1 DEF Take, Process, Load, Insert, Publish, Ack, Nak, Crash, Step, TypeOK
  <2> QED BY <2>2, NaksStep DEF KeptInv
<1> QED
  BY <1>1, <1>2 DEF Next, vars, Send, SendFails, AckWaitExpires, Deliver

\* A processor's step leaves the account of another message as it is.
LEMMA OtherMessage ==
  ASSUME TypeOK, KeptInv, NEW w \in Workers, Process(w),
         NEW m \in Msgs, hand[w].msg # m, Accounted(m)
  PROVE  Accounted(m)'
<1>1. /\ UNCHANGED <<answer, deliveries, buffer>>
      /\ queue'[m] = queue[m]
      /\ hand[w].stage # "idle"
      /\ \A x \in Workers : x # w => hand'[x] = hand[x]
      /\ hand'[w].stage = "idle" \/ hand'[w].msg = hand[w].msg
  <2>1. CASE Load(w) BY <2>1 DEF Load, Step, TypeOK, Hand
  <2>2. CASE Insert(w) BY <2>2 DEF Insert, Step, TypeOK, Hand
  <2>3. CASE Publish(w) BY <2>3 DEF Publish, Step, TypeOK, Hand
  <2>4. CASE Ack(w) BY <2>4 DEF Ack, Idle, TypeOK
  <2>5. CASE Nak(w) BY <2>5 DEF Nak, Requeued, Idle, TypeOK
  <2> QED BY <2>1, <2>2, <2>3, <2>4, <2>5 DEF Process
<1>2. failures' \in Nat /\ failures <= failures'
  <2>1. Fail \/ NoFail
    BY DEF Process, Load, Insert, Publish, Ack, Nak
  <2> QED BY <2>1 DEF Fail, NoFail, TypeOK
<1>3. Naks(m)' = Naks(m)
  BY <1>1 DEF Naks
<1>4. Held(m)' <=> Held(m)
  BY <1>1 DEF Held
<1>5. Cardinality(Naks(m)) \in Nat
  BY FS_CardinalityType DEF KeptInv
<1> QED
  BY <1>1, <1>2, <1>3, <1>4, <1>5 DEF Accounted, InProgress, TypeOK

\* A message is requeued only when it was pending, and given up only after
\* MaxDeliver deliveries.
LEMMA RequeuedEffect ==
  ASSUME TypeOK, NEW m \in Msgs, queue' = Requeued(m)
  PROVE  /\ queue'[m] \in {"ready", "exhausted"}
         /\ queue'[m] = "exhausted" => deliveries[m] >= MaxDeliver
         /\ \A n \in Msgs : n # m => queue'[n] = queue[n]
BY DeliverAssumption DEF Requeued, TypeOK

\* A processor's step on a message that stays out of the table: it goes on
\* without a failure, or its error is a failure, or it answers that error.
LEMMA OwnMessage ==
  ASSUME TypeOK, Inv, KeptInv, NEW w \in Workers, Process(w),
         NEW m \in Msgs, hand[w].msg = m, Accounted(m),
         Conflicts(m) = {}, Conflicts(m)' = {}
  PROVE  Accounted(m)'
<1>0. /\ m \in Msgs /\ stored[m] = "none" /\ stored'[m] = "none"
      /\ hand[w].stage # "idle" /\ Held(m)
      /\ IsFiniteSet(Naks(m)) /\ deliveries[m] \in Nat /\ failures \in Nat
  BY DEF Conflicts, Process, Load, Insert, Publish, Ack, Nak, Held, KeptInv, TypeOK
<1>1. \A x \in Workers : x # w => hand'[x] = hand[x]
  BY DEF Process, Load, Insert, Publish, Ack, Nak, Step, TypeOK
<1>2. /\ Cardinality(Naks(m)) \in Nat
      /\ Cardinality(Naks(m))' = Cardinality(Naks(m))
           - (IF w \in Naks(m) THEN 1 ELSE 0) + (IF w \in Naks(m)' THEN 1 ELSE 0)
  BY <1>0, <1>1, NaksStep
<1>3. CASE Load(w) \/ Insert(w)
  <2>1. /\ UNCHANGED <<answer, queue, deliveries, buffer>>
        /\ hand[w].stage # "nak"
        /\ hand'[w].msg = m /\ hand'[w].stage # "idle"
        /\ \/ hand'[w].stage = "insert" /\ NoFail
           \/ hand'[w].stage = "nak" /\ Fail
    <3>1. CASE Load(w)
      <4>1. /\ UNCHANGED <<answer, queue, deliveries, buffer>>
            /\ hand[w].stage = "load"
        BY <3>1 DEF Load
      <4>2. CASE NoFail /\ \E deliver \in BOOLEAN :
                   hand' = [hand EXCEPT ![w] =
                              [@ EXCEPT !.stage = "insert", !.deliver = deliver]]
        BY <1>0, <4>1, <4>2 DEF TypeOK, Hand
      <4>3. CASE Step(w, "nak") /\ Fail
        BY <1>0, <4>1, <4>3 DEF Step, TypeOK, Hand
      <4> QED BY <3>1, <4>2, <4>3 DEF Load
    <3>2. CASE Insert(w)
      <4>1. UNCHANGED stored
        BY <3>2, <1>0 DEF Insert, TypeOK
      <4>2. Step(w, "nak") /\ Fail
        BY <3>2, <1>0, <4>1 DEF Insert, TypeOK
      <4> QED BY <3>2, <4>2 DEF Insert, Step, TypeOK, Hand
    <3> QED BY <1>3, <3>1, <3>2
  <2>2. Held(m)'
    BY <2>1 DEF Held
  <2>3. w \notin Naks(m) /\ (w \in Naks(m)' <=> hand'[w].stage = "nak")
    BY <2>1 DEF Naks
  <2>4. Cardinality(Naks(m))' - Cardinality(Naks(m)) = failures' - failures
    BY <1>0, <1>2, <2>1, <2>3 DEF Fail, NoFail
  <2>5. failures' \in Nat /\ Cardinality(Naks(m))' \in Int
    BY <1>0, <1>2, <2>1 DEF Fail, NoFail
  <2> QED
    BY <1>0, <1>2, <2>1, <2>2, <2>4, <2>5 DEF Accounted, InProgress
<1>4. CASE Publish(w) \/ Ack(w)
  BY <1>0, <1>4 DEF Publish, Ack, Inv, AcksStored, PublishesUnannounced
<1>5. CASE Nak(w)
  <2>1. UNCHANGED <<answer, deliveries, buffer>> /\ hand'[w].stage = "idle"
    BY <1>5 DEF Nak, Idle, TypeOK
  <2>2. w \in Naks(m) /\ w \notin Naks(m)'
    BY <1>5, <2>1 DEF Nak, Naks
  <2>3. Cardinality(Naks(m))' = Cardinality(Naks(m)) - 1
    BY <1>2, <2>2
  <2>4. CASE NoFail /\ queue[m] = "pending" /\ queue' = Requeued(m)
    <3>1. queue'[m] \in {"ready", "exhausted"}
          /\ (queue'[m] = "exhausted" => deliveries[m] >= MaxDeliver)
      BY <2>4, RequeuedEffect
    <3> QED
      BY <1>0, <1>2, <2>1, <2>3, <2>4, <3>1 DEF Accounted, InProgress, NoFail
  <2>5. CASE NoFail /\ queue[m] # "pending" /\ queue' = queue
    BY <1>0, <1>2, <2>1, <2>3, <2>5 DEF Accounted, InProgress, NoFail
  <2>6. CASE Fail /\ queue' = queue
    BY <1>0, <1>2, <2>1, <2>3, <2>6 DEF Accounted, InProgress, Fail
  <2> QED BY <1>5, <2>4, <2>5, <2>6 DEF Nak
<1> QED BY <1>3, <1>4, <1>5 DEF Process

\* What the producer and JetStream do.
LEMMA StreamAccounts ==
  ASSUME TypeOK, KeptInv, NEW k \in Msgs,
         \/ Send(k) \/ SendFails(k) \/ AckWaitExpires(k)
         \/ \E w \in Workers : Deliver(w, k),
         NEW m \in Msgs, Accounted(m)
  PROVE  Accounted(m)'
<1>0. Cardinality(Naks(m)) \in Nat /\ deliveries[m] \in Nat /\ failures \in Nat
  BY FS_CardinalityType DEF KeptInv, TypeOK
<1>1. Naks(m)' = Naks(m)
  BY DEF Send, SendFails, AckWaitExpires, Deliver, Naks
<1>2. CASE Send(k) \/ SendFails(k)
  <2>1. /\ UNCHANGED <<deliveries, buffer, hand>>
        /\ Held(m)' <=> Held(m)
        /\ failures' \in Nat /\ failures <= failures'
    <3>1. UNCHANGED <<deliveries, buffer, hand>>
      BY <1>2 DEF Send, SendFails
    <3>2. failures' \in {failures, failures + 1}
      BY <1>2 DEF Send, SendFails, Fail, NoFail
    <3> QED BY <1>0, <3>1, <3>2 DEF Held
  <2>2. CASE k = m
    <3>1. queue[m] = "none" /\ queue'[m] \in {"none", "ready"}
          /\ answer'[m] \in {"accepted", "failed"}
          /\ (answer'[m] = "accepted" => queue'[m] = "ready")
      BY <1>2, <2>2 DEF Send, SendFails, Accounted, TypeOK
    <3> QED BY <1>0, <1>1, <2>1, <3>1 DEF Accounted, InProgress
  <2>3. CASE k # m
    <3>1. queue'[m] = queue[m] /\ answer'[m] = answer[m]
      BY <1>2, <2>3 DEF Send, SendFails, TypeOK
    <3> QED BY <1>0, <1>1, <2>1, <3>1 DEF Accounted, InProgress
  <2> QED BY <2>2, <2>3
<1>3. CASE AckWaitExpires(k)
  <2>1. /\ UNCHANGED <<answer, deliveries, buffer, hand>>
        /\ Held(m)' <=> Held(m)
        /\ failures' \in Nat /\ failures <= failures'
    BY <1>0, <1>3 DEF AckWaitExpires, Held, Fail, NoFail
  <2>2. CASE k = m
    <3>1. /\ queue[m] = "pending" /\ queue'[m] \in {"ready", "exhausted"}
          /\ queue'[m] = "exhausted" => deliveries[m] >= MaxDeliver
          /\ IF Held(m) THEN failures' = failures + 1 ELSE failures' = failures
      BY <1>3, <2>2, RequeuedEffect DEF AckWaitExpires, Fail, NoFail
    <3> QED BY <1>0, <1>1, <2>1, <3>1 DEF Accounted, InProgress
  <2>3. CASE k # m
    <3>1. queue'[m] = queue[m]
      BY <1>3, <2>3, RequeuedEffect DEF AckWaitExpires
    <3> QED BY <1>0, <1>1, <2>1, <3>1 DEF Accounted, InProgress
  <2> QED BY <2>2, <2>3
<1>4. CASE \E w \in Workers : Deliver(w, k)
  <2>1. PICK w \in Workers : Deliver(w, k)
    BY <1>4
  <2>2. UNCHANGED <<answer, hand, failures>>
    BY <2>1 DEF Deliver
  <2>3. CASE k = m
    <3>1. /\ queue[m] = "ready" /\ queue'[m] = "pending"
          /\ deliveries'[m] = deliveries[m] + 1
          /\ <<m, deliveries[m] + 1>> \in buffer'[w]
      BY <2>1, <2>3 DEF Deliver, TypeOK
    <3>2. deliveries[m] + 1 \in 1 .. deliveries'[m]
      BY <1>0, <3>1
    <3>3. Held(m)'
      BY <3>1, <3>2 DEF Held
    <3> QED BY <1>0, <1>1, <2>2, <3>1, <3>3 DEF Accounted, InProgress
  <2>4. CASE k # m
    <3>1. /\ queue'[m] = queue[m] /\ deliveries'[m] = deliveries[m]
          /\ \A x \in Workers : buffer[x] \subseteq buffer'[x]
      BY <2>1, <2>4 DEF Deliver, TypeOK
    <3>2. Held(m) => Held(m)'
      BY <2>2, <3>1 DEF Held
    <3> QED BY <1>0, <1>1, <2>2, <3>1, <3>2 DEF Accounted, InProgress
  <2> QED BY <2>3, <2>4
<1> QED BY <1>2, <1>3, <1>4

\* A processor takes a copy in hand, or crashes with what it had.
LEMMA TakeAccounts ==
  ASSUME TypeOK, KeptInv, NEW w \in Workers, Take(w), NEW m \in Msgs, Accounted(m)
  PROVE  Accounted(m)'
<1>1. PICK copy \in buffer[w] :
        /\ hand' = [hand EXCEPT ![w] =
                      [stage |-> "load", msg |-> copy[1], deliver |-> FALSE]]
        /\ buffer' = [buffer EXCEPT ![w] = @ \ {copy}]
  BY DEF Take
<1>2. /\ UNCHANGED <<answer, queue, deliveries, failures>>
      /\ hand[w].stage = "idle"
      /\ hand'[w].stage = "load" /\ hand'[w].msg = copy[1]
      /\ \A x \in Workers : x # w => hand'[x] = hand[x] /\ buffer'[x] = buffer[x]
      /\ buffer'[w] = buffer[w] \ {copy}
  BY <1>1 DEF Take, TypeOK
<1>3. Naks(m)' = Naks(m)
  BY <1>2 DEF Naks
<1>4. Held(m) => Held(m)'
  <2>1. SUFFICES ASSUME Held(m), copy[1] # m PROVE Held(m)'
    BY <1>2 DEF Held
  <2>2. \A n : <<m, n>> \in buffer[w] => <<m, n>> \in buffer'[w]
    BY <1>2, <2>1
  <2> QED BY <1>2, <2>1, <2>2 DEF Held
<1>5. Cardinality(Naks(m)) \in Nat /\ deliveries[m] \in Nat /\ failures \in Nat
  BY FS_CardinalityType DEF KeptInv, TypeOK
<1> QED BY <1>2, <1>3, <1>4, <1>5 DEF Accounted, InProgress

LEMMA CrashAccounts ==
  ASSUME TypeOK, KeptInv, NEW w \in Workers, Crash(w), NEW m \in Msgs, Accounted(m)
  PROVE  Accounted(m)'
<1>1. /\ UNCHANGED <<answer, queue, deliveries>>
      /\ failures' = failures + 1
      /\ hand'[w].stage = "idle"
      /\ \A x \in Workers : x # w => hand'[x] = hand[x]
  BY DEF Crash, Fail, Idle, TypeOK
<1>2. IsFiniteSet(Naks(m)) /\ w \notin Naks(m)'
  BY <1>1 DEF KeptInv, Naks
<1>3. /\ Cardinality(Naks(m)) \in Nat
      /\ Cardinality(Naks(m))' = Cardinality(Naks(m)) - (IF w \in Naks(m) THEN 1 ELSE 0)
  BY <1>1, <1>2, NaksStep
<1>4. deliveries[m] \in Nat /\ failures \in Nat
  BY DEF TypeOK
<1> QED BY <1>1, <1>3, <1>4 DEF Accounted, InProgress

LEMMA NextKept == TypeOK /\ Inv /\ KeptInv /\ [Next]_vars => KeptInv'
<1> SUFFICES ASSUME TypeOK, Inv, KeptInv, [Next]_vars,
                    NEW m \in Msgs, Conflicts(m)' = {}
             PROVE  Accounted(m)'
  BY NaksFinite DEF KeptInv
<1>1. Conflicts(m) = {} /\ Accounted(m)
  BY ConflictsStay DEF KeptInv
<1>2. CASE \/ \E k \in Msgs : Send(k) \/ SendFails(k) \/ AckWaitExpires(k)
           \/ \E w \in Workers, k \in Msgs : Deliver(w, k)
  BY <1>1, <1>2, StreamAccounts
<1>3. CASE \E w \in Workers : Take(w) \/ Crash(w)
  BY <1>1, <1>3, TakeAccounts, CrashAccounts
<1>4. CASE \E w \in Workers : Process(w)
  BY <1>1, <1>4, OtherMessage, OwnMessage
<1>5. CASE UNCHANGED vars
  BY <1>1, <1>5 DEF vars, Accounted, Naks, InProgress, Held
<1> QED
  BY <1>2, <1>3, <1>4, <1>5 DEF Next

\* A message leaves the work queue only after its row is in the table, and what
\* was accepted is in the table, or still to be delivered, or has met as
\* many failures as JetStream attempts deliveries, for any number of
\* messages, processors and deliveries.
THEOREM NothingGivenUp == Spec => []AcceptedIsKept
BY AlwaysInv, InitKept, NextKept, KeptImpliesKept, PTL DEF Spec

-----------------------------------------------------------------------------
(* Refinement.                                                             *)

LEMMA InitMailbox == Init => Abstract!Init
BY DEF Init, Abstract!Init

LEMMA StepMailbox ==
  TypeOK /\ Inv /\ [Next]_vars => [Abstract!Next]_<<stored, announced>>
<1> SUFFICES ASSUME TypeOK, Inv, [Next]_vars
             PROVE  Abstract!Next \/ UNCHANGED <<stored, announced>>
  OBVIOUS
<1>1. ASSUME NEW w \in Workers, Insert(w)
      PROVE  Abstract!Next \/ UNCHANGED <<stored, announced>>
  <2> DEFINE m == hand[w].msg
  <2>1. CASE UNCHANGED stored
    BY <1>1, <2>1 DEF Insert
  <2>2. CASE /\ Conflicts(m) = {}
             /\ stored' = [stored EXCEPT ![m] =
                             IF hand[w].deliver THEN "unseen" ELSE "archived"]
    <3>1. m \in Msgs
      BY <1>1 DEF Insert, TypeOK
    <3>2. \A n \in Msgs : n = m \/ Abstract!SameKey(m, n) => stored[n] = "none"
      BY <2>2 DEF Conflicts, SameKey, Abstract!SameKey
    <3>3. stored' \in {[stored EXCEPT ![m] = s] : s \in {"unseen", "archived"}}
      BY <2>2
    <3>4. Abstract!Store(m)
      BY <1>1, <3>2, <3>3 DEF Insert, Abstract!Store
    <3> QED BY <3>1, <3>4 DEF Abstract!Next
  <2> QED BY <1>1, <2>1, <2>2 DEF Insert
<1>2. ASSUME NEW w \in Workers, Publish(w)
      PROVE  Abstract!Next \/ UNCHANGED <<stored, announced>>
  <2> DEFINE m == hand[w].msg
  <2>1. m \in Msgs /\ stored[m] = "unseen" /\ announced[m] = 0
    BY <1>2 DEF Publish, TypeOK, Inv, PublishesUnannounced
  <2>2. CASE UNCHANGED announced
    BY <1>2, <2>2 DEF Publish
  <2>3. CASE announced' = [announced EXCEPT ![m] = @ + 1]
    <3>1. announced' = [announced EXCEPT ![m] = 1]
      BY <2>1, <2>3 DEF TypeOK
    <3>2. Abstract!Announce(m)
      BY <1>2, <2>1, <3>1 DEF Publish, Abstract!Announce
    <3> QED BY <2>1, <3>2 DEF Abstract!Next
  <2> QED BY <1>2, <2>2, <2>3 DEF Publish
<1>3. CASE \/ \E m \in Msgs : Send(m) \/ SendFails(m) \/ AckWaitExpires(m)
           \/ \E w \in Workers, m \in Msgs : Deliver(w, m)
           \/ \E w \in Workers : Take(w) \/ Load(w) \/ Ack(w) \/ Nak(w) \/ Crash(w)
           \/ UNCHANGED vars
  BY <1>3 DEF Send, SendFails, AckWaitExpires, Deliver, Take, Load, Ack, Nak,
              Crash, vars
<1> QED
  BY <1>1, <1>2, <1>3 DEF Next, Process

\* The pipeline implements the mailbox it promises to be.
THEOREM Refinement == Spec => ImplementsMailbox
<1>1. Init => Abstract!Init
  BY InitMailbox
<1>2. TypeOK /\ Inv /\ [Next]_vars => [Abstract!Next]_<<stored, announced>>
  BY StepMailbox
<1> QED
  BY <1>1, <1>2, AlwaysInv, PTL DEF Spec, ImplementsMailbox, Abstract!Spec

\* So a notification is stored, and announced, for good.
THEOREM StoredForGood == Spec => Abstract!StoredOnce
<1>1. TypeOK /\ [Abstract!Next]_<<stored, announced>> =>
        [ \A m \in Msgs : /\ stored[m] # "none" => stored'[m] = stored[m]
                          /\ announced[m] > 0 => announced'[m] = announced[m]
        ]_<<stored, announced>>
  <2> SUFFICES ASSUME TypeOK, NEW n \in Msgs, Abstract!Store(n) \/ Abstract!Announce(n),
                      NEW m \in Msgs
               PROVE  /\ stored[m] # "none" => stored'[m] = stored[m]
                      /\ announced[m] > 0 => announced'[m] = announced[m]
    BY DEF Abstract!Next
  <2>1. CASE Abstract!Store(n)
    BY <2>1 DEF Abstract!Store, TypeOK
  <2>2. CASE Abstract!Announce(n)
    BY <2>2 DEF Abstract!Announce, TypeOK
  <2> QED BY <2>1, <2>2
<1> QED
  BY <1>1, AlwaysInv, Refinement, PTL DEF ImplementsMailbox, Abstract!Spec, Abstract!StoredOnce
=============================================================================
