--------------------------- MODULE RealtimeProofs ----------------------------
(***************************************************************************)
(* Proofs about Realtime, for any clients, filters, queues, tasks and      *)
(* failures: its types, and that it implements Feed.                       *)
(***************************************************************************)
EXTENDS Realtime, FiniteSetTheorems, SequenceTheorems, TLAPS

-----------------------------------------------------------------------------
(* Queues.                                                                 *)

Held(q) == {q[k] : k \in 1 .. Len(q)}

\* x may be shown before y: another event, and no later one of its task.
Precedes(x, y) == x # y /\ (x.by = y.by => x.n <= y.n)

Before(A, B) == \A x \in A, y \in B : Precedes(x, y)

InOrder(q) == \A j, k \in 1 .. Len(q) : j < k => Precedes(q[j], q[k])

LEMMA HeadHeld ==
  ASSUME NEW S, NEW q \in Seq(S), q # <<>>
  PROVE  /\ Tail(q) \in Seq(S) /\ Len(Tail(q)) = Len(q) - 1 /\ Len(q) \in Nat \ {0}
         /\ Head(q) \in Held(q) /\ Head(q) \in S
         /\ Held(Tail(q)) \subseteq Held(q)
         /\ InOrder(q) => InOrder(Tail(q)) /\ Before({Head(q)}, Held(Tail(q)))
<1>1. /\ Len(q) \in Nat \ {0} /\ Head(q) = q[1] /\ Tail(q) \in Seq(S) /\ q[1] \in S
      /\ Len(Tail(q)) = Len(q) - 1
      /\ \A k \in 1 .. Len(q) - 1 : Tail(q)[k] = q[k + 1] /\ k + 1 \in 1 .. Len(q)
  OBVIOUS
<1>2. 1 \in 1 .. Len(q) /\ Head(q) \in Held(q)
  BY <1>1 DEF Held
<1>3. Held(Tail(q)) \subseteq Held(q)
  BY <1>1 DEF Held
<1>4. ASSUME InOrder(q)
      PROVE  InOrder(Tail(q)) /\ Before({Head(q)}, Held(Tail(q)))
  <2>1. InOrder(Tail(q))
    BY <1>1, <1>4 DEF InOrder
  <2>2. \A k \in 1 .. Len(q) - 1 : Precedes(Head(q), Tail(q)[k])
    BY <1>1, <1>2, <1>4 DEF InOrder
  <2> QED BY <1>1, <2>1, <2>2 DEF Before, Held
<1> QED BY <1>1, <1>2, <1>3, <1>4

LEMMA AppendAdds ==
  ASSUME NEW S, NEW q \in Seq(S), NEW e \in S
  PROVE  Held(Append(q, e)) = Held(q) \cup {e}
<1>1. /\ Len(Append(q, e)) = Len(q) + 1 /\ Len(q) \in Nat
      /\ \A k \in 1 .. Len(q) : Append(q, e)[k] = q[k]
      /\ Append(q, e)[Len(q) + 1] = e
  OBVIOUS
<1>2. 1 .. Len(q) + 1 = 1 .. Len(q) \cup {Len(q) + 1}
  BY <1>1
<1> QED BY <1>1, <1>2 DEF Held

LEMMA AppendHeld ==
  ASSUME NEW S, NEW q \in Seq(S), NEW e \in S
  PROVE  /\ Append(q, e) \in Seq(S) /\ Len(Append(q, e)) = Len(q) + 1 /\ Len(q) \in Nat
         /\ Append(q, e) # <<>>
         /\ Held(Append(q, e)) = Held(q) \cup {e}
         /\ InOrder(q) /\ Before(Held(q), {e}) => InOrder(Append(q, e))
<1>1. /\ Append(q, e) \in Seq(S) /\ Len(Append(q, e)) = Len(q) + 1 /\ Len(q) \in Nat
      /\ \A k \in 1 .. Len(q) : Append(q, e)[k] = q[k]
      /\ Append(q, e)[Len(q) + 1] = e
  OBVIOUS
<1>2. Held(Append(q, e)) = Held(q) \cup {e}
  BY AppendAdds
<1>3. ASSUME InOrder(q), Before(Held(q), {e})
      PROVE  InOrder(Append(q, e))
  <2>1. \A k \in 1 .. Len(q) : Precedes(q[k], e)
    BY <1>3 DEF Before, Held
  <2> SUFFICES ASSUME NEW j \in 1 .. Len(q) + 1, NEW k \in 1 .. Len(q) + 1, j < k
               PROVE  Precedes(Append(q, e)[j], Append(q, e)[k])
    BY <1>1 DEF InOrder
  <2>2. j \in 1 .. Len(q)
    BY <1>1
  <2>3. CASE k = Len(q) + 1
    BY <1>1, <2>1, <2>2, <2>3
  <2>4. CASE k # Len(q) + 1
    <3>1. k \in 1 .. Len(q)
      BY <1>1, <2>4
    <3> QED BY <1>1, <1>3, <2>2, <3>1 DEF InOrder
  <2> QED BY <2>3, <2>4
<1>4. Append(q, e) # <<>>
  BY <1>1
<1> QED BY <1>1, <1>2, <1>3, <1>4

LEMMA EmptyHeld ==
  /\ \A S : <<>> \in Seq(S)
  /\ Len(<<>>) = 0 /\ Held(<<>>) = {} /\ InOrder(<<>>)
BY DEF Held, InOrder

LEMMA OneHeld ==
  ASSUME NEW e
  PROVE  Held(<<e>>) = {e} /\ <<e>> # <<>>
BY DEF Held

\* What the relay's filter lets through of the subscriptions a client has is
\* what its request named, no less and no more.
LEMMA FilterIsRequest ==
  ASSUME NEW s \in Subscribers, NEW e
  PROVE  Wanted(s, e) <=> Passes(s, e) /\ (Subject(e) = "state" => s \in WithStates)
<1>1. Subject(e) \in {"new", "state"} /\ "new" # "state"
  BY DEF Subject
<1> QED BY <1>1 DEF Wanted, Passes

-----------------------------------------------------------------------------
(* The invariant.                                                          *)

\* What client s was shown or cannot be prevented from being shown.
Past(s) == got[s] \cup Held(channel[s]) \cup Held(relay[s].hand)

\* All that is on its way to client s happened and is wanted, or will be
\* filtered, and stands in the order in which it may be shown.
Line(s) ==
  /\ \A e \in Past(s) : e \in happened /\ Wanted(s, e)
  /\ InOrder(channel[s])
  /\ Before(got[s], Held(channel[s]))
  /\ Before(got[s] \cup Held(channel[s]), Held(relay[s].hand))
  /\ \A subject \in Subjects :
       /\ \A e \in Held(buffer[s][subject]) :
            /\ e \in happened /\ Subject(e) = subject
            /\ subject = "state" => s \in WithStates
       /\ InOrder(buffer[s][subject])
       /\ Before(Past(s), Held(buffer[s][subject]))
       /\ \A t \in Tasks : Before(Held(buffer[s][subject]), pass[t])
  /\ \A t \in Tasks : Before(Past(s), pass[t])

\* What a task has to publish is its own, and of its latest statement.
PassOfOneStatement ==
  \A t \in Tasks : \A e \in pass[t] :
    /\ e \in happened /\ e.by = t
    /\ \A g \in pass[t] : g.n = e.n

\* Statements are numbered without a gap.
Numbered == \E m \in 0 .. MaxStatements : Statements = 1 .. m

Inv ==
  /\ TypeOK
  /\ PassOfOneStatement
  /\ Numbered
  /\ \A s \in Subscribers : Line(s)

LEMMA Bounds ==
  /\ MaxStatements \in Nat /\ BufferSize \in Nat \ {0} /\ ChannelSize \in Nat \ {0}
  /\ MaxFailures \in Nat /\ WithStates \subseteq Subscribers
BY BoundAssumption, SubscriberAssumption

LEMMA RelayTypes ==
  /\ \A stage \in {"off", "opening", "reading", "ended"} :
       At(stage) \in Relay /\ At(stage).stage = stage /\ At(stage).hand = <<>>
  /\ \A e \in Event : [stage |-> "sending", hand |-> <<e>>] \in Relay
  /\ \A r \in Relay :
       \/ r.stage \in {"off", "opening", "reading", "ended"} /\ r.hand = <<>>
       \/ r.stage = "sending" /\ \E e \in Event : r.hand = <<e>>
BY DEF At, Relay

LEMMA QueueTypes ==
  ASSUME NEW size \in Nat, NEW S
  PROVE  /\ <<>> \in UpTo(size, S)
         /\ UpTo(size, S) \subseteq Seq(S)
         /\ \A q \in UpTo(size, S), e \in S :
              /\ Len(q) < size => Append(q, e) \in UpTo(size, S)
              /\ q # <<>> => Tail(q) \in UpTo(size, S) /\ Head(q) \in S
<1>1. <<>> \in UpTo(size, S)
  BY EmptyHeld DEF UpTo
<1>2. ASSUME NEW q \in UpTo(size, S), NEW e \in S, Len(q) < size
      PROVE  Append(q, e) \in UpTo(size, S)
  <2>1. Len(Append(q, e)) = Len(q) + 1 /\ Len(q) \in Nat /\ Append(q, e) \in Seq(S)
    BY AppendHeld DEF UpTo
  <2> QED BY <1>2, <2>1 DEF UpTo
<1>3. ASSUME NEW q \in UpTo(size, S), q # <<>>
      PROVE  Tail(q) \in UpTo(size, S) /\ Head(q) \in S
  <2>1. /\ Len(Tail(q)) = Len(q) - 1 /\ Len(q) \in Nat /\ Tail(q) \in Seq(S)
        /\ Head(q) \in S
    BY <1>3, HeadHeld DEF UpTo
  <2> QED BY <2>1 DEF UpTo
<1> QED BY <1>1, <1>2, <1>3 DEF UpTo

LEMMA EventTypes ==
  ASSUME TypeOK
  PROVE  /\ \A s \in Subscribers :
              /\ relay[s] \in Relay
              /\ channel[s] \in UpTo(ChannelSize, Event) /\ channel[s] \in Seq(Event)
              /\ buffer[s] \in [Subjects -> UpTo(BufferSize, Event)]
              /\ \A subject \in Subjects :
                   /\ buffer[s][subject] \in UpTo(BufferSize, Event)
                   /\ buffer[s][subject] \in Seq(Event)
         /\ \A e \in Event : Subject(e) \in Subjects /\ e.n \in Nat /\ e.by \in Tasks
<1>1. \A e \in Event : Subject(e) \in Subjects /\ e.n \in Nat /\ e.by \in Tasks
  BY DEF Event, Subject, Subjects
<1>2. ASSUME NEW s \in Subscribers
      PROVE  /\ relay[s] \in Relay
             /\ channel[s] \in UpTo(ChannelSize, Event)
             /\ buffer[s] \in [Subjects -> UpTo(BufferSize, Event)]
  BY DEF TypeOK
<1>3. ASSUME NEW size \in Nat PROVE UpTo(size, Event) \subseteq Seq(Event)
  BY QueueTypes
<1>4. BufferSize \in Nat /\ ChannelSize \in Nat
  BY Bounds
<1> QED BY <1>1, <1>2, <1>3, <1>4

LEMMA SilentTypes ==
  /\ Silent \in [Subjects -> UpTo(BufferSize, Event)]
  /\ \A subject \in Subjects : Silent[subject] = <<>>
BY QueueTypes, Bounds DEF Silent

LEMMA InitInv == Init => Inv
<1> SUFFICES ASSUME Init PROVE Inv
  OBVIOUS
<1>1. /\ \A s \in Subscribers : /\ relay[s] = At("off") /\ buffer[s] = Silent
                                /\ channel[s] = <<>> /\ got[s] = {}
      /\ \A t \in Tasks : pass[t] = {}
  BY DEF Init
<1>2. TypeOK
  <2>1. relay \in [Subscribers -> Relay] /\ channel \in [Subscribers -> UpTo(ChannelSize, Event)]
    BY QueueTypes, RelayTypes, Bounds DEF Init
  <2>2. buffer \in [Subscribers -> [Subjects -> UpTo(BufferSize, Event)]]
    BY SilentTypes DEF Init
  <2> QED BY <2>1, <2>2 DEF Init, TypeOK
<1>3. PassOfOneStatement BY <1>1 DEF PassOfOneStatement
<1>4. Numbered
  <2>1. Statements = 1 .. 0 /\ 0 \in 0 .. MaxStatements
    BY Bounds DEF Init, Statements
  <2> QED BY <2>1 DEF Numbered
<1>5. ASSUME NEW s \in Subscribers PROVE Line(s)
  BY <1>1, EmptyHeld, RelayTypes, SilentTypes DEF Line, Past, Before
<1> QED BY <1>2, <1>3, <1>4, <1>5 DEF Inv

\* A step that adds nothing to what is on its way to a client.
LEMMA LineKept ==
  ASSUME NEW s \in Subscribers, Line(s),
         got'[s] = got[s],
         channel'[s] \in {channel[s], <<>>},
         relay'[s].hand \in {relay[s].hand, <<>>},
         buffer'[s] \in {buffer[s], Silent},
         happened \subseteq happened',
         \A t \in Tasks : pass'[t] \subseteq pass[t]
  PROVE  Line(s)'
<1>1. /\ Held(channel'[s]) \subseteq Held(channel[s])
      /\ Held(relay'[s].hand) \subseteq Held(relay[s].hand)
      /\ InOrder(channel'[s])
  BY EmptyHeld DEF Line
<1>2. Past(s)' \subseteq Past(s)
  BY <1>1 DEF Past
<1>3. \A subject \in Subjects :
        /\ Held(buffer'[s][subject]) \subseteq Held(buffer[s][subject])
        /\ InOrder(buffer'[s][subject])
  BY EmptyHeld, SilentTypes DEF Line
<1> QED BY <1>1, <1>2, <1>3 DEF Line, Before, Wanted

-----------------------------------------------------------------------------
(* The statements.                                                         *)

\* The next statement has a number above all others.
LEMMA NextNumber ==
  ASSUME Inv
  PROVE  /\ Cardinality(Statements) \in Nat
         /\ Statements = 1 .. Cardinality(Statements)
         /\ \A e \in happened : e.n < Cardinality(Statements) + 1
<1>1. PICK m \in 0 .. MaxStatements : Statements = 1 .. m
  BY DEF Inv, Numbered
<1>2. m \in Nat
  BY Bounds
<1>3. Cardinality(1 .. m) = m
  BY <1>2, FS_Interval
<1>4. \A e \in happened : e.n \in 1 .. m
  BY <1>1 DEF Statements
<1> QED BY <1>1, <1>2, <1>3, <1>4

LEMMA StatementInv ==
  ASSUME Inv, NEW t \in Tasks, NEW batch \in SUBSET Ids, batch # {}, Statement(t, batch)
  PROVE  Inv'
<1> DEFINE n == Cardinality(Statements) + 1
           events == {[id |-> id, by |-> t, n |-> n] : id \in batch}
<1> USE DEF Inv
<1>1. /\ n \in Nat \ {0} /\ n <= MaxStatements /\ pass[t] = {}
      /\ happened' = happened \cup events
      /\ pass' = [pass EXCEPT ![t] = events]
      /\ UNCHANGED <<relay, buffer, channel, gone, got, lost, failures>>
      /\ \A e \in happened : e.n < n
  BY NextNumber DEF Statement, call
<1>2. /\ events \subseteq Event /\ events # {}
      /\ \A e \in events : e.by = t /\ e.n = n
  <2>1. n \in 1 .. MaxStatements
    BY <1>1, NextNumber
  <2> HIDE DEF n
  <2>2. \A id \in batch : [id |-> id, by |-> t, n |-> n] \in Event
    BY <2>1 DEF Event
  <2>3. \A e \in events : \E id \in batch : e = [id |-> id, by |-> t, n |-> n]
    OBVIOUS
  <2>4. events # {}
    OBVIOUS
  <2> QED BY <2>2, <2>3, <2>4
<1> HIDE DEF n, events
<1>3. pass'[t] = events /\ \A u \in Tasks \ {t} : pass'[u] = pass[u]
  BY <1>1 DEF TypeOK
<1>4. TypeOK'
  BY <1>1, <1>2 DEF TypeOK
<1>5. PassOfOneStatement'
  BY <1>1, <1>2, <1>3 DEF PassOfOneStatement
<1>6. Numbered'
  <2>1. Statements' = Statements \cup {n}
    <3>1. Statements' = Statements \cup {e.n : e \in events}
      BY <1>1 DEF Statements
    <3>2. {e.n : e \in events} = {n}
      BY <1>2
    <3> QED BY <3>1, <3>2
  <2>2. Statements = 1 .. n - 1
    BY NextNumber DEF n
  <2>3. Statements' = 1 .. n /\ n \in 0 .. MaxStatements
    BY <1>1, <2>1, <2>2
  <2> QED BY <2>3 DEF Numbered
<1>7. ASSUME NEW s \in Subscribers PROVE Line(s)'
  <2>1. \A x \in happened, y \in events : Precedes(x, y)
    <3> SUFFICES ASSUME NEW x \in happened, NEW y \in events
                 PROVE  Precedes(x, y)
      OBVIOUS
    <3>1. x.n \in Nat /\ x.n < n /\ y.n = n
      BY <1>1, <1>2, EventTypes DEF TypeOK
    <3> QED BY <1>1, <3>1 DEF Precedes
  <2>2. \A u \in Tasks : pass'[u] \subseteq pass[u] \cup events
    BY <1>3
  <2>3. Past(s)' = Past(s)
    BY <1>1 DEF Past
  <2>4. \A u \in Tasks : Before(Past(s), pass'[u])
    BY <2>1, <2>2 DEF Line, Before
  <2>5. \A subject \in Subjects, u \in Tasks : Before(Held(buffer[s][subject]), pass'[u])
    BY <2>1, <2>2 DEF Line, Before
  <2>6. /\ got' = got /\ channel' = channel /\ relay' = relay /\ buffer' = buffer
        /\ happened \subseteq happened'
    BY <1>1
  <2>7. \A e \in Past(s) : e \in happened' /\ Wanted(s, e)'
    BY <2>6 DEF Line, Wanted
  <2> QED BY <2>3, <2>4, <2>5, <2>6, <2>7 DEF Line
<1> QED BY <1>4, <1>5, <1>6, <1>7

-----------------------------------------------------------------------------
(* Publishing.                                                             *)

LEMMA ListeningTypes ==
  \A subject \in Subjects :
    /\ Listening(subject) \subseteq Subscribers
    /\ subject = "state" => Listening(subject) \subseteq WithStates
BY Bounds DEF Listening, Subjects

LEMMA PublishInv ==
  ASSUME Inv, NEW t \in Tasks, Publish(t)
  PROVE  Inv'
<1> USE DEF Inv
<1>1. PICK e \in pass[t] :
        /\ (Deliver(e) /\ NoFail) \/ (Fail /\ Lose({e}) /\ UNCHANGED buffer)
        /\ pass' = [pass EXCEPT ![t] = pass[t] \ {e}]
        /\ UNCHANGED <<happened, relay, channel, gone, got>>
  BY DEF Publish
<1>2. /\ e \in Event /\ e \in happened /\ e.by = t /\ Subject(e) \in Subjects
      /\ \A g \in pass[t] : g.n = e.n
  BY EventTypes DEF TypeOK, PassOfOneStatement
<1>3. /\ pass'[t] = pass[t] \ {e} /\ \A u \in Tasks \ {t} : pass'[u] = pass[u]
      /\ pass' \in [Tasks -> SUBSET Event]
      /\ \A u \in Tasks : pass'[u] \subseteq pass[u]
  BY <1>1 DEF TypeOK
<1>4. PassOfOneStatement'
  BY <1>1, <1>3 DEF PassOfOneStatement
<1>5. Numbered'
  BY <1>1 DEF Numbered, Statements
<1>6. CASE Fail /\ Lose({e}) /\ UNCHANGED buffer
  <2>1. lost' \in [Subscribers -> SUBSET Event] /\ failures' \in Nat
    BY <1>2, <1>6 DEF Lose, Fail, TypeOK
  <2>2. TypeOK' BY <1>1, <1>3, <1>6, <2>1 DEF TypeOK
  <2>3. ASSUME NEW s \in Subscribers PROVE Line(s)'
    BY <1>1, <1>3, <1>6, LineKept
  <2> QED BY <1>4, <1>5, <2>2, <2>3
<1>7. CASE Deliver(e) /\ NoFail
  <2> DEFINE reached == {s \in Listening(Subject(e)) : HasRoom(s, Subject(e))}
  <2>1. /\ \A s \in Subscribers :
             buffer'[s] = IF s \in reached
                          THEN [buffer[s] EXCEPT ![Subject(e)] = Append(@, e)]
                          ELSE buffer[s]
        /\ \A s \in Subscribers : lost'[s] \in SUBSET Event
        /\ DOMAIN buffer' = Subscribers /\ lost' \in [Subscribers -> SUBSET Event]
        /\ UNCHANGED failures
    BY <1>2, <1>7 DEF Deliver, NoFail, TypeOK
  <2>2. \A s \in reached : HasRoom(s, Subject(e)) /\ (Subject(e) = "state" => s \in WithStates)
    BY <1>2, ListeningTypes
  <2> HIDE DEF reached
  <2>3. ASSUME NEW s \in Subscribers, s \in reached
        PROVE  /\ buffer'[s] \in [Subjects -> UpTo(BufferSize, Event)]
               /\ buffer'[s][Subject(e)] = Append(buffer[s][Subject(e)], e)
               /\ \A subject \in Subjects \ {Subject(e)} :
                    buffer'[s][subject] = buffer[s][subject]
    <3>1. buffer[s] \in [Subjects -> UpTo(BufferSize, Event)]
      BY EventTypes
    <3>2. Append(buffer[s][Subject(e)], e) \in UpTo(BufferSize, Event)
      BY <1>2, <2>2, <2>3, <3>1, QueueTypes, Bounds DEF HasRoom
    <3> QED BY <1>2, <2>1, <2>3, <3>1, <3>2
  <2>4. buffer' \in [Subscribers -> [Subjects -> UpTo(BufferSize, Event)]]
    <3>1. \A s \in Subscribers : buffer'[s] \in [Subjects -> UpTo(BufferSize, Event)]
      BY <2>1, <2>3, EventTypes
    <3>2. buffer' = [s \in Subscribers |-> buffer'[s]]
      BY <1>7 DEF Deliver
    <3> QED BY <3>1, <3>2
  <2>5. TypeOK'
    BY <1>1, <1>3, <2>1, <2>4 DEF TypeOK
  <2>6. ASSUME NEW s \in Subscribers PROVE Line(s)'
    <3>1. CASE s \notin reached
      BY <1>1, <1>3, <2>1, <3>1, LineKept
    <3>2. CASE s \in reached
      <4>1. /\ Held(buffer'[s][Subject(e)]) = Held(buffer[s][Subject(e)]) \cup {e}
            /\ Before(Held(buffer[s][Subject(e)]), {e}) => InOrder(buffer'[s][Subject(e)])
        <5>1. buffer[s][Subject(e)] \in Seq(Event) /\ InOrder(buffer[s][Subject(e)])
          BY <1>2, EventTypes DEF Line
        <5>2. buffer'[s][Subject(e)] = Append(buffer[s][Subject(e)], e)
          BY <2>3, <3>2
        <5>3. \A q \in Seq(Event), g \in Event :
                /\ Held(Append(q, g)) = Held(q) \cup {g}
                /\ InOrder(q) /\ Before(Held(q), {g}) => InOrder(Append(q, g))
          BY AppendHeld
        <5> QED BY <1>2, <5>1, <5>2, <5>3, Zenon
      <4>2. Before(Past(s), {e}) /\ Before(Held(buffer[s][Subject(e)]), {e})
        BY <1>2 DEF Line, Before
      <4>3. \A u \in Tasks : Before({e}, pass'[u])
        <5> SUFFICES ASSUME NEW u \in Tasks, NEW g \in pass'[u] PROVE Precedes(e, g)
          BY DEF Before
        <5>1. CASE u = t
          <6>1. g \in pass[t] /\ g # e /\ g.n = e.n /\ e.n \in Nat
            BY <1>2, <1>3, <5>1, EventTypes
          <6> QED BY <6>1 DEF Precedes
        <5>2. CASE u # t
          <6>1. g.by = u BY <1>3, <5>2 DEF PassOfOneStatement
          <6> QED BY <1>2, <5>2, <6>1 DEF Precedes
        <5> QED BY <5>1, <5>2
      <4>4. Past(s)' = Past(s)
        BY <1>1 DEF Past
      <4>5. ASSUME NEW subject \in Subjects
            PROVE  /\ \A g \in Held(buffer'[s][subject]) :
                        /\ g \in happened' /\ Subject(g) = subject
                        /\ subject = "state" => s \in WithStates
                   /\ InOrder(buffer'[s][subject])
                   /\ Before(Past(s), Held(buffer'[s][subject]))
                   /\ \A u \in Tasks : Before(Held(buffer'[s][subject]), pass'[u])
        <5>1. CASE subject = Subject(e)
          BY <1>1, <1>2, <1>3, <2>2, <3>2, <4>1, <4>2, <4>3, <5>1 DEF Line, Before
        <5>2. CASE subject # Subject(e)
          BY <1>1, <1>3, <2>3, <3>2, <5>2 DEF Line, Before
        <5> QED BY <5>1, <5>2
      <4>6. \A u \in Tasks : Before(Past(s), pass'[u])
        BY <1>3 DEF Line, Before
      <4>7. \A g \in Past(s) : g \in happened' /\ Wanted(s, g)'
        BY <1>1 DEF Line, Wanted
      <4>8. /\ got' = got /\ channel' = channel /\ relay' = relay
            /\ \A g : Subject(g)' = Subject(g)
        BY <1>1 DEF Subject
      <4> QED BY <4>4, <4>5, <4>6, <4>7, <4>8 DEF Line
    <3> QED BY <3>1, <3>2
  <2> QED BY <1>4, <1>5, <2>5, <2>6
<1> QED BY <1>1, <1>6, <1>7

-----------------------------------------------------------------------------
(* The call and its client.                                                *)

\* A step of one call, which leaves the statements and the other calls alone.
LEMMA OneCall ==
  ASSUME Inv, NEW s \in Subscribers, TypeOK', Line(s)',
         UNCHANGED <<happened, pass>>,
         \A c \in Subscribers \ {s} :
           /\ got'[c] = got[c] /\ channel'[c] = channel[c]
           /\ relay'[c] = relay[c] /\ buffer'[c] = buffer[c]
  PROVE  Inv'
<1> USE DEF Inv
<1>1. PassOfOneStatement' /\ Numbered'
  BY DEF PassOfOneStatement, Numbered, Statements
<1>2. ASSUME NEW c \in Subscribers, c # s PROVE Line(c)'
  BY <1>2, LineKept
<1> QED BY <1>1, <1>2

LEMMA SetUpInv ==
  ASSUME Inv, NEW s \in Subscribers, Subscribe(s) \/ SubscribeStates(s) \/ Leave(s)
  PROVE  Inv'
<1> USE DEF Inv
<1>1. /\ UNCHANGED <<happened, pass, got, lost, failures>>
      /\ relay' = relay \/ \E stage \in {"opening", "reading", "ended"} :
                             relay' = [relay EXCEPT ![s] = At(stage)]
      /\ buffer' = buffer \/ buffer' = [buffer EXCEPT ![s] = Silent]
      /\ channel' = channel \/ channel' = [channel EXCEPT ![s] = <<>>]
      /\ gone' \subseteq Subscribers
  BY DEF Subscribe, SubscribeStates, Leave, Become, End, rows, TypeOK
<1>2. /\ relay' \in [Subscribers -> Relay] /\ relay'[s].hand \in {relay[s].hand, <<>>}
      /\ \A c \in Subscribers \ {s} : relay'[c] = relay[c]
  BY <1>1, RelayTypes DEF TypeOK
<1>3. /\ buffer' \in [Subscribers -> [Subjects -> UpTo(BufferSize, Event)]]
      /\ buffer'[s] \in {buffer[s], Silent}
      /\ \A c \in Subscribers \ {s} : buffer'[c] = buffer[c]
  BY <1>1, SilentTypes DEF TypeOK
<1>4. /\ channel' \in [Subscribers -> UpTo(ChannelSize, Event)]
      /\ channel'[s] \in {channel[s], <<>>}
      /\ \A c \in Subscribers \ {s} : channel'[c] = channel[c]
  <2>1. <<>> \in UpTo(ChannelSize, Event)
    BY QueueTypes, Bounds
  <2> QED BY <1>1, <2>1 DEF TypeOK
<1>5. TypeOK' BY <1>1, <1>2, <1>3, <1>4 DEF TypeOK
<1>6. Line(s)' BY <1>1, <1>2, <1>3, <1>4, LineKept
<1> QED BY <1>1, <1>2, <1>3, <1>4, <1>5, <1>6, OneCall

LEMMA CrashInv ==
  ASSUME Inv, NEW i \in Instances, Crash(i)
  PROVE  Inv'
<1> USE DEF Inv
<1>1. /\ happened' = happened /\ got' = got /\ failures' \in Nat
      /\ gone' \subseteq Subscribers
  BY DEF Crash, Fail, TypeOK
<1>2. /\ pass' \in [Tasks -> SUBSET Event] /\ \A t \in Tasks : pass'[t] \subseteq pass[t]
  BY DEF Crash, TypeOK
<1>3. lost' \in [Subscribers -> SUBSET Event]
  <2>1. \A t \in Tasks : pass[t] \subseteq Event
    BY DEF TypeOK
  <2>2. UNION {pass[t] : t \in Kinds \X {i}} \subseteq Event
    BY <2>1 DEF Tasks
  <2> DEFINE dropped == UNION {pass[t] : t \in Kinds \X {i}}
  <2>3. lost' = [s \in Subscribers |->
          lost[s] \cup {e \in dropped : s \in Listening(Subject(e))}]
    BY DEF Crash, Lose
  <2> HIDE DEF dropped
  <2>4. dropped \subseteq Event BY <2>2 DEF dropped
  <2> QED BY <2>3, <2>4 DEF TypeOK
<1>4. /\ relay' \in [Subscribers -> Relay]
      /\ \A s \in Subscribers : relay'[s].hand \in {relay[s].hand, <<>>}
  BY RelayTypes DEF Crash, TypeOK
<1>5. /\ buffer' \in [Subscribers -> [Subjects -> UpTo(BufferSize, Event)]]
      /\ \A s \in Subscribers : buffer'[s] \in {buffer[s], Silent}
  BY SilentTypes DEF Crash, TypeOK
<1>6. /\ channel' \in [Subscribers -> UpTo(ChannelSize, Event)]
      /\ \A s \in Subscribers : channel'[s] \in {channel[s], <<>>}
  BY QueueTypes, Bounds DEF Crash, TypeOK
<1>7. TypeOK' BY <1>1, <1>2, <1>3, <1>4, <1>5, <1>6 DEF TypeOK
<1>8. PassOfOneStatement' BY <1>1, <1>2 DEF PassOfOneStatement
<1>9. Numbered' BY <1>1 DEF Numbered, Statements
<1>10. ASSUME NEW s \in Subscribers PROVE Line(s)'
  BY <1>1, <1>2, <1>4, <1>5, <1>6, LineKept
<1> QED BY <1>7, <1>8, <1>9, <1>10

LEMMA TakeInv ==
  ASSUME Inv, NEW s \in Subscribers, NEW subject \in Subjects, Take(s, subject)
  PROVE  Inv'
<1> USE DEF Inv
<1> DEFINE q == buffer[s][subject]
           e == Head(buffer[s][subject])
<1>1. /\ relay[s].stage = "reading" /\ q # <<>>
      /\ relay' = [relay EXCEPT ![s] =
           IF Passes(s, e) THEN [stage |-> "sending", hand |-> <<e>>] ELSE At("reading")]
      /\ buffer' = [buffer EXCEPT ![s] = [buffer[s] EXCEPT ![subject] = Tail(q)]]
      /\ UNCHANGED <<happened, pass, channel, gone, got, lost, failures>>
  BY DEF Take, rows
<1>2. /\ q \in Seq(Event) /\ q \in UpTo(BufferSize, Event)
      /\ buffer[s] \in [Subjects -> UpTo(BufferSize, Event)]
  BY EventTypes
<1>3. Tail(q) \in UpTo(BufferSize, Event)
  BY <1>1, <1>2, QueueTypes, Bounds
<1>4. /\ e \in Held(q) /\ e \in Event /\ Held(Tail(q)) \subseteq Held(q)
      /\ InOrder(q) => InOrder(Tail(q)) /\ Before({e}, Held(Tail(q)))
  BY <1>1, <1>2, HeadHeld
<1>5. /\ relay[s].hand = <<>>
      /\ relay' \in [Subscribers -> Relay]
      /\ relay'[s].hand \in {<<e>>, <<>>}
      /\ relay'[s].hand = <<e>> => Passes(s, e)
      /\ \A c \in Subscribers \ {s} : relay'[c] = relay[c]
  <2>1. relay[s].hand = <<>>
    BY <1>1, RelayTypes, EventTypes
  <2>2. [stage |-> "sending", hand |-> <<e>>] \in Relay
    BY <1>4, RelayTypes
  <2>3. CASE Passes(s, e)
    <3>1. relay' = [relay EXCEPT ![s] = [stage |-> "sending", hand |-> <<e>>]]
      BY <1>1, <2>3
    <3> QED BY <2>1, <2>2, <2>3, <3>1 DEF TypeOK
  <2>4. CASE ~Passes(s, e)
    <3>1. relay' = [relay EXCEPT ![s] = At("reading")]
      BY <1>1, <2>4
    <3>2. <<e>> # <<>>
      BY OneHeld
    <3>3. relay \in [Subscribers -> Relay]
      BY DEF TypeOK
    <3>4. At("reading") \in Relay /\ At("reading").hand = <<>>
      BY RelayTypes
    <3>5. /\ relay' \in [Subscribers -> Relay] /\ relay'[s] = At("reading")
          /\ \A c \in Subscribers \ {s} : relay'[c] = relay[c]
      BY <3>1, <3>3, <3>4
    <3> QED BY <2>1, <3>2, <3>4, <3>5
  <2> QED BY <2>3, <2>4
<1>6. /\ buffer' \in [Subscribers -> [Subjects -> UpTo(BufferSize, Event)]]
      /\ buffer'[s][subject] = Tail(q)
      /\ \A other \in Subjects \ {subject} : buffer'[s][other] = buffer[s][other]
      /\ \A c \in Subscribers \ {s} : buffer'[c] = buffer[c]
  BY <1>1, <1>2, <1>3 DEF TypeOK
<1> HIDE DEF q, e
<1>7. TypeOK' BY <1>1, <1>5, <1>6 DEF TypeOK
<1>8. /\ e \in happened /\ Subject(e) = subject /\ Before(Past(s), {e})
      /\ subject = "state" => s \in WithStates
      /\ \A t \in Tasks : Before({e}, pass[t])
  BY <1>4 DEF Line, Before, q
<1>9. /\ Held(relay[s].hand) = {} /\ Held(relay'[s].hand) \subseteq {e}
      /\ Held(relay'[s].hand) # {} => Passes(s, e)
  BY <1>5, EmptyHeld, OneHeld
<1>10. Past(s) = got[s] \cup Held(channel[s]) /\ Past(s)' \subseteq Past(s) \cup {e}
  BY <1>1, <1>9 DEF Past
<1>11. \A g \in Past(s)' : g \in happened' /\ Wanted(s, g)'
  <2>1. \A g \in Held(relay'[s].hand) : g \in happened' /\ Wanted(s, g)'
    BY <1>1, <1>8, <1>9, FilterIsRequest DEF Wanted
  <2>2. \A g \in Past(s) : g \in happened' /\ Wanted(s, g)'
    BY <1>1 DEF Line, Wanted
  <2> QED BY <1>1, <2>1, <2>2 DEF Past
<1>12. ASSUME NEW other \in Subjects
       PROVE  /\ \A g \in Held(buffer'[s][other]) :
                   /\ g \in happened' /\ Subject(g) = other
                   /\ other = "state" => s \in WithStates
              /\ InOrder(buffer'[s][other])
              /\ Before(Past(s)', Held(buffer'[s][other]))
              /\ \A t \in Tasks : Before(Held(buffer'[s][other]), pass'[t])
  <2>1. CASE other = subject
    BY <1>1, <1>4, <1>6, <1>10, <2>1 DEF Line, Before, q
  <2>2. CASE other # subject
    <3>1. \A g \in Held(buffer[s][other]) : Precedes(e, g)
      <4> SUFFICES ASSUME NEW g \in Held(buffer[s][other]) PROVE Precedes(e, g)
        OBVIOUS
      <4>1. Subject(g) = other BY DEF Line
      <4> QED BY <1>8, <2>2, <4>1 DEF Precedes, Subject
    <3> QED BY <1>1, <1>6, <1>10, <2>2, <3>1 DEF Line, Before
  <2> QED BY <2>1, <2>2
<1>13. \A t \in Tasks : Before(Past(s)', pass'[t])
  BY <1>1, <1>8, <1>10 DEF Line, Before
<1>14. Before(got[s] \cup Held(channel[s]), Held(relay'[s].hand))
  BY <1>8, <1>9, <1>10 DEF Before
<1>15. Line(s)'
  BY <1>1, <1>11, <1>12, <1>13, <1>14 DEF Line, Subject
<1> QED BY <1>1, <1>5, <1>6, <1>7, <1>15, OneCall

LEMMA SendInv ==
  ASSUME Inv, NEW s \in Subscribers, Send(s)
  PROVE  Inv'
<1> USE DEF Inv
<1>1. /\ relay[s].stage = "sending"
      /\ UNCHANGED <<happened, pass, gone, got, lost, failures>>
  BY DEF Send, rows
<1>2. PICK e \in Event : relay[s].hand = <<e>>
  BY <1>1, RelayTypes, EventTypes
<1>3. CASE s \in gone
  <2>1. /\ relay' = [relay EXCEPT ![s] = At("ended")]
        /\ buffer' = [buffer EXCEPT ![s] = Silent] /\ UNCHANGED channel
    BY <1>3 DEF Send, End, Become
  <2>2. /\ relay' \in [Subscribers -> Relay] /\ relay'[s].hand = <<>>
        /\ \A c \in Subscribers \ {s} : relay'[c] = relay[c]
    BY <2>1, RelayTypes DEF TypeOK
  <2>3. /\ buffer' \in [Subscribers -> [Subjects -> UpTo(BufferSize, Event)]]
        /\ buffer'[s] = Silent
        /\ \A c \in Subscribers \ {s} : buffer'[c] = buffer[c]
    BY <2>1, SilentTypes DEF TypeOK
  <2>4. TypeOK' BY <1>1, <2>1, <2>2, <2>3 DEF TypeOK
  <2>5. Line(s)' BY <1>1, <2>1, <2>2, <2>3, LineKept
  <2> QED BY <1>1, <2>1, <2>2, <2>3, <2>4, <2>5, OneCall
<1>4. CASE s \notin gone
  <2>1. /\ Len(channel[s]) < ChannelSize
        /\ channel' = [channel EXCEPT ![s] = channel[s] \o relay[s].hand]
        /\ relay' = [relay EXCEPT ![s] = At("reading")]
        /\ UNCHANGED buffer
    BY <1>4 DEF Send, Become
  <2>2. channel[s] \in UpTo(ChannelSize, Event) /\ channel[s] \in Seq(Event)
    BY EventTypes
  <2>3. channel[s] \o relay[s].hand = Append(channel[s], e)
    BY <1>2, <2>2, AppendIsConcat
  <2>4. Append(channel[s], e) \in UpTo(ChannelSize, Event)
    BY <2>1, <2>2, QueueTypes, Bounds
  <2>5. /\ channel' \in [Subscribers -> UpTo(ChannelSize, Event)]
        /\ channel'[s] = Append(channel[s], e)
        /\ \A c \in Subscribers \ {s} : channel'[c] = channel[c]
    BY <2>1, <2>3, <2>4 DEF TypeOK
  <2>6. /\ relay' \in [Subscribers -> Relay] /\ relay'[s].hand = <<>>
        /\ \A c \in Subscribers \ {s} : relay'[c] = relay[c]
    BY <2>1, RelayTypes DEF TypeOK
  <2>7. TypeOK' BY <1>1, <2>1, <2>5, <2>6 DEF TypeOK
  <2>8. /\ Held(channel'[s]) = Held(channel[s]) \cup {e}
        /\ Held(relay[s].hand) = {e} /\ Held(relay'[s].hand) = {}
        /\ InOrder(channel[s]) /\ Before(Held(channel[s]), {e}) => InOrder(channel'[s])
    <3>1. \A q \in Seq(Event), g \in Event :
            /\ Held(Append(q, g)) = Held(q) \cup {g}
            /\ InOrder(q) /\ Before(Held(q), {g}) => InOrder(Append(q, g))
      BY AppendHeld
    <3>2. Held(relay[s].hand) = {e} /\ Held(relay'[s].hand) = {}
      BY <1>2, <2>6, OneHeld, EmptyHeld
    <3> QED BY <2>2, <2>5, <3>1, <3>2, Zenon
  <2>9. Past(s)' = Past(s)
    BY <1>1, <2>8 DEF Past
  <2>10. InOrder(channel'[s]) /\ Before(got[s], Held(channel'[s]))
    BY <2>8 DEF Line, Before
  <2>11. Before(got[s] \cup Held(channel'[s]), Held(relay'[s].hand))
    BY <2>8 DEF Before
  <2>12. \A g \in Past(s) : g \in happened' /\ Wanted(s, g)'
    BY <1>1 DEF Line, Wanted
  <2>13. /\ got' = got /\ pass' = pass /\ happened' = happened /\ buffer' = buffer
         /\ \A g : Subject(g)' = Subject(g)
    BY <1>1, <2>1 DEF Subject
  <2>14. /\ \A subject \in Subjects :
              /\ \A g \in Held(buffer[s][subject]) :
                   /\ g \in happened /\ Subject(g) = subject
                   /\ subject = "state" => s \in WithStates
              /\ InOrder(buffer[s][subject])
              /\ Before(Past(s), Held(buffer[s][subject]))
              /\ \A t \in Tasks : Before(Held(buffer[s][subject]), pass[t])
         /\ \A t \in Tasks : Before(Past(s), pass[t])
    BY DEF Line
  <2>15. Line(s)'
    BY <2>9, <2>10, <2>11, <2>12, <2>13, <2>14 DEF Line
  <2> QED BY <1>1, <2>1, <2>5, <2>6, <2>7, <2>15, OneCall
<1> QED BY <1>3, <1>4

\* What a client is shown is the head of its channel.
LEMMA ReceiveFacts ==
  ASSUME Inv, NEW s \in Subscribers, Receive(s)
  PROVE  /\ Head(channel[s]) \in Held(channel[s]) /\ Head(channel[s]) \in Event
         /\ Held(channel'[s]) \subseteq Held(channel[s]) /\ InOrder(channel'[s])
         /\ Before({Head(channel[s])}, Held(channel'[s]))
         /\ channel' \in [Subscribers -> UpTo(ChannelSize, Event)]
         /\ \A c \in Subscribers \ {s} : channel'[c] = channel[c]
         /\ got' = [got EXCEPT ![s] = got[s] \cup {Head(channel[s])}]
         /\ UNCHANGED <<happened, pass, relay, buffer, gone, lost, failures>>
<1> USE DEF Inv
<1>1. /\ channel[s] # <<>> /\ channel' = [channel EXCEPT ![s] = Tail(channel[s])]
      /\ got' = [got EXCEPT ![s] = got[s] \cup {Head(channel[s])}]
      /\ UNCHANGED <<happened, pass, relay, buffer, gone, lost, failures>>
  BY DEF Receive, rows
<1>2. channel[s] \in Seq(Event) /\ channel[s] \in UpTo(ChannelSize, Event)
  BY EventTypes
<1>3. Tail(channel[s]) \in UpTo(ChannelSize, Event)
  BY <1>1, <1>2, QueueTypes, Bounds
<1>4. InOrder(channel[s])
  BY DEF Line
<1>5. \A q \in Seq(Event) :
        q # <<>> => /\ Head(q) \in Held(q) /\ Head(q) \in Event
                    /\ Held(Tail(q)) \subseteq Held(q)
                    /\ InOrder(q) => InOrder(Tail(q)) /\ Before({Head(q)}, Held(Tail(q)))
  BY HeadHeld
<1>6. /\ channel' \in [Subscribers -> UpTo(ChannelSize, Event)]
      /\ channel'[s] = Tail(channel[s])
      /\ \A c \in Subscribers \ {s} : channel'[c] = channel[c]
  BY <1>1, <1>3 DEF TypeOK
<1>7. /\ Head(channel[s]) \in Held(channel[s]) /\ Head(channel[s]) \in Event
      /\ Held(channel'[s]) \subseteq Held(channel[s]) /\ InOrder(channel'[s])
      /\ Before({Head(channel[s])}, Held(channel'[s]))
  BY <1>1, <1>2, <1>4, <1>5, <1>6, Zenon
<1> QED BY <1>1, <1>6, <1>7

LEMMA ReceiveInv ==
  ASSUME Inv, NEW s \in Subscribers, Receive(s)
  PROVE  Inv'
<1> USE DEF Inv
<1> DEFINE e == Head(channel[s])
<1>1. /\ e \in Held(channel[s]) /\ e \in Event
      /\ Held(channel'[s]) \subseteq Held(channel[s]) /\ InOrder(channel'[s])
      /\ Before({e}, Held(channel'[s]))
      /\ channel' \in [Subscribers -> UpTo(ChannelSize, Event)]
      /\ \A c \in Subscribers \ {s} : channel'[c] = channel[c]
      /\ got' = [got EXCEPT ![s] = got[s] \cup {e}]
      /\ UNCHANGED <<happened, pass, relay, buffer, gone, lost, failures>>
  BY ReceiveFacts
<1> HIDE DEF e
<1>2. /\ got' \in [Subscribers -> SUBSET Event] /\ got'[s] = got[s] \cup {e}
      /\ \A c \in Subscribers \ {s} : got'[c] = got[c]
  BY <1>1 DEF TypeOK
<1>3. TypeOK' BY <1>1, <1>2 DEF TypeOK
<1>4. Past(s)' \subseteq Past(s)
  BY <1>1, <1>2 DEF Past
<1>5. Before(got'[s], Held(channel'[s]))
  BY <1>1, <1>2 DEF Line, Before
<1>6. Before(got'[s] \cup Held(channel'[s]), Held(relay'[s].hand))
  BY <1>1, <1>2 DEF Line, Before
<1>7. \A g \in Past(s)' : g \in happened' /\ Wanted(s, g)'
  BY <1>1, <1>4 DEF Line, Wanted
<1>8. /\ \A subject \in Subjects : Before(Past(s)', Held(buffer[s][subject]))
      /\ \A t \in Tasks : Before(Past(s)', pass[t])
  BY <1>4 DEF Line, Before
<1>9. Line(s)'
  BY <1>1, <1>5, <1>6, <1>7, <1>8 DEF Line, Subject
<1> QED BY <1>1, <1>2, <1>3, <1>9, OneCall

-----------------------------------------------------------------------------
(* All steps together.                                                     *)

LEMMA TaskTypes == \A i \in Instances, kind \in Kinds : <<kind, i>> \in Tasks
BY DEF Tasks

LEMMA NextInv == Inv /\ [Next]_vars => Inv'
<1> SUFFICES ASSUME Inv, [Next]_vars PROVE Inv'
  OBVIOUS
<1>1. CASE UNCHANGED vars
  <2>1. /\ UNCHANGED <<happened, pass, relay, buffer, channel, gone, got, lost, failures>>
    BY <1>1 DEF vars, rows, call
  <2>2. TypeOK' BY <2>1 DEF Inv, TypeOK
  <2>3. PassOfOneStatement' /\ Numbered'
    BY <2>1 DEF Inv, PassOfOneStatement, Numbered, Statements
  <2>4. ASSUME NEW s \in Subscribers PROVE Line(s)'
    BY <2>1, LineKept DEF Inv
  <2> QED BY <2>2, <2>3, <2>4 DEF Inv
<1>2. ASSUME NEW i \in Instances, NEW id \in Ids, Insert(i, id) PROVE Inv'
  BY <1>2, StatementInv, TaskTypes DEF Insert, Kinds
<1>3. ASSUME NEW i \in Instances, Wake(i) \/ Expire(i) PROVE Inv'
  <2>1. PICK kind \in {"woken", "expired"}, batch \in (SUBSET Ids) \ {{}} :
          Statement(<<kind, i>>, batch)
    BY <1>3 DEF Wake, Expire
  <2>2. <<kind, i>> \in Tasks /\ batch \in SUBSET Ids /\ batch # {}
    <3>1. kind \in Kinds BY DEF Kinds
    <3> QED BY <3>1, TaskTypes
  <2> QED BY <2>1, <2>2, StatementInv
<1>4. ASSUME NEW s \in Subscribers, Relaying(s) PROVE Inv'
  BY <1>4, TakeInv, SendInv DEF Relaying
<1> QED
  BY <1>1, <1>2, <1>3, <1>4, CrashInv, PublishInv, SetUpInv, ReceiveInv DEF Next

LEMMA AlwaysInv == Spec => []Inv
BY InitInv, NextInv, PTL DEF Spec

-----------------------------------------------------------------------------
(* The theorems.                                                           *)

\* No queue outgrows its bound, whatever is published and however slowly it is
\* read.
THEOREM TypeCorrect == Spec => []TypeOK
BY AlwaysInv, PTL DEF Inv

\* A step shows one client the head of its channel, makes events happen, or
\* shows and makes nothing.
LEMMA StepRefines == Inv /\ [Next]_vars => [Abstract!Next]_<<happened, got>>
<1> SUFFICES ASSUME Inv, [Next]_vars, ~ UNCHANGED <<happened, got>>
             PROVE  Abstract!Next
  OBVIOUS
<1>1. CASE \E s \in Subscribers : Receive(s)
  <2> PICK s \in Subscribers : Receive(s)
    BY <1>1
  <2> DEFINE e == Head(channel[s])
  <2>1. /\ e \in Held(channel[s]) /\ e \in Event /\ UNCHANGED happened
        /\ got' = [got EXCEPT ![s] = got[s] \cup {e}]
    BY ReceiveFacts
  <2> HIDE DEF e
  <2>2. e \in happened /\ Wanted(s, e)
    BY <2>1 DEF Inv, Line, Past
  <2>3. \A g \in got[s] : Precedes(g, e)
    BY <2>1 DEF Inv, Line, Before
  <2>4. Abstract!Show(s, e)
    BY <2>1, <2>2, <2>3 DEF Abstract!Show, Precedes
  <2> QED BY <2>1, <2>4 DEF Abstract!Next
<1>2. ASSUME NEW t \in Tasks, NEW batch \in SUBSET Ids, Statement(t, batch)
      PROVE  Abstract!Next
  <2> DEFINE n == Cardinality(Statements) + 1
             events == {[id |-> id, by |-> t, n |-> n] : id \in batch}
  <2>1. /\ n \in 1 .. MaxStatements
        /\ happened' = happened \cup events /\ UNCHANGED got
        /\ \A e \in happened : e.n < n
        /\ happened \subseteq Event
    BY <1>2, NextNumber DEF Statement, call, Inv, TypeOK
  <2> HIDE DEF n
  <2>2. \A id \in batch : [id |-> id, by |-> t, n |-> n] \in Event
    BY <2>1 DEF Event
  <2>3. \A e \in events : e \in Event /\ e.n = n
    BY <2>2
  <2> HIDE DEF events
  <2>4. events \in SUBSET (Event \ happened)
    <3>1. \A e \in events : e \notin happened
      BY <2>1, <2>3
    <3> QED BY <2>3, <3>1
  <2> QED BY <2>1, <2>4 DEF Abstract!Next, Abstract!Happen
<1> QED
  BY <1>1, <1>2, TaskTypes
     DEF Next, vars, rows, call, Insert, Wake, Expire, Kinds, Crash, Publish, Subscribe,
         SubscribeStates, Relaying, Send, Take, Leave

\* However many tasks, calls, losses and crashes there are, a client's stream
\* keeps what Feed promises.
THEOREM Refinement == Spec => ImplementsFeed
<1>1. Init => Abstract!Init
  BY DEF Init, Abstract!Init
<1> QED
  BY <1>1, StepRefines, AlwaysInv, PTL DEF Spec, ImplementsFeed, Abstract!Spec

-----------------------------------------------------------------------------
(* What goes missing.  Step by step: an event that comes to a client moves *)
(* from the task to the subscription, the relay's hand, the channel and    *)
(* the client, and leaves that path only by a failure, by the client's     *)
(* leaving, or where its own subscription has no room.                     *)

\* The event is passed on, or stays where it is.
LEMMA StillComes ==
  ASSUME NEW s \in Subscribers, NEW e \in Event, Comes(s, e),
         e \in pass[e.by] /\ s \in Listening(Subject(e)) =>
           \/ e \in pass'[e.by] /\ s \in Listening(Subject(e))'
           \/ e \in Held(buffer'[s][Subject(e)]),
         \A subject \in Subjects :
           e \in Held(buffer[s][subject]) =>
             e \in Held(buffer'[s][subject]) \/ relay'[s].hand = <<e>>,
         relay[s].hand = <<e>> => relay'[s].hand = <<e>> \/ e \in Held(channel'[s]),
         e \in Held(channel[s]) => e \in Held(channel'[s]) \/ e \in got'[s]
  PROVE  Comes(s, e)' \/ e \in got'[s]
<1>1. Subject(e) \in Subjects
  BY DEF Subject, Subjects
<1> QED BY <1>1 DEF Comes, Held

\* A relay that goes on, or gets its second subscription, keeps listening.
LEMMA KeepsListening ==
  ASSUME NEW s \in Subscribers, NEW subject, s \in Listening(subject),
         relay'[s].stage \in {relay[s].stage, "reading", "sending"}
  PROVE  s \in Listening(subject)'
BY DEF Listening

LEMMA HeadOrTail ==
  ASSUME NEW S, NEW q \in Seq(S), q # <<>>
  PROVE  Held(q) = {Head(q)} \cup Held(Tail(q))
<1>1. /\ Len(q) \in Nat \ {0} /\ Head(q) = q[1]
      /\ Len(Tail(q)) = Len(q) - 1
      /\ \A k \in 1 .. Len(q) - 1 : Tail(q)[k] = q[k + 1]
  OBVIOUS
<1>2. Held(q) \subseteq {Head(q)} \cup Held(Tail(q))
  <2> SUFFICES ASSUME NEW k \in 1 .. Len(q), k # 1 PROVE q[k] \in Held(Tail(q))
    BY <1>1 DEF Held
  <2>1. k - 1 \in 1 .. Len(Tail(q)) /\ Tail(q)[k - 1] = q[k]
    BY <1>1
  <2> QED BY <2>1 DEF Held
<1> QED BY <1>2, HeadHeld

\* A step of another client, or of nobody.
LEMMA ComesUntouched ==
  ASSUME NEW s \in Subscribers, NEW e \in Event, Comes(s, e),
         relay'[s] = relay[s], buffer'[s] = buffer[s], channel'[s] = channel[s],
         e \in pass[e.by] => e \in pass'[e.by]
  PROVE  Comes(s, e)' \/ e \in got'[s]
BY StillComes, KeepsListening

LEMMA StatementComes ==
  ASSUME Inv, NEW t \in Tasks, NEW batch, Statement(t, batch),
         NEW s \in Subscribers, NEW e \in Event, Comes(s, e)
  PROVE  Comes(s, e)' \/ e \in got'[s]
<1>1. pass[t] = {} /\ \A u \in Tasks : u # t => pass'[u] = pass[u]
  BY DEF Statement, Inv, TypeOK
<1>2. e \in pass[e.by] => e \in pass'[e.by]
  BY <1>1 DEF Event
<1> QED BY <1>2, ComesUntouched DEF Statement, call

LEMMA PublishComes ==
  ASSUME Inv, NEW t \in Tasks, Publish(t), ~ (failures' > failures),
         NEW s \in Subscribers, NEW e \in Event, Comes(s, e), HasRoom(s, Subject(e))
  PROVE  Comes(s, e)' \/ e \in got'[s]
<1>1. PICK x \in pass[t] :
        /\ (Deliver(x) /\ NoFail) \/ Fail
        /\ pass' = [pass EXCEPT ![t] = pass[t] \ {x}]
        /\ UNCHANGED <<relay, channel>>
  BY DEF Publish
<1>2. Deliver(x)
  <2>1. failures \in Nat
    BY DEF Inv, TypeOK
  <2> QED BY <1>1, <2>1 DEF Fail
<1>3. x \in Event /\ Subject(x) \in Subjects
  BY EventTypes DEF Inv, TypeOK
<1>4. e \in pass[e.by] /\ e # x => e \in pass'[e.by]
  BY <1>1 DEF Inv, TypeOK, Event
<1>5. \A subject \in Subjects :
        buffer'[s][subject] =
          IF s \in Listening(Subject(x)) /\ HasRoom(s, Subject(x)) /\ subject = Subject(x)
            THEN Append(buffer[s][subject], x) ELSE buffer[s][subject]
  BY <1>2, <1>3 DEF Deliver, Inv, TypeOK
<1>6. \A subject \in Subjects :
        /\ Held(buffer[s][subject]) \subseteq Held(Append(buffer[s][subject], x))
        /\ x \in Held(Append(buffer[s][subject], x))
  <2>1. \A subject \in Subjects : buffer[s][subject] \in Seq(Event)
    BY EventTypes DEF Inv
  <2>2. \A q \in Seq(Event) : Held(Append(q, x)) = Held(q) \cup {x}
    BY <1>3, AppendAdds
  <2> QED BY <2>1, <2>2
<1>7. \A subject \in Subjects : Held(buffer[s][subject]) \subseteq Held(buffer'[s][subject])
  BY <1>5, <1>6
<1>8. CASE e = x
  <2>1. s \in Listening(Subject(e)) => e \in Held(buffer'[s][Subject(e)])
    BY <1>3, <1>5, <1>6, <1>8
  <2> QED BY <1>1, <1>7, <2>1, StillComes
<1>9. CASE e # x
  BY <1>1, <1>4, <1>7, <1>9, StillComes, KeepsListening
<1> QED BY <1>8, <1>9

LEMMA SetUpComes ==
  ASSUME Inv, NEW c \in Subscribers, Subscribe(c) \/ SubscribeStates(c),
         NEW s \in Subscribers, NEW e \in Event, Comes(s, e)
  PROVE  Comes(s, e)' \/ e \in got'[s]
<1>1. /\ relay[c].stage \in {"off", "opening"}
      /\ relay[c].stage = "off" => relay' = [relay EXCEPT ![c] = At("opening")]
      /\ relay[c].stage = "opening" => relay' = [relay EXCEPT ![c] = At("reading")]
      /\ UNCHANGED <<pass, buffer, channel>>
  BY DEF Subscribe, SubscribeStates, Become, rows
<1>2. CASE c # s
  BY <1>1, <1>2, ComesUntouched DEF Inv, TypeOK
<1>3. CASE c = s
  <2>1. relay[s].hand # <<e>>
    <3>1. relay[s] \in Relay /\ relay[s].stage \in {"off", "opening", "reading"}
      BY <1>1, <1>3 DEF Inv, TypeOK
    <3>2. relay[s].hand = <<>>
      BY <3>1, RelayTypes
    <3> QED BY <3>2, OneHeld
  <2>2. \A subject : s \in Listening(subject) => s \in Listening(subject)'
    <3>1. relay[s].stage = "off" => relay'[s].stage = "opening"
      BY <1>1, <1>3, RelayTypes DEF Inv, TypeOK
    <3>2. relay[s].stage = "opening" => relay'[s].stage = "reading"
      BY <1>1, <1>3, RelayTypes DEF Inv, TypeOK
    <3> QED BY <1>1, <1>3, <3>1, <3>2 DEF Listening
  <2> QED BY <1>1, <2>1, <2>2, StillComes
<1> QED BY <1>2, <1>3

LEMMA TakeComes ==
  ASSUME Inv, NEW c \in Subscribers, NEW from \in Subjects, Take(c, from),
         NEW s \in Subscribers, NEW e \in Event, Comes(s, e), Wanted(s, e)
  PROVE  Comes(s, e)' \/ e \in got'[s]
<1> DEFINE q == buffer[c][from]
<1>1. /\ relay[c].stage = "reading" /\ q # <<>>
      /\ relay' = [relay EXCEPT ![c] =
           IF Passes(c, Head(q)) THEN [stage |-> "sending", hand |-> <<Head(q)>>]
                                 ELSE At("reading")]
      /\ buffer' = [buffer EXCEPT ![c][from] = Tail(q)]
      /\ UNCHANGED <<pass, channel>>
  BY DEF Take, rows
<1>2. CASE c # s
  BY <1>1, <1>2, ComesUntouched DEF Inv, TypeOK
<1>3. CASE c = s
  <2>1. relay[s].hand # <<e>>
    <3>1. relay[s] \in Relay /\ relay[s].stage \in {"off", "opening", "reading"}
      BY <1>1, <1>3 DEF Inv, TypeOK
    <3>2. relay[s].hand = <<>>
      BY <3>1, RelayTypes
    <3> QED BY <3>2, OneHeld
  <2>2. Held(q) = {Head(q)} \cup Held(Tail(q))
    <3>1. q \in Seq(Event)
      BY EventTypes DEF Inv
    <3> HIDE DEF q
    <3> QED BY <1>1, <3>1, HeadOrTail
  <2>3. /\ buffer'[s][from] = Tail(q)
        /\ \A other \in Subjects : other # from => buffer'[s][other] = buffer[s][other]
    BY <1>1, <1>3 DEF Inv, TypeOK
  <2>4. e = Head(q) => relay'[s].hand = <<e>>
    BY <1>1, <1>3, FilterIsRequest DEF Inv, TypeOK
  <2>5. relay'[s].stage \in {"reading", "sending"}
    BY <1>1, <1>3, RelayTypes DEF Inv, TypeOK
  <2>6. \A subject \in Subjects :
          e \in Held(buffer[s][subject]) =>
            e \in Held(buffer'[s][subject]) \/ relay'[s].hand = <<e>>
    BY <1>3, <2>2, <2>3, <2>4
  <2> HIDE DEF q
  <2> QED BY <1>1, <2>1, <2>5, <2>6, StillComes, KeepsListening
<1> QED BY <1>2, <1>3

LEMMA SendComes ==
  ASSUME Inv, NEW c \in Subscribers, Send(c),
         NEW s \in Subscribers \ gone, NEW e \in Event, Comes(s, e)
  PROVE  Comes(s, e)' \/ e \in got'[s]
<1>1. CASE c # s
  <2>1. /\ relay'[s] = relay[s] /\ buffer'[s] = buffer[s] /\ channel'[s] = channel[s]
        /\ UNCHANGED pass
    BY <1>1 DEF Send, End, Become, rows, Inv, TypeOK
  <2> QED BY <2>1, ComesUntouched
<1>2. CASE c = s
  <2>1. /\ channel' = [channel EXCEPT ![s] = channel[s] \o relay[s].hand]
        /\ relay' = [relay EXCEPT ![s] = At("reading")]
        /\ UNCHANGED <<pass, buffer>>
        /\ relay[s].stage = "sending"
    BY <1>2 DEF Send, Become, rows
  <2>2. PICK x \in Event : relay[s].hand = <<x>>
    BY <2>1, RelayTypes, EventTypes DEF Inv
  <2>3. channel[s] \in Seq(Event)
    BY EventTypes DEF Inv
  <2>4. channel'[s] = Append(channel[s], x)
    BY <2>1, <2>2, <2>3, AppendIsConcat DEF Inv, TypeOK
  <2>5. Held(channel'[s]) = Held(channel[s]) \cup {x}
    BY <2>3, <2>4, AppendAdds
  <2>6. <<x>> = <<e>> => x = e
    OBVIOUS
  <2>7. relay'[s].stage = "reading"
    BY <2>1, RelayTypes DEF Inv, TypeOK
  <2> QED BY <2>1, <2>2, <2>5, <2>6, <2>7, StillComes, KeepsListening
<1> QED BY <1>1, <1>2

LEMMA ReceiveComes ==
  ASSUME Inv, NEW c \in Subscribers, Receive(c),
         NEW s \in Subscribers, NEW e \in Event, Comes(s, e)
  PROVE  Comes(s, e)' \/ e \in got'[s]
<1>1. /\ channel[c] # <<>>
      /\ got' = [got EXCEPT ![c] = got[c] \cup {Head(channel[c])}]
      /\ channel' = [channel EXCEPT ![c] = Tail(channel[c])]
      /\ UNCHANGED <<pass, relay, buffer>>
  BY DEF Receive, rows
<1>2. CASE c # s
  BY <1>1, <1>2, ComesUntouched DEF Inv, TypeOK
<1>3. CASE c = s
  <2>1. channel[s] \in Seq(Event)
    BY EventTypes DEF Inv
  <2>2. Held(channel[s]) = {Head(channel[s])} \cup Held(Tail(channel[s]))
    BY <1>1, <1>3, <2>1, HeadOrTail
  <2>3. channel'[s] = Tail(channel[s]) /\ Head(channel[s]) \in got'[s]
    BY <1>1, <1>3 DEF Inv, TypeOK
  <2> QED BY <1>1, <2>2, <2>3, StillComes, KeepsListening
<1> QED BY <1>2, <1>3

LEMMA LeaveComes ==
  ASSUME Inv, NEW c \in Subscribers, Leave(c),
         NEW s \in Subscribers, s \notin gone', NEW e \in Event, Comes(s, e)
  PROVE  Comes(s, e)' \/ e \in got'[s]
<1>1. /\ c # s
      /\ relay'[s] = relay[s] /\ buffer'[s] = buffer[s] /\ channel'[s] = channel[s]
      /\ UNCHANGED pass
  BY DEF Leave, End, Become, rows, Inv, TypeOK
<1> QED BY <1>1, ComesUntouched

\* The step behind MissedOnlyIfLost.
GoesOn ==
  \A s \in Subscribers \ gone, e \in Event :
    Comes(s, e) /\ Wanted(s, e) =>
      \/ Comes(s, e)'
      \/ e \in got'[s]
      \/ failures' > failures \/ s \in gone'
      \/ ~HasRoom(s, Subject(e))

LEMMA StepGoesOn == Inv /\ [Next]_vars => [GoesOn]_vars
<1> SUFFICES ASSUME Inv, Next,
                    NEW s \in Subscribers \ gone, NEW e \in Event,
                    Comes(s, e), Wanted(s, e), HasRoom(s, Subject(e)),
                    ~ (failures' > failures), s \notin gone'
             PROVE  Comes(s, e)' \/ e \in got'[s]
  BY DEF GoesOn
<1>1. CASE \E i \in Instances, id \in Ids : Insert(i, id)
  BY <1>1, StatementComes, TaskTypes DEF Insert, Kinds
<1>2. CASE \E i \in Instances : Wake(i) \/ Expire(i)
  BY <1>2, StatementComes, TaskTypes DEF Wake, Expire, Kinds
<1>3. CASE \E i \in Instances : Crash(i)
  <2>1. failures \in Nat /\ failures' = failures + 1
    BY <1>3 DEF Crash, Fail, Inv, TypeOK
  <2> QED BY <2>1
<1>4. CASE \E t \in Tasks : Publish(t)
  BY <1>4, PublishComes
<1>5. CASE \E c \in Subscribers :
             Subscribe(c) \/ SubscribeStates(c) \/ Relaying(c) \/ Receive(c) \/ Leave(c)
  BY <1>5, SetUpComes, TakeComes, SendComes, ReceiveComes, LeaveComes DEF Relaying
<1> QED
  BY <1>1, <1>2, <1>3, <1>4, <1>5 DEF Next

\* However slow the other clients are, whatever the filters and however full
\* the channel, an event that comes to a client that wants it is missed only
\* by a failure, by its leaving, or by its own subscription being full.
THEOREM NothingElseMissed == Spec => MissedOnlyIfLost
<1>1. Spec => [][GoesOn]_vars
  BY AlwaysInv, StepGoesOn, PTL DEF Spec
<1> QED
  BY <1>1 DEF MissedOnlyIfLost, GoesOn
=============================================================================
