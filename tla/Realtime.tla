------------------------------ MODULE Realtime -------------------------------
(***************************************************************************)
(* The live stream: tasks that publish an event after their statement, NATS*)
(* Core between them, and the relay task of each Subscribe call.           *)
(*                                                                         *)
(* The processor publishes a new notification on the user's subject; the   *)
(* wake-up and expiry loops publish the state changes of their batch, one  *)
(* after the other, on the user's state subject.  NATS hands a message to  *)
(* whoever listens at that moment and keeps nothing.  A relay reads its    *)
(* subscriptions in no particular order and passes what it reads through a *)
(* bounded channel to a client that may read slowly, or be gone.           *)
(***************************************************************************)
EXTENDS Naturals, Sequences, FiniteSets

CONSTANTS
  Ids, Services,
  ServiceOf,       \* [Ids -> Services]
  Instances,       \* server instances
  MaxStatements,   \* bound on the statements of all tasks together
  Subscribers,     \* Subscribe calls of the user
  Host,            \* [Subscribers -> Instances]: who serves the call
  ServiceFilter,   \* [Subscribers -> SUBSET Services]: empty means all
  WithStates,      \* subscribers with include_state_changes
  Prompt,          \* subscribers whose client keeps reading
  BufferSize,      \* messages a NATS subscription holds
  ChannelSize,     \* messages a relay's channel holds (streaming.rs: 128)
  MaxFailures      \* bound on lost publishes and crashes

Kinds == {"new", "woken", "expired"}

ASSUME IdsAssumption == ServiceOf \in [Ids -> Services]
ASSUME SubscriberAssumption ==
  /\ Host \in [Subscribers -> Instances]
  /\ ServiceFilter \in [Subscribers -> SUBSET Services]
  /\ WithStates \subseteq Subscribers
  /\ Prompt \subseteq Subscribers
ASSUME BoundAssumption ==
  /\ MaxStatements \in Nat
  /\ BufferSize \in Nat \ {0}
  /\ ChannelSize \in Nat \ {0}
  /\ MaxFailures \in Nat

VARIABLES
  happened, \* history: every event that a statement brought about
  pass,     \* the events each task has yet to publish
  relay,    \* each Subscribe call: its relay task and the event in its hand
  buffer,   \* the messages waiting in each subscription
  channel,  \* the messages waiting for each client
  gone,     \* the clients that have left
  got,      \* history: the events each client was given
  lost,     \* history: the events that missed each call while it listened
  failures

rows == <<happened, pass>>
call == <<relay, buffer, channel, gone>>
vars == <<rows, call, got, lost, failures>>

-----------------------------------------------------------------------------
(* The state.                                                              *)

\* A processor or a loop of an instance, named by what it publishes.
Tasks == Kinds \X Instances

\* The change to a notification that the n-th statement, by a task, makes.
Event == [id : Ids, by : Tasks, n : 1 .. MaxStatements]

Subject(e) == IF e.by[1] = "new" THEN "new" ELSE "state"

Subjects == {"new", "state"}

\* A call's relay: not yet there, being set up with only the first of its two
\* subscriptions, reading, handing an event on, or ended.
Relay == [ stage : {"off", "opening", "reading", "ended"}, hand : {<<>>} ]
           \cup [ stage : {"sending"}, hand : {<<e>> : e \in Event} ]

At(stage) == [ stage |-> stage, hand |-> <<>> ]

Silent == [subject \in Subjects |-> <<>>]

UpTo(size, S) == {q \in Seq(S) : Len(q) <= size}

\* The variables have their types; no queue outgrows its bound.
TypeOK ==
  /\ happened \subseteq Event
  /\ pass \in [Tasks -> SUBSET Event]
  /\ relay \in [Subscribers -> Relay]
  /\ buffer \in [Subscribers -> [Subjects -> UpTo(BufferSize, Event)]]
  /\ channel \in [Subscribers -> UpTo(ChannelSize, Event)]
  /\ gone \subseteq Subscribers
  /\ got \in [Subscribers -> SUBSET Event]
  /\ lost \in [Subscribers -> SUBSET Event]
  /\ failures \in Nat

Init ==
  /\ happened = {}
  /\ pass = [t \in Tasks |-> {}]
  /\ relay = [s \in Subscribers |-> At("off")]
  /\ buffer = [s \in Subscribers |-> Silent]
  /\ channel = [s \in Subscribers |-> <<>>]
  /\ gone = {}
  /\ got = [s \in Subscribers |-> {}]
  /\ lost = [s \in Subscribers |-> {}]
  /\ failures = 0

Fail == failures < MaxFailures /\ failures' = failures + 1

NoFail == UNCHANGED failures

-----------------------------------------------------------------------------
(* The statements.                                                         *)

\* The statements so far that have brought about events.
Statements == {e.n : e \in happened}

\* Task t changes the notifications in batch and has their events to publish,
\* in the order of RETURNING, which is any.  Which rows a statement takes is
\* the business of module Inbox: here a batch may hold any.
Statement(t, batch) ==
  LET n == Cardinality(Statements) + 1
      events == {[id |-> id, by |-> t, n |-> n] : id \in batch}
  IN  /\ pass[t] = {}
      /\ n <= MaxStatements
      /\ happened' = happened \cup events
      /\ pass' = [pass EXCEPT ![t] = events]
      /\ UNCHANGED <<call, got, lost, failures>>

\* The processor inserts a notification that is to be delivered: an id is
\* inserted once, and before anything else happens to it.
Insert(i, id) ==
  /\ id \notin {e.id : e \in happened}
  /\ Statement(<<"new", i>>, {id})

Wake(i) == \E batch \in (SUBSET Ids) \ {{}} : Statement(<<"woken", i>>, batch)

Expire(i) == \E batch \in (SUBSET Ids) \ {{}} : Statement(<<"expired", i>>, batch)

-----------------------------------------------------------------------------
(* Publishing, and NATS Core.                                              *)

\* The calls whose subscription to the subject is in place.
Listening(subject) ==
  IF subject = "new"
    THEN {s \in Subscribers : relay[s].stage \in {"opening", "reading", "sending"}}
    ELSE {s \in WithStates  : relay[s].stage \in {"reading", "sending"}}

HasRoom(s, subject) == Len(buffer[s][subject]) < BufferSize

\* The message e reaches those who listen and have room for it.
Deliver(e) ==
  LET subject == Subject(e)
      reached == {s \in Listening(subject) : HasRoom(s, subject)}
  IN  /\ buffer' = [s \in Subscribers |->
           IF s \in reached THEN [buffer[s] EXCEPT ![subject] = Append(@, e)]
                            ELSE buffer[s]]
      /\ lost' = [s \in Subscribers |->
           lost[s] \cup IF s \in Listening(subject) \ reached THEN {e} ELSE {}]

\* The events reach nobody.
Lose(events) ==
  lost' = [s \in Subscribers |->
    lost[s] \cup {e \in events : s \in Listening(Subject(e))}]

\* Mutant: an error in publishing ends the pass.
PublishStopsAtError(t) ==
  \E e \in pass[t] :
    /\ \/ /\ Deliver(e)
          /\ pass' = [pass EXCEPT ![t] = @ \ {e}]
          /\ NoFail
       \/ /\ Fail
          /\ Lose({e})
          /\ pass' = [pass EXCEPT ![t] = {}]
          /\ UNCHANGED buffer
    /\ UNCHANGED <<happened, relay, channel, gone, got>>

\* One message is published, or it is lost on the way, which is only logged.
Publish(t) ==
  \E e \in pass[t] :
    /\ \/ Deliver(e) /\ NoFail
       \/ Fail /\ Lose({e}) /\ UNCHANGED buffer
    /\ pass' = [pass EXCEPT ![t] = @ \ {e}]
    /\ UNCHANGED <<happened, relay, channel, gone, got>>

-----------------------------------------------------------------------------
(* Subscribe.                                                              *)

Become(s, stage) == relay' = [relay EXCEPT ![s] = At(stage)]

\* Both subscriptions are dropped with the relay.
End(s) == Become(s, "ended") /\ buffer' = [buffer EXCEPT ![s] = Silent]

\* The first subscription.
Subscribe(s) ==
  /\ relay[s].stage = "off"
  /\ Become(s, "opening")
  /\ UNCHANGED <<rows, buffer, channel, gone, got, lost, failures>>

\* The second one, if it was asked for; the relay is spawned.
SubscribeStates(s) ==
  /\ relay[s].stage = "opening"
  /\ Become(s, "reading")
  /\ UNCHANGED <<rows, buffer, channel, gone, got, lost, failures>>

\* Mutant: the filter is not applied.
PassesAll(s, e) == TRUE

\* Events pass the filter if they are state changes, whose service nobody
\* filled in, or of a service that was asked for.
Passes(s, e) ==
  \/ Subject(e) = "state"
  \/ ServiceFilter[s] = {}
  \/ ServiceOf[e.id] \in ServiceFilter[s]

\* Mutant: the newest message is read first.
TakeNewest(s, subject) ==
  /\ relay[s].stage = "reading"
  /\ buffer[s][subject] # <<>>
  /\ LET last == Len(buffer[s][subject])
         e == buffer[s][subject][last]
     IN  /\ relay' = [relay EXCEPT ![s] =
              IF Passes(s, e) THEN [stage |-> "sending", hand |-> <<e>>]
                              ELSE At("reading")]
         /\ buffer' = [buffer EXCEPT ![s][subject] = SubSeq(@, 1, last - 1)]
  /\ UNCHANGED <<rows, channel, gone, got, lost, failures>>

\* The relay reads either subscription, if both have a message.
Take(s, subject) ==
  /\ relay[s].stage = "reading"
  /\ buffer[s][subject] # <<>>
  /\ LET e == Head(buffer[s][subject])
     IN  relay' = [relay EXCEPT ![s] =
           IF Passes(s, e) THEN [stage |-> "sending", hand |-> <<e>>]
                           ELSE At("reading")]
  /\ buffer' = [buffer EXCEPT ![s][subject] = Tail(@)]
  /\ UNCHANGED <<rows, channel, gone, got, lost, failures>>

\* Mutant: the error of a closed channel is ignored while there is no room.
SendIgnoresClosed(s) ==
  /\ relay[s].stage = "sending"
  /\ Become(s, "reading")
  /\ channel' = IF s \in gone THEN channel
                ELSE [channel EXCEPT ![s] = @ \o relay[s].hand]
  /\ s \notin gone => Len(channel[s]) < ChannelSize
  /\ UNCHANGED <<rows, buffer, gone, got, lost, failures>>

\* Mutant: the relay does not wait for room.
SendAtOnce(s) ==
  /\ relay[s].stage = "sending"
  /\ \/ s \in gone /\ End(s) /\ UNCHANGED channel
     \/ /\ s \notin gone
        /\ channel' = [channel EXCEPT ![s] = @ \o relay[s].hand]
        /\ Become(s, "reading")
        /\ UNCHANGED buffer
  /\ UNCHANGED <<rows, gone, got, lost, failures>>

\* Mutant: the relay does not wait for room, and lets go of the event.
SendOrDrop(s) ==
  /\ relay[s].stage = "sending"
  /\ \/ s \in gone /\ End(s) /\ UNCHANGED channel
     \/ /\ s \notin gone
        /\ channel' = IF Len(channel[s]) < ChannelSize
                        THEN [channel EXCEPT ![s] = @ \o relay[s].hand] ELSE channel
        /\ Become(s, "reading")
        /\ UNCHANGED buffer
  /\ UNCHANGED <<rows, gone, got, lost, failures>>

\* The relay waits for room in the channel; it notices that the client has
\* left when it has an event for it, and not before.
Send(s) ==
  /\ relay[s].stage = "sending"
  /\ \/ s \in gone /\ End(s) /\ UNCHANGED channel
     \/ /\ s \notin gone
        /\ Len(channel[s]) < ChannelSize
        /\ channel' = [channel EXCEPT ![s] = @ \o relay[s].hand]
        /\ Become(s, "reading")
        /\ UNCHANGED buffer
  /\ UNCHANGED <<rows, gone, got, lost, failures>>

-----------------------------------------------------------------------------
(* The client.                                                             *)

Receive(s) ==
  /\ channel[s] # <<>>
  /\ got' = [got EXCEPT ![s] = @ \cup {Head(channel[s])}]
  /\ channel' = [channel EXCEPT ![s] = Tail(@)]
  /\ UNCHANGED <<rows, relay, buffer, gone, lost, failures>>

\* The client goes away and the channel's reading end with it; a call that is
\* still being set up is dropped.
Leave(s) ==
  /\ relay[s].stage # "off"
  /\ s \notin gone
  /\ gone' = gone \cup {s}
  /\ channel' = [channel EXCEPT ![s] = <<>>]
  /\ IF relay[s].stage = "opening" THEN End(s) ELSE UNCHANGED <<relay, buffer>>
  /\ UNCHANGED <<rows, got, lost, failures>>

\* An instance stops: what its tasks had not published is never published, and
\* the calls it served end.
Crash(i) ==
  LET ended == {s \in Subscribers : Host[s] = i /\ relay[s].stage # "off"}
  IN  /\ Fail
      /\ pass' = [t \in Tasks |-> IF t[2] = i THEN {} ELSE pass[t]]
      /\ Lose(UNION {pass[t] : t \in Kinds \X {i}})
      /\ relay' = [s \in Subscribers |-> IF s \in ended THEN At("ended") ELSE relay[s]]
      /\ buffer' = [s \in Subscribers |-> IF s \in ended THEN Silent ELSE buffer[s]]
      /\ channel' = [s \in Subscribers |-> IF s \in ended THEN <<>> ELSE channel[s]]
      /\ gone' = gone \cup ended
      /\ UNCHANGED <<happened, got>>

-----------------------------------------------------------------------------

Relaying(s) == Send(s) \/ \E subject \in Subjects : Take(s, subject)

Next ==
  \/ \E i \in Instances : Wake(i) \/ Expire(i) \/ Crash(i)
  \/ \E i \in Instances, id \in Ids : Insert(i, id)
  \/ \E t \in Tasks : Publish(t)
  \/ \E s \in Subscribers :
       Subscribe(s) \/ SubscribeStates(s) \/ Relaying(s) \/ Receive(s) \/ Leave(s)

Spec == Init /\ [][Next]_vars

\* A task publishes what it has to; a call is set up; a relay takes what there is (select!
\* picks a ready branch at random); a prompt client reads.
Fairness ==
  /\ \A t \in Tasks : WF_vars(Publish(t))
  /\ \A s \in Subscribers : WF_vars(SubscribeStates(s)) /\ WF_vars(Relaying(s))
  /\ \A s \in Prompt : WF_vars(Receive(s))

FairSpec == Spec /\ Fairness

-----------------------------------------------------------------------------
(* Safety.                                                                 *)

\* What a client is shown, by the two fields of its request: service_slugs
\* selects among the new notifications, include_state_changes adds the state
\* changes, of any service.  docs/architecture.md:225 and docs/api.md:188, 194
\* have the services filter the stream, state changes included; the events of
\* those carry no service to go by.
Wanted(s, e) ==
  \/ /\ Subject(e) = "new"
     /\ ServiceFilter[s] # {} => ServiceOf[e.id] \in ServiceFilter[s]
  \/ Subject(e) = "state" /\ s \in WithStates

\* However tasks, subscriptions and relays interleave, and whatever is lost,
\* a client is shown only what happened: new notifications of the services it
\* named, if it named any, and state changes of any service, if it asked for
\* them; each event at most once, and each task's events in the order of its
\* statements.
Abstract == INSTANCE Feed

ImplementsFeed == Abstract!Spec

\* The event is to be published where s listens, or is on its way to s.
Comes(s, e) ==
  \/ e \in pass[e.by] /\ s \in Listening(Subject(e))
  \/ \E subject \in Subjects : \E k \in 1 .. Len(buffer[s][subject]) : buffer[s][subject][k] = e
  \/ relay[s].hand = <<e>>
  \/ \E k \in 1 .. Len(channel[s]) : channel[s][k] = e

\* An event that comes to a client it is wanted by, and that has not left, goes on
\* coming until the client has it, unless something fails, the client leaves, or
\* its own subscription is full: no filter, no full channel and no other client,
\* however slow, makes it miss one.
MissedOnlyIfLost ==
  [][ \A s \in Subscribers \ gone, e \in Event :
        Comes(s, e) /\ Wanted(s, e) =>
          \/ Comes(s, e)'
          \/ e \in got'[s]
          \/ failures' > failures \/ s \in gone'
          \/ ~HasRoom(s, Subject(e)) ]_vars

-----------------------------------------------------------------------------
(* Liveness, under FairSpec.                                               *)

\* An event a task is about to publish is given to every client that listens,
\* wants it and keeps reading, unless it was lost on the way: a client that
\* reads slowly or a publish that fails costs no other event and no other
\* client anything.
HeardUnlessLost ==
  \A s \in Prompt : \A e \in Event :
    Wanted(s, e) =>
      ( e \in pass[e.by] /\ s \in Listening(Subject(e)) \ gone
          ~> e \in got[s] \/ e \in lost[s] \/ s \in gone )

\* The relay of a client that has left ends as soon as there is an event for
\* it: it does not go on reading for nobody.
ForNobody(s) ==
  /\ s \in gone
  /\ \/ relay[s].stage = "sending"
     \/ \E subject \in Subjects : \E k \in 1 .. Len(buffer[s][subject]) :
          Passes(s, buffer[s][subject][k])

RelayEnds == \A s \in Subscribers : ForNobody(s) ~> relay[s].stage = "ended"
=============================================================================
