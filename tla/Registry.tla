------------------------------ MODULE Registry -------------------------------
(***************************************************************************)
(* What is registered, and who asks for it when: a service, a type and a   *)
(* level of it; administrators who register, enable, disable and update    *)
(* them; a SendNotification call, which reads the service and the type one *)
(* after the other; and the processor of an instance, which later looks up *)
(* the type of the message and then its level twice, once for the severity *)
(* and once for the id, through a cache that no update of a level clears.  *)
(***************************************************************************)
EXTENDS Naturals

CONSTANTS
  TTL,          \* how long a level stays cached (cache/mod.rs: 300 s)
  MaxLoad,      \* bound on the time from reading a level to caching it
  MaxVersion,   \* bound on the changes of the level
  MaxMessages,  \* bound on the messages sent
  MaxFailures   \* bound on failures and restarts of the processor

ASSUME TTLAssumption == TTL \in Nat \ {0}
ASSUME BoundAssumption ==
  MaxLoad \in Nat /\ MaxVersion \in Nat /\ MaxMessages \in Nat /\ MaxFailures \in Nat

VARIABLES
  service,   \* "absent", "enabled" or "disabled"
  type,      \* the same
  level,     \* the level in the database: 0 unregistered, then one per write
  replaced,  \* history: how long ago each version was replaced
  permitted, \* Keto lets the caller send for the service
  call,      \* the SendNotification call under way
  sent,      \* messages sent so far
  queue,     \* those not yet acknowledged and not being processed
  cache,     \* the instance's cached level
  work,      \* the message being processed
  failures

registered == <<service, type, level>>
vars == <<registered, replaced, permitted, call, sent, queue, cache, work, failures>>

-----------------------------------------------------------------------------

Window == TTL + MaxLoad

Versions == 0 .. MaxVersion

Statuses == {"absent", "enabled", "disabled"}

\* services, types, permits: history, what the service, the type and the
\* permission were since the call began.
Call == [ stage : {"idle", "permission", "service", "type", "publish"},
          services : SUBSET Statuses, types : SUBSET Statuses,
          permits : SUBSET BOOLEAN ]

NoCall == [stage |-> "idle", services |-> {}, types |-> {}, permits |-> {}]

\* A version and its age since it was read or cached; version 0 is no entry.
Entry == [ version : Versions, age : 0 .. TTL + MaxLoad ]

None == [version |-> 0, age |-> 0]

\* read: what the lookup has read and not yet cached.  known: history, whether
\* the level was registered when the message was taken.
Work == [ stage : {"idle", "type", "severity", "id", "insert"},
          read : Entry, severity : Versions, id : BOOLEAN, known : BOOLEAN ]

NoWork == [ stage |-> "idle", read |-> None, severity |-> 0, id |-> FALSE,
            known |-> FALSE ]

\* The variables have their types, and a message is in one place at most.
TypeOK ==
  /\ service \in Statuses
  /\ type \in Statuses
  /\ level \in Versions
  /\ replaced \in [Versions -> 0 .. Window]
  /\ permitted \in BOOLEAN
  /\ call \in Call
  /\ sent \in 0 .. MaxMessages
  /\ queue \in 0 .. sent
  /\ work.stage = "idle" \/ queue < sent
  /\ cache \in Entry /\ cache.age < TTL
  /\ work \in Work /\ work.read.age <= MaxLoad
  /\ failures \in 0 .. MaxFailures

Init ==
  /\ service = "absent"
  /\ type = "absent"
  /\ level = 0
  /\ replaced = [v \in Versions |-> 0]
  /\ permitted = FALSE
  /\ call = NoCall
  /\ sent = 0
  /\ queue = 0
  /\ cache = None
  /\ work = NoWork
  /\ failures = 0

-----------------------------------------------------------------------------
(* The administrator's calls; each is one statement.                       *)

\* The service or the type turns into something, and a call sees it.
Turn(s, t) ==
  /\ service' = s
  /\ type' = t
  /\ call' = IF call = NoCall THEN call
             ELSE [call EXCEPT !.services = @ \cup {s}, !.types = @ \cup {t}]
  /\ UNCHANGED <<level, replaced, permitted, sent, queue, cache, work, failures>>

\* INSERT: an error if there is one.
RegisterService == service = "absent" /\ Turn("enabled", type)

\* UPDATE: nothing happens, and no error, if there is none.
EnableService  == service = "disabled" /\ Turn("enabled", type)
DisableService == service = "enabled" /\ Turn("disabled", type)

\* The service is looked up first; services are never deleted.
RegisterType == service # "absent" /\ type = "absent" /\ Turn(service, "enabled")

\* The whole type is replaced, enabled or not.
UpdateType ==
  /\ type # "absent"
  /\ \E t \in {"enabled", "disabled"} : t # type /\ Turn(service, t)

WriteLevel ==
  /\ service # "absent"
  /\ level < MaxVersion
  /\ level' = level + 1
  /\ UNCHANGED <<service, type, replaced, permitted, call, sent, queue, cache, work, failures>>

RegisterLevel == level = 0 /\ WriteLevel
UpdateLevel   == level > 0 /\ WriteLevel

-----------------------------------------------------------------------------
(* SendNotification.                                                       *)

\* The permission is granted or withdrawn, in Keto.
Permit ==
  /\ permitted' = ~permitted
  /\ call' = IF call = NoCall THEN call ELSE [call EXCEPT !.permits = BOOLEAN]
  /\ UNCHANGED <<registered, replaced, sent, queue, cache, work, failures>>

Begin ==
  /\ call = NoCall
  /\ sent < MaxMessages
  /\ call' = [ stage |-> "permission", services |-> {service}, types |-> {type},
               permits |-> {permitted} ]
  /\ UNCHANGED <<registered, replaced, permitted, sent, queue, cache, work, failures>>

\* The call goes on, or is answered with an error.
Proceed(to) ==
  /\ call' = [call EXCEPT !.stage = to]
  /\ UNCHANGED <<registered, replaced, permitted, sent, queue, cache, work, failures>>

Refuse ==
  /\ call' = NoCall
  /\ UNCHANGED <<registered, replaced, permitted, sent, queue, cache, work, failures>>

\* "no send permission for service".
CheckPermission ==
  /\ call.stage = "permission"
  /\ IF permitted THEN Proceed("service") ELSE Refuse

\* "service not found", "service is disabled".
CheckService ==
  /\ call.stage = "service"
  /\ IF service = "enabled" THEN Proceed("type") ELSE Refuse

\* Mutant: whether the type is enabled is not looked at.
CheckTypeEnabled ==
  /\ call.stage = "type"
  /\ IF type # "absent" THEN Proceed("publish") ELSE Refuse

\* "notification type not found", "notification type is disabled".
CheckType ==
  /\ call.stage = "type"
  /\ IF type = "enabled" THEN Proceed("publish") ELSE Refuse

\* Keto or the database cannot be reached, the payload does not fit the schema
\* that was read, or publishing fails.
FailCall == call # NoCall /\ Refuse

Publish ==
  /\ call.stage = "publish"
  /\ call' = NoCall
  /\ sent' = sent + 1
  /\ queue' = queue + 1
  /\ UNCHANGED <<registered, replaced, permitted, cache, work, failures>>

-----------------------------------------------------------------------------
(* The processor.  (A message that names no level skips its two lookups.)  *)

Take ==
  /\ work = NoWork
  /\ queue > 0
  /\ queue' = queue - 1
  /\ work' = [NoWork EXCEPT !.stage = "type", !.known = level > 0]
  /\ UNCHANGED <<registered, replaced, permitted, call, sent, cache, failures>>

\* The message is given back, to be delivered again.
GiveBack ==
  /\ queue' = queue + 1
  /\ work' = NoWork

\* The type, of the database or, as module TypeCache has it, the cache.
LookUpType ==
  /\ work.stage = "type"
  /\ IF service = "absent" \/ type = "absent"
       THEN GiveBack
       ELSE work' = [work EXCEPT !.stage = "severity"] /\ UNCHANGED queue
  /\ UNCHANGED <<registered, replaced, permitted, call, sent, cache, failures>>

Looking == work.stage \in {"severity", "id"}

\* What a lookup that found version v, or nothing, leads to.
Found(v) ==
  [ work EXCEPT !.read = None,
                !.stage = IF @ = "severity" THEN "id" ELSE "insert",
                !.severity = IF work.stage = "severity" THEN v ELSE @,
                !.id = IF work.stage = "id" THEN v > 0 ELSE @ ]

\* Mutant: an entry that is used lives on.
HitRenews ==
  /\ Looking
  /\ cache # None
  /\ work.read = None
  /\ work' = Found(cache.version)
  /\ cache' = [cache EXCEPT !.age = 0]
  /\ UNCHANGED <<registered, replaced, permitted, call, sent, queue, failures>>

\* The cached level is used as it is.
Hit ==
  /\ Looking
  /\ cache # None
  /\ work.read = None
  /\ work' = Found(cache.version)
  /\ UNCHANGED <<registered, replaced, permitted, call, sent, queue, cache, failures>>

\* Mutant: the second lookup relies on the first to have cached the level.
ReadOnce ==
  /\ Looking
  /\ cache = None
  /\ work.read = None
  /\ work' = IF level = 0 \/ work.stage = "id" THEN Found(0)
                          ELSE [work EXCEPT !.read.version = level]
  /\ UNCHANGED <<registered, replaced, permitted, call, sent, queue, cache, failures>>

\* A miss reads the database; a level that is not there is not cached.
Read ==
  /\ Looking
  /\ cache = None
  /\ work.read = None
  /\ work' = IF level = 0 THEN Found(0)
                          ELSE [work EXCEPT !.read.version = level]
  /\ UNCHANGED <<registered, replaced, permitted, call, sent, queue, cache, failures>>

\* What was read is cached and used.
Fill ==
  /\ work.read # None
  /\ cache' = [work.read EXCEPT !.age = 0]
  /\ work' = Found(work.read.version)
  /\ UNCHANGED <<registered, replaced, permitted, call, sent, queue, failures>>

\* The row is inserted and the message acknowledged.
Insert ==
  /\ work.stage = "insert"
  /\ work' = NoWork
  /\ UNCHANGED <<registered, replaced, permitted, call, sent, queue, cache, failures>>

\* A statement fails: the message is delivered again.
Fail ==
  /\ work # NoWork
  /\ failures < MaxFailures
  /\ failures' = failures + 1
  /\ GiveBack
  /\ UNCHANGED <<registered, replaced, permitted, call, sent, cache>>

\* The instance stops and starts again with nothing cached; the call it was
\* answering is gone.
Restart ==
  /\ failures < MaxFailures
  /\ failures' = failures + 1
  /\ cache' = None
  /\ call' = NoCall
  /\ IF work = NoWork THEN UNCHANGED <<queue, work>> ELSE GiveBack
  /\ UNCHANGED <<registered, replaced, permitted, sent>>

-----------------------------------------------------------------------------

\* Mutant: an entry lives one moment too long.
TickLate ==
  /\ work.read # None => work.read.age < MaxLoad
  /\ cache' = IF cache = None \/ cache.age = TTL THEN None
                                                 ELSE [cache EXCEPT !.age = @ + 1]
  /\ work' = IF work.read = None THEN work ELSE [work EXCEPT !.read.age = @ + 1]
  /\ replaced' = [v \in Versions |->
       IF v < level /\ replaced[v] < Window THEN replaced[v] + 1 ELSE replaced[v]]
  /\ UNCHANGED <<registered, permitted, call, sent, queue, failures>>

\* Time passes: an entry of age TTL is gone.
Tick ==
  /\ work.read # None => work.read.age < MaxLoad
  /\ cache' = IF cache = None \/ cache.age + 1 = TTL THEN None
                                                     ELSE [cache EXCEPT !.age = @ + 1]
  /\ work' = IF work.read = None THEN work ELSE [work EXCEPT !.read.age = @ + 1]
  /\ replaced' = [v \in Versions |->
       IF v < level /\ replaced[v] < Window THEN replaced[v] + 1 ELSE replaced[v]]
  /\ UNCHANGED <<registered, permitted, call, sent, queue, failures>>

Next ==
  \/ RegisterService \/ EnableService \/ DisableService
  \/ RegisterType \/ UpdateType \/ RegisterLevel \/ UpdateLevel
  \/ Permit \/ Begin \/ CheckPermission \/ CheckService \/ CheckType \/ FailCall \/ Publish
  \/ Take \/ LookUpType \/ Hit \/ Read \/ Fill \/ Insert \/ Fail \/ Restart
  \/ Tick

Spec == Init /\ [][Next]_vars

-----------------------------------------------------------------------------
(* Safety.                                                                 *)

\* A message is sent only if the caller was permitted, the service enabled and
\* the type enabled, each at some moment of the call, not necessarily the same:
\* what was off before the call began, and stays off, is never notified of.
SentOnlyIfAllowed ==
  [][ sent' > sent => /\ TRUE \in call.permits
                      /\ "enabled" \in call.services
                      /\ "enabled" \in call.types ]_vars

\* What the processor is given it can work on: a message's service and type
\* are registered, so that none is delivered again and again in vain.
NeverStranded ==
  queue > 0 \/ work # NoWork => service # "absent" /\ type # "absent"

\* A severity the processor goes by was replaced less than an entry's life and
\* a load ago, although nothing clears the cache.
SeverityBounded ==
  [][ \A v \in 1 .. level - 1 :
        work'.severity = v /\ work.severity # v => replaced[v] < Window ]_vars

\* A level that was registered when the message was taken is found both times,
\* and one that is found for its severity is found for its id.
LevelFound ==
  work.stage = "insert" =>
    /\ work.known => work.severity > 0
    /\ work.known \/ work.severity > 0 => work.id

\* So the processor finds all that a message needs that was sent to it.
FoundByProcessor == NeverStranded /\ LevelFound
=============================================================================
