----------------------------- MODULE Preferences ------------------------------
(***************************************************************************)
(* One user's preferences, the copy of them a server instance caches, and  *)
(* the decision they lead to: a notification is shown unless the global    *)
(* switch, a mute rule, the preference for its service or the one for its  *)
(* type silences it.                                                       *)
(*                                                                         *)
(* The processor reads the four tables in four statements, between which   *)
(* the user may change any of them, and caches the result for TTL.  No     *)
(* change of a preference drops the cached copy.  Instances share nothing  *)
(* but the database, so one of them is enough here.                        *)
(***************************************************************************)
EXTENDS Integers

CONSTANTS
  Services, Types,
  ServiceOf,       \* [Types -> Services]
  Severities,      \* severities a level or a threshold may have
  ServiceSettings, \* what the user may set for a service
  Rules,           \* mute rules the user may create
  RuleIds,         \* mute rules at a time
  TTL,             \* how long the cached copy lives (cache/mod.rs: 60 s)
  MaxLoad,         \* bound on the time the four reads take
  NULL

\* A preference for a service; min = NULL when no threshold is set.
ServicePref == [ enabled : BOOLEAN, min : Severities \cup {NULL} ]

\* service or type NULL is any.  left is the time until muted_until, 0 when
\* it has passed and NULL when there is none.
Rule == [ service : Services \cup {NULL}, type : Types \cup {NULL},
          left : Nat \cup {NULL} ]

ASSUME ServiceOfAssumption == ServiceOf \in [Types -> Services]
ASSUME SeverityAssumption == Severities \subseteq Int /\ NULL \notin Int
ASSUME SettingsAssumption == ServiceSettings \subseteq ServicePref
ASSUME RulesAssumption == Rules \subseteq Rule
ASSUME TimeAssumption == TTL \in Nat \ {0} /\ MaxLoad \in Nat
ASSUME NullAssumption ==
  NULL \notin ServicePref \cup Rule \cup BOOLEAN \cup Services \cup Types
ASSUME RuleIdsAssumption == RuleIds \cap {"global", "service", "type"} = {}

VARIABLES
  prefs, \* the four tables
  cache, \* the cached copy and its age, or Empty
  load,  \* the parts read so far and the time since the first read, or Empty
  steady \* history: how long each silencer has been as it is now

vars == <<prefs, cache, load, steady>>

-----------------------------------------------------------------------------
(* The decision.                                                           *)

\* A notification as far as preferences look at it; severity NULL when it
\* has no level, or one that does not exist.
Notification == [ type : Types, severity : Severities \cup {NULL} ]

Parts == {"global", "service", "type", "rules"}

\* Preferences as stored: rows that do not exist are NULL, but reading the
\* global switch creates its row with the default, TRUE.
Prefs == [ global  : BOOLEAN,
           service : [Services -> ServicePref \cup {NULL}],
           type    : [Types -> BOOLEAN \cup {NULL}],
           rules   : [RuleIds -> Rule \cup {NULL}] ]

Defaults == [ global  |-> TRUE,
              service |-> [s \in Services |-> NULL],
              type    |-> [t \in Types |-> NULL],
              rules   |-> [r \in RuleIds |-> NULL] ]

Active(rule) == rule.left = NULL \/ rule.left > 0

Mutes(rule, n) ==
  /\ rule # NULL
  /\ rule.service \in {NULL, ServiceOf[n.type]}
  /\ rule.type \in {NULL, n.type}
  /\ Active(rule)

ServiceSilences(pref, n) ==
  /\ pref # NULL
  /\ \/ ~pref.enabled
     \/ pref.min # NULL /\ n.severity # NULL /\ n.severity < pref.min

\* What may silence a notification: the switch, its service, its type, and
\* each mute rule.
Silencers == {"global", "service", "type"} \cup RuleIds

Silences(s, p, n) ==
  CASE s = "global"  -> ~p.global
    [] s = "service" -> ServiceSilences(p.service[ServiceOf[n.type]], n)
    [] s = "type"    -> p.type[n.type] = FALSE
    [] OTHER         -> Mutes(p.rules[s], n)

\* Mutant: the most specific preference wins, against the switch, the mute
\* rules and the service.
ShouldDeliverMostSpecific(p, n) ==
  \/ p.type[n.type] = TRUE
  \/ ~ \E s \in Silencers : Silences(s, p, n)

\* resolve: the checks come in an order, but it only decides which reason
\* is logged.
ShouldDeliver(p, n) == ~ \E s \in Silencers : Silences(s, p, n)

-----------------------------------------------------------------------------

Window == TTL + MaxLoad

Copy == [ prefs : Prefs, parts : SUBSET Parts, age : Nat ]

Empty == [ prefs |-> Defaults, parts |-> {}, age |-> 0 ]

TypeOK ==
  /\ prefs \in Prefs
  /\ cache \in Copy
  /\ load \in Copy
  /\ steady \in [Silencers -> [Notification -> 0 .. Window]]

Init ==
  /\ prefs = Defaults
  /\ cache = Empty
  /\ load = Empty
  /\ steady = [s \in Silencers |-> [n \in Notification |-> Window]]

\* steady starts again for every silencer that begins or ceases to silence a
\* notification, and grows by the time that passes for the others.
Watch(time) ==
  steady' = [s \in Silencers |-> [n \in Notification |->
    IF Silences(s, prefs', n) # Silences(s, prefs, n) THEN 0
    ELSE IF steady[s][n] < Window THEN steady[s][n] + time
    ELSE steady[s][n]]]

-----------------------------------------------------------------------------
(* The user's calls: one statement each.                                   *)

Change(newPrefs) ==
  /\ prefs' = newPrefs
  /\ Watch(0)
  /\ UNCHANGED <<cache, load>>

UpdatePreferences(enabled) == Change([prefs EXCEPT !.global = enabled])

\* Mutant: no threshold is stored as 0.
SetServicePreferenceZero(s, pref) ==
  Change([prefs EXCEPT !.service[s] =
    [pref EXCEPT !.min = IF @ = NULL THEN 0 ELSE @]])

SetServicePreference(s, pref) == Change([prefs EXCEPT !.service[s] = pref])

DeleteServicePreference(s) == Change([prefs EXCEPT !.service[s] = NULL])

SetTypePreference(t, enabled) == Change([prefs EXCEPT !.type[t] = enabled])

DeleteTypePreference(t) == Change([prefs EXCEPT !.type[t] = NULL])

\* A type named without its service is ignored: the rule is for everything.
AsStored(rule) ==
  IF rule.service = NULL THEN [rule EXCEPT !.type = NULL] ELSE rule

CreateMuteRule(r, rule) ==
  /\ prefs.rules[r] = NULL
  /\ Change([prefs EXCEPT !.rules[r] = AsStored(rule)])

DeleteMuteRule(r) ==
  /\ prefs.rules[r] # NULL
  /\ Change([prefs EXCEPT !.rules[r] = NULL])

-----------------------------------------------------------------------------
(* The processor: get_or_load_user_prefs.                                  *)

\* Mutant: rules without an end do not satisfy muted_until > now().
ActiveRulesTimed ==
  [r \in RuleIds |->
     IF prefs.rules[r] # NULL /\ prefs.rules[r].left # NULL /\ Active(prefs.rules[r])
       THEN prefs.rules[r] ELSE NULL]

\* Rules that have passed are not read.
ActiveRules ==
  [r \in RuleIds |->
     IF prefs.rules[r] # NULL /\ Active(prefs.rules[r]) THEN prefs.rules[r] ELSE NULL]

\* A miss reads the tables one after the other: part, after those in
\* earlier, goes into the copy, which becomes new.
ReadPart(part, earlier, new) ==
  /\ cache = Empty
  /\ load.parts = earlier
  /\ load' = [load EXCEPT !.parts = @ \cup {part}, !.prefs = new]
  /\ UNCHANGED <<prefs, cache, steady>>

ReadGlobal ==
  ReadPart("global", {}, [load.prefs EXCEPT !.global = prefs.global])

ReadServices ==
  ReadPart("service", {"global"}, [load.prefs EXCEPT !.service = prefs.service])

ReadTypes ==
  ReadPart("type", {"global", "service"}, [load.prefs EXCEPT !.type = prefs.type])

ReadRules ==
  ReadPart("rules", {"global", "service", "type"},
           [load.prefs EXCEPT !.rules = ActiveRules])

\* Mutant: the copy is used again for the next load.
FillAgain ==
  /\ load.parts = Parts
  /\ cache' = [load EXCEPT !.age = 0]
  /\ load' = [load EXCEPT !.age = 0]
  /\ UNCHANGED <<prefs, steady>>

\* All four are read: they are cached.
Fill ==
  /\ load.parts = Parts
  /\ cache' = [load EXCEPT !.age = 0]
  /\ load' = Empty
  /\ UNCHANGED <<prefs, steady>>

\* Mutant: after an error the load goes on with the parts it has.
LoseLoadResumes ==
  /\ load # Empty
  /\ load' = [load EXCEPT !.age = 0]
  /\ UNCHANGED <<prefs, cache, steady>>

\* A statement fails, or the instance stops and starts again.
LoseLoad ==
  /\ load # Empty
  /\ load' = Empty
  /\ UNCHANGED <<prefs, cache, steady>>

Restart ==
  /\ cache # Empty
  /\ cache' = Empty
  /\ UNCHANGED <<prefs, load, steady>>

-----------------------------------------------------------------------------

\* Mute rules come closer to their end, in the database and in every copy.
RuleLater(rule) ==
  IF rule = NULL \/ rule.left \in {0, NULL} THEN rule
  ELSE [rule EXCEPT !.left = @ - 1]

Later(p) ==
  [p EXCEPT !.rules = [r \in RuleIds |-> RuleLater(p.rules[r])]]

CopyLater(copy) ==
  [copy EXCEPT !.age = copy.age + 1, !.prefs = Later(copy.prefs)]

Tick ==
  /\ load # Empty => load.age < MaxLoad
  /\ prefs' = Later(prefs)
  /\ cache' = IF cache = Empty \/ cache.age + 1 = TTL THEN Empty ELSE CopyLater(cache)
  /\ load' = IF load = Empty THEN Empty ELSE CopyLater(load)
  /\ Watch(1)

UserCall ==
  \/ \E enabled \in BOOLEAN : UpdatePreferences(enabled)
  \/ \E s \in Services : \/ \E pref \in ServiceSettings : SetServicePreference(s, pref)
                         \/ DeleteServicePreference(s)
  \/ \E t \in Types : \/ \E enabled \in BOOLEAN : SetTypePreference(t, enabled)
                      \/ DeleteTypePreference(t)
  \/ \E r \in RuleIds : \/ \E rule \in Rules : CreateMuteRule(r, rule)
                        \/ DeleteMuteRule(r)

Next ==
  \/ UserCall
  \/ ReadGlobal \/ ReadServices \/ ReadTypes \/ ReadRules
  \/ Fill
  \/ LoseLoad
  \/ Restart
  \/ Tick

Spec == Init /\ [][Next]_vars

-----------------------------------------------------------------------------
(* Safety.  Window is the longest time from the first of the four reads to *)
(* the end of the cached copy.                                             *)

Settled(s, n) == steady[s][n] = Window

\* What the user has silenced stays silent: no notification is shown while
\* the switch, a preference or one mute rule has silenced it for Window, be
\* the copy put together from four moments and whatever else was changed.
SilenceTakesEffect ==
  cache # Empty =>
    \A s \in Silencers, n \in Notification :
      Silences(s, prefs, n) /\ Settled(s, n) => ~ShouldDeliver(cache.prefs, n)

\* What the user no longer silences is shown: once nothing has silenced it
\* for Window, no leftover in the copy does.
SilenceEnds ==
  cache # Empty =>
    \A n \in Notification :
      (\A s \in Silencers : ~Silences(s, prefs, n) /\ Settled(s, n))
        => ShouldDeliver(cache.prefs, n)
=============================================================================
