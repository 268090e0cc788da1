-------------------------- MODULE PreferencesProofs ---------------------------
(***************************************************************************)
(* Proofs about Preferences, for any services, types, rules and times.     *)
(***************************************************************************)
EXTENDS Preferences, TLAPS

-----------------------------------------------------------------------------
(* The invariant: a copy and the tables agree on a silencer, or the silencer*)
(* became what it is after the copy was begun.  To agree on a mute rule is *)
(* also to agree on when it ends: else the copy's rule could end first.    *)

Agree(s, p, q, n) ==
  /\ Silences(s, p, n) <=> Silences(s, q, n)
  /\ s \in RuleIds /\ Silences(s, p, n) => p.rules[s].left = q.rules[s].left

PartOf(s) == IF s \in RuleIds THEN "rules" ELSE s

LoadRecent ==
  /\ load.age <= MaxLoad
  /\ \A s \in Silencers, n \in Notification :
       PartOf(s) \in load.parts =>
         Agree(s, prefs, load.prefs, n) \/ steady[s][n] <= load.age

CacheRecent ==
  cache # Empty =>
    /\ cache.age < TTL
    /\ \A s \in Silencers, n \in Notification :
         Agree(s, prefs, cache.prefs, n) \/ steady[s][n] <= cache.age + MaxLoad

Inv == TypeOK /\ LoadRecent /\ CacheRecent

LEMMA TimeTypes ==
  TTL \in Nat /\ TTL > 0 /\ MaxLoad \in Nat /\ Window \in Nat /\ Window = TTL + MaxLoad
BY TimeAssumption DEF Window

LEMMA DefaultsType == Defaults \in Prefs
BY DEF Defaults, Prefs

LEMMA EmptyType == Empty \in Copy
BY DefaultsType DEF Empty, Copy

LEMMA InitInv == Init => Inv
<1> SUFFICES ASSUME Init PROVE Inv
  OBVIOUS
<1>1. TypeOK
  BY DefaultsType, EmptyType, TimeTypes DEF Init, TypeOK
<1>2. LoadRecent
  BY TimeTypes DEF Init, Empty, LoadRecent
<1>3. CacheRecent
  BY DEF Init, CacheRecent
<1> QED
  BY <1>1, <1>2, <1>3 DEF Inv

\* The two promises follow: what has been as it is for Window was so when
\* the copy was begun, so the copy agrees.
LEMMA SettledAgrees ==
  ASSUME Inv, cache # Empty, NEW s \in Silencers, NEW n \in Notification,
         Settled(s, n)
  PROVE  Silences(s, prefs, n) <=> Silences(s, cache.prefs, n)
<1>1. cache.age \in Nat /\ cache.age < TTL
  BY DEF Inv, TypeOK, Copy, CacheRecent
<1>2. ~(steady[s][n] <= cache.age + MaxLoad)
  BY <1>1, TimeTypes DEF Settled
<1> QED
  BY <1>2 DEF Inv, CacheRecent, Agree

LEMMA InvSilenceTakesEffect == Inv => SilenceTakesEffect
BY SettledAgrees DEF SilenceTakesEffect, ShouldDeliver

LEMMA InvSilenceEnds == Inv => SilenceEnds
BY SettledAgrees DEF SilenceEnds, ShouldDeliver

-----------------------------------------------------------------------------
(* What a silencer depends on.                                             *)

LEMMA SilencesDef ==
  ASSUME NEW p, NEW n
  PROVE  /\ Silences("global", p, n) <=> ~p.global
         /\ Silences("service", p, n) <=> ServiceSilences(p.service[ServiceOf[n.type]], n)
         /\ Silences("type", p, n) <=> p.type[n.type] = FALSE
         /\ \A r \in RuleIds : Silences(r, p, n) <=> Mutes(p.rules[r], n)
<1>1. "global" \notin RuleIds /\ "service" \notin RuleIds /\ "type" \notin RuleIds
  BY RuleIdsAssumption
<1>2. \A r \in RuleIds : r # "global" /\ r # "service" /\ r # "type"
  BY <1>1
<1>3. \A r \in RuleIds : Silences(r, p, n) <=> Mutes(p.rules[r], n)
  BY <1>2 DEF Silences
<1> QED
  BY <1>3 DEF Silences

LEMMA AgreeItself ==
  ASSUME NEW s, NEW p, NEW n
  PROVE  Agree(s, p, p, n)
BY DEF Agree

\* p and q hold the same for a silencer.
SameIn(s, p, q) ==
  /\ s = "global" => p.global = q.global
  /\ s = "service" => p.service = q.service
  /\ s = "type" => p.type = q.type
  /\ s \in RuleIds => p.rules[s] = q.rules[s]

LEMMA SameSilences ==
  ASSUME NEW s \in Silencers, NEW p, NEW q, NEW n, SameIn(s, p, q)
  PROVE  Silences(s, p, n) <=> Silences(s, q, n)
<1>1. CASE s = "global"
  BY <1>1, SilencesDef DEF SameIn
<1>2. CASE s = "service"
  BY <1>2, SilencesDef DEF SameIn
<1>3. CASE s = "type"
  BY <1>3, SilencesDef DEF SameIn
<1>4. CASE s \in RuleIds
  BY <1>4, SilencesDef DEF SameIn
<1> QED
  BY <1>1, <1>2, <1>3, <1>4 DEF Silencers

LEMMA AgreeSame ==
  ASSUME NEW s \in Silencers, NEW p, NEW q, NEW r, NEW n,
         Agree(s, p, q, n), SameIn(s, q, r)
  PROVE  Agree(s, p, r, n)
BY SameSilences DEF Agree, SameIn

\* Time passes for both alike.
LEMMA LaterRule ==
  ASSUME NEW p \in Prefs, NEW r \in RuleIds, NEW n \in Notification
  PROVE  /\ Silences(r, Later(p), n) <=>
              Silences(r, p, n) /\ (p.rules[r].left = NULL \/ p.rules[r].left > 1)
         /\ Silences(r, Later(p), n) =>
              Later(p).rules[r].left =
                IF p.rules[r].left = NULL THEN NULL ELSE p.rules[r].left - 1
<1> DEFINE rule == p.rules[r]
           later == Later(p).rules[r]
<1>1. rule \in Rule \cup {NULL}
  BY DEF Prefs
<1>2. later = IF rule = NULL \/ rule.left \in {0, NULL} THEN rule
              ELSE [rule EXCEPT !.left = rule.left - 1]
  BY DEF Later, RuleLater, Prefs
<1>3. CASE rule = NULL
  BY <1>2, <1>3, SilencesDef DEF Mutes
<1>4. CASE rule # NULL
  <2>1. rule \in Rule /\ rule.left \in Nat \cup {NULL}
    BY <1>1, <1>4 DEF Rule
  <2>2. CASE rule.left = NULL
    <3>1. later = rule
      BY <1>2, <2>2
    <3>2. Silences(r, Later(p), n) <=> Silences(r, p, n)
      BY <3>1, SilencesDef
    <3> QED BY <2>2, <3>1, <3>2
  <2>3. CASE rule.left = 0
    <3>1. later = rule
      BY <1>2, <2>3
    <3>2. ~Active(rule)
      BY <2>3, SeverityAssumption DEF Active
    <3>3. ~Silences(r, p, n) /\ ~Silences(r, Later(p), n)
      BY <3>1, <3>2, SilencesDef DEF Mutes
    <3> QED BY <3>3
  <2>4. CASE rule.left \notin {0, NULL}
    <3>1. /\ later = [rule EXCEPT !.left = rule.left - 1]
          /\ rule.left \in Nat /\ rule.left > 0
      BY <1>2, <1>4, <2>1, <2>4
    <3>2. /\ later.left = rule.left - 1 /\ later.left # NULL
          /\ later.service = rule.service /\ later.type = rule.type
          /\ later # NULL
      BY <2>1, <3>1, SeverityAssumption, NullAssumption DEF Rule
    <3>3. /\ Active(rule)
          /\ Active(later) <=> rule.left > 1
      BY <3>1, <3>2 DEF Active
    <3>4. Mutes(later, n) <=> Mutes(rule, n) /\ rule.left > 1
      BY <1>4, <3>2, <3>3 DEF Mutes
    <3>5. Silences(r, Later(p), n) <=> Silences(r, p, n) /\ rule.left > 1
      BY <3>4, SilencesDef
    <3> QED BY <2>4, <3>2, <3>5
  <2> QED BY <2>2, <2>3, <2>4
<1> QED
  BY <1>3, <1>4

LEMMA LaterType == ASSUME NEW p \in Prefs PROVE Later(p) \in Prefs
<1>1. \A r \in RuleIds : p.rules[r] \in Rule \cup {NULL}
  BY DEF Prefs
<1>2. \A rule \in Rule : rule.left \notin {0, NULL} =>
        [rule EXCEPT !.left = rule.left - 1] \in Rule
  BY DEF Rule
<1>3. [r \in RuleIds |-> RuleLater(p.rules[r])] \in [RuleIds -> Rule \cup {NULL}]
  BY <1>1, <1>2 DEF RuleLater
<1> QED
  BY <1>3 DEF Later, Prefs

LEMMA CopyLaterEffect ==
  ASSUME NEW copy \in Copy
  PROVE  /\ CopyLater(copy) \in Copy
         /\ CopyLater(copy).age = copy.age + 1
         /\ CopyLater(copy).prefs = Later(copy.prefs)
         /\ CopyLater(copy).parts = copy.parts
<1>1. copy.age + 1 \in Nat /\ Later(copy.prefs) \in Prefs
  BY LaterType DEF Copy
<1> QED
  BY <1>1 DEF CopyLater, Copy

LEMMA LaterOthers ==
  ASSUME NEW p \in Prefs, NEW n, NEW s \in {"global", "service", "type"}
  PROVE  Silences(s, Later(p), n) <=> Silences(s, p, n)
<1>1. /\ Later(p).global = p.global
      /\ Later(p).service = p.service
      /\ Later(p).type = p.type
  BY DEF Later, Prefs
<1>2. SameIn(s, Later(p), p)
  BY <1>1, RuleIdsAssumption DEF SameIn
<1> QED
  BY <1>2, SameSilences DEF Silencers

LEMMA LaterAgrees ==
  ASSUME NEW p \in Prefs, NEW q \in Prefs,
         NEW s \in Silencers, NEW n \in Notification, Agree(s, p, q, n)
  PROVE  Agree(s, Later(p), Later(q), n)
<1>1. CASE s \in RuleIds
  BY <1>1, LaterRule DEF Agree
<1>2. CASE s \notin RuleIds
  BY <1>2, LaterOthers DEF Agree, Silencers
<1> QED
  BY <1>1, <1>2

-----------------------------------------------------------------------------
(* The user's calls.                                                       *)

LEMMA WatchEffect ==
  ASSUME TypeOK, NEW time \in {0, 1}, Watch(time)
  PROVE  /\ steady' \in [Silencers -> [Notification -> 0 .. Window]]
         /\ \A s \in Silencers, n \in Notification :
              \/ steady'[s][n] = 0
              \/ /\ steady'[s][n] <= steady[s][n] + time
                 /\ Silences(s, prefs', n) = Silences(s, prefs, n)
<1>1. \A s \in Silencers, n \in Notification : steady[s][n] \in 0 .. Window
  BY DEF TypeOK
<1>2. \A s \in Silencers, n \in Notification :
        steady'[s][n] = IF Silences(s, prefs', n) # Silences(s, prefs, n) THEN 0
                        ELSE IF steady[s][n] < Window THEN steady[s][n] + time
                        ELSE steady[s][n]
  BY DEF Watch
<1>3. \A s \in Silencers, n \in Notification : steady'[s][n] \in 0 .. Window
  BY <1>1, <1>2, TimeTypes
<1>4. steady' \in [Silencers -> [Notification -> 0 .. Window]]
  BY <1>3 DEF Watch
<1>5. ASSUME NEW s \in Silencers, NEW n \in Notification,
             Silences(s, prefs', n) = Silences(s, prefs, n)
      PROVE  steady'[s][n] <= steady[s][n] + time
  BY <1>1, <1>2, <1>5
<1>6. ASSUME NEW s \in Silencers, NEW n \in Notification,
             Silences(s, prefs', n) # Silences(s, prefs, n)
      PROVE  steady'[s][n] = 0
  BY <1>2, <1>6
<1> QED
  BY <1>4, <1>5, <1>6

\* A change that replaces no mute rule by another in one step.
LEMMA ChangeInv ==
  ASSUME Inv, NEW newPrefs \in Prefs, Change(newPrefs),
         \A r \in RuleIds : \/ newPrefs.rules[r] = prefs.rules[r]
                            \/ newPrefs.rules[r] = NULL
                            \/ prefs.rules[r] = NULL
  PROVE  Inv'
<1>1. /\ steady' \in [Silencers -> [Notification -> 0 .. Window]]
      /\ \A s \in Silencers, n \in Notification :
           \/ steady'[s][n] = 0
           \/ /\ steady'[s][n] <= steady[s][n] + 0
              /\ Silences(s, prefs', n) = Silences(s, prefs, n)
  BY WatchEffect DEF Change, Inv
<1>2. TypeOK'
  BY <1>1 DEF Change, Inv, TypeOK
<1>3. ASSUME NEW s \in Silencers, NEW n \in Notification, NEW q, NEW age \in Nat,
             Agree(s, prefs, q, n) \/ steady[s][n] <= age
      PROVE  Agree(s, prefs', q, n) \/ steady'[s][n] <= age
  <2>1. CASE steady'[s][n] = 0
    BY <2>1
  <2>2. CASE /\ steady'[s][n] <= steady[s][n] + 0
             /\ Silences(s, prefs', n) = Silences(s, prefs, n)
    <3>1. CASE steady[s][n] <= age
      BY <1>1, <2>2, <3>1, TimeTypes DEF Inv, TypeOK
    <3>2. CASE Agree(s, prefs, q, n)
      <4>1. s \in RuleIds /\ Silences(s, prefs, n) =>
              prefs'.rules[s] = prefs.rules[s]
        BY <2>2, SilencesDef DEF Change, Mutes
      <4> QED BY <2>2, <3>2, <4>1 DEF Agree
    <3> QED BY <1>3, <3>1, <3>2
  <2> QED BY <1>1, <2>1, <2>2
<1>4. LoadRecent'
  BY <1>3 DEF Change, Inv, LoadRecent, TypeOK, Copy
<1>5. CacheRecent'
  <2>1. cache.age + MaxLoad \in Nat
    BY TimeTypes DEF Inv, TypeOK, Copy
  <2> QED BY <1>3, <2>1 DEF Change, Inv, CacheRecent
<1> QED
  BY <1>2, <1>4, <1>5 DEF Inv

LEMMA UserCallInv == ASSUME Inv, UserCall PROVE Inv'
<1>1. ASSUME NEW enabled \in BOOLEAN, UpdatePreferences(enabled)
      PROVE  Inv'
  <2>1. /\ [prefs EXCEPT !.global = enabled] \in Prefs
        /\ [prefs EXCEPT !.global = enabled].rules = prefs.rules
    BY DEF Inv, TypeOK, Prefs
  <2> QED BY <1>1, <2>1, ChangeInv DEF UpdatePreferences
<1>2. ASSUME NEW s \in Services, NEW pref \in ServicePref \cup {NULL},
             Change([prefs EXCEPT !.service[s] = pref])
      PROVE  Inv'
  <2>1. /\ [prefs EXCEPT !.service[s] = pref] \in Prefs
        /\ [prefs EXCEPT !.service[s] = pref].rules = prefs.rules
    BY DEF Inv, TypeOK, Prefs
  <2> QED BY <1>2, <2>1, ChangeInv
<1>3. ASSUME NEW t \in Types, NEW enabled \in BOOLEAN \cup {NULL},
             Change([prefs EXCEPT !.type[t] = enabled])
      PROVE  Inv'
  <2>1. /\ [prefs EXCEPT !.type[t] = enabled] \in Prefs
        /\ [prefs EXCEPT !.type[t] = enabled].rules = prefs.rules
    BY DEF Inv, TypeOK, Prefs
  <2> QED BY <1>3, <2>1, ChangeInv
<1>4. ASSUME NEW r \in RuleIds, NEW rule \in Rule \cup {NULL},
             rule = NULL \/ prefs.rules[r] = NULL,
             Change([prefs EXCEPT !.rules[r] = rule])
      PROVE  Inv'
  <2>1. /\ [prefs EXCEPT !.rules[r] = rule] \in Prefs
        /\ \A x \in RuleIds : [prefs EXCEPT !.rules[r] = rule].rules[x] =
             IF x = r THEN rule ELSE prefs.rules[x]
    BY DEF Inv, TypeOK, Prefs
  <2> QED BY <1>4, <2>1, ChangeInv
<1>5. ASSUME NEW r \in RuleIds, NEW rule \in Rules, CreateMuteRule(r, rule)
      PROVE  Inv'
  <2>1. AsStored(rule) \in Rule
    BY RulesAssumption DEF AsStored, Rule
  <2> QED BY <1>4, <1>5, <2>1 DEF CreateMuteRule
<1> QED
  BY <1>1, <1>2, <1>3, <1>4, <1>5, SettingsAssumption
     DEF UserCall, SetServicePreference, DeleteServicePreference,
         SetTypePreference, DeleteTypePreference, DeleteMuteRule

-----------------------------------------------------------------------------
(* The processor.                                                          *)

\* A part just read agrees; reading it leaves the parts read before alone.
LEMMA ReadPartInv ==
  ASSUME Inv, NEW part \in Parts, NEW earlier, NEW new \in Prefs,
         ReadPart(part, earlier, new),
         \A s \in Silencers, n \in Notification :
           IF PartOf(s) = part THEN Agree(s, prefs, new, n)
           ELSE Agree(s, prefs, load.prefs, n) => Agree(s, prefs, new, n)
  PROVE  Inv'
<1>1. /\ load' \in Copy /\ load'.age = load.age /\ load'.prefs = new
      /\ load'.parts = load.parts \cup {part}
  BY DEF ReadPart, Inv, TypeOK, Copy
<1>2. TypeOK'
  BY <1>1 DEF ReadPart, Inv, TypeOK
<1>3. LoadRecent'
  BY <1>1 DEF ReadPart, Inv, LoadRecent
<1>4. CacheRecent'
  BY DEF ReadPart, Inv, CacheRecent
<1> QED
  BY <1>2, <1>3, <1>4 DEF Inv

LEMMA ReadInv ==
  ASSUME Inv, ReadGlobal \/ ReadServices \/ ReadTypes \/ ReadRules
  PROVE  Inv'
<1>1. load.prefs \in Prefs /\ prefs \in Prefs
  BY DEF Inv, TypeOK, Copy
<1>2. \A s \in Silencers : s \in RuleIds \/ s \in {"global", "service", "type"}
  BY DEF Silencers
<1>3. \A r \in RuleIds : r \notin {"global", "service", "type"}
  BY RuleIdsAssumption
<1>4. CASE ReadGlobal
  <2> DEFINE new == [load.prefs EXCEPT !.global = prefs.global]
  <2>1. /\ new \in Prefs /\ new.global = prefs.global /\ new.service = load.prefs.service
        /\ new.type = load.prefs.type /\ new.rules = load.prefs.rules
    BY <1>1 DEF Prefs
  <2>2. \A s \in Silencers, n \in Notification :
          IF PartOf(s) = "global" THEN Agree(s, prefs, new, n)
          ELSE Agree(s, prefs, load.prefs, n) => Agree(s, prefs, new, n)
    BY <1>2, <1>3, <2>1, AgreeItself, AgreeSame DEF SameIn, PartOf
  <2> QED BY <1>4, <2>1, <2>2, ReadPartInv DEF ReadGlobal, Parts
<1>5. CASE ReadServices
  <2> DEFINE new == [load.prefs EXCEPT !.service = prefs.service]
  <2>1. /\ new \in Prefs /\ new.service = prefs.service /\ new.global = load.prefs.global
        /\ new.type = load.prefs.type /\ new.rules = load.prefs.rules
    BY <1>1 DEF Prefs
  <2>2. \A s \in Silencers, n \in Notification :
          IF PartOf(s) = "service" THEN Agree(s, prefs, new, n)
          ELSE Agree(s, prefs, load.prefs, n) => Agree(s, prefs, new, n)
    BY <1>2, <1>3, <2>1, AgreeItself, AgreeSame DEF SameIn, PartOf
  <2> QED BY <1>5, <2>1, <2>2, ReadPartInv DEF ReadServices, Parts
<1>6. CASE ReadTypes
  <2> DEFINE new == [load.prefs EXCEPT !.type = prefs.type]
  <2>1. /\ new \in Prefs /\ new.type = prefs.type /\ new.global = load.prefs.global
        /\ new.service = load.prefs.service /\ new.rules = load.prefs.rules
    BY <1>1 DEF Prefs
  <2>2. \A s \in Silencers, n \in Notification :
          IF PartOf(s) = "type" THEN Agree(s, prefs, new, n)
          ELSE Agree(s, prefs, load.prefs, n) => Agree(s, prefs, new, n)
    BY <1>2, <1>3, <2>1, AgreeItself, AgreeSame DEF SameIn, PartOf
  <2> QED BY <1>6, <2>1, <2>2, ReadPartInv DEF ReadTypes, Parts
<1>7. CASE ReadRules
  <2> DEFINE new == [load.prefs EXCEPT !.rules = ActiveRules]
  <2>1. ActiveRules \in [RuleIds -> Rule \cup {NULL}]
    BY <1>1 DEF ActiveRules, Prefs
  <2>2. /\ new \in Prefs /\ new.rules = ActiveRules /\ new.global = load.prefs.global
        /\ new.service = load.prefs.service /\ new.type = load.prefs.type
    BY <1>1, <2>1 DEF Prefs
  <2>3. ASSUME NEW r \in RuleIds, NEW n \in Notification
        PROVE  Agree(r, prefs, new, n)
    <3>1. new.rules[r] = IF prefs.rules[r] # NULL /\ Active(prefs.rules[r])
                         THEN prefs.rules[r] ELSE NULL
      BY <2>2 DEF ActiveRules
    <3>2. CASE new.rules[r] = prefs.rules[r]
      BY <3>2, SilencesDef DEF Agree
    <3>3. CASE new.rules[r] = NULL
      <4>1. ~Mutes(prefs.rules[r], n) /\ ~Mutes(new.rules[r], n)
        BY <3>1, <3>3 DEF Mutes
      <4>2. ~Silences(r, prefs, n) /\ ~Silences(r, new, n)
        BY <4>1, SilencesDef
      <4> QED BY <4>2 DEF Agree
    <3> QED BY <3>1, <3>2, <3>3
  <2>4. \A s \in Silencers, n \in Notification :
          IF PartOf(s) = "rules" THEN Agree(s, prefs, new, n)
          ELSE Agree(s, prefs, load.prefs, n) => Agree(s, prefs, new, n)
    BY <1>2, <1>3, <2>2, <2>3, AgreeSame DEF SameIn, PartOf
  <2> QED BY <1>7, <2>2, <2>4, ReadPartInv DEF ReadRules, Parts
<1> QED
  BY <1>4, <1>5, <1>6, <1>7

LEMMA FillInv == ASSUME Inv, Fill PROVE Inv'
<1>1. load \in Copy
  BY DEF Inv, TypeOK
<1>2. /\ cache' \in Copy /\ cache'.age = 0 /\ cache'.prefs = load.prefs
  BY <1>1 DEF Fill, Copy
<1>3. TypeOK'
  BY <1>2, EmptyType DEF Fill, Inv, TypeOK
<1>4. LoadRecent'
  BY TimeTypes DEF Fill, Empty, LoadRecent
<1>5. \A s \in Silencers : PartOf(s) \in load.parts
  BY DEF Fill, Silencers, PartOf, Parts
<1>6. ASSUME NEW s \in Silencers, NEW n \in Notification
      PROVE  Agree(s, prefs, load.prefs, n) \/ steady[s][n] <= 0 + MaxLoad
  <2>1. Agree(s, prefs, load.prefs, n) \/ steady[s][n] <= load.age
    BY <1>5 DEF Inv, LoadRecent
  <2>2. load.age \in Nat /\ load.age <= MaxLoad /\ steady[s][n] \in 0 .. Window
    BY <1>1 DEF Inv, LoadRecent, Copy, TypeOK
  <2> QED BY <2>1, <2>2, TimeTypes
<1>7. CacheRecent'
  BY <1>2, <1>6, TimeTypes DEF Fill, CacheRecent
<1> QED
  BY <1>3, <1>4, <1>7 DEF Inv

LEMMA LoseInv == ASSUME Inv, LoseLoad \/ Restart PROVE Inv'
<1>1. TypeOK'
  BY EmptyType DEF LoseLoad, Restart, Inv, TypeOK
<1>2. LoadRecent'
  BY TimeTypes DEF LoseLoad, Restart, Inv, LoadRecent, Empty
<1>3. CacheRecent'
  BY DEF LoseLoad, Restart, Inv, CacheRecent
<1> QED
  BY <1>1, <1>2, <1>3 DEF Inv

-----------------------------------------------------------------------------
(* Time, and all steps together.                                           *)

LEMMA TickInv == ASSUME Inv, Tick PROVE Inv'
<1>1. /\ prefs \in Prefs /\ load.prefs \in Prefs /\ cache.prefs \in Prefs
      /\ load \in Copy /\ cache \in Copy /\ load.age \in Nat /\ cache.age \in Nat
      /\ \A s \in Silencers, n \in Notification : steady[s][n] \in 0 .. Window
  BY DEF Inv, TypeOK, Copy
<1>2. prefs' = Later(prefs) /\ prefs' \in Prefs
  BY <1>1, LaterType DEF Tick
<1>3. /\ steady' \in [Silencers -> [Notification -> 0 .. Window]]
      /\ \A s \in Silencers, n \in Notification :
           steady'[s][n] = 0 \/ steady'[s][n] <= steady[s][n] + 1
  BY WatchEffect DEF Tick, Inv
<1>4. ASSUME NEW s \in Silencers, NEW n \in Notification,
             NEW q \in Prefs, NEW age \in Nat,
             Agree(s, prefs, q, n) \/ steady[s][n] <= age
      PROVE  Agree(s, prefs', Later(q), n) \/ steady'[s][n] <= age + 1
  BY <1>1, <1>2, <1>3, <1>4, LaterAgrees
<1>5. load # Empty => /\ load.age < MaxLoad /\ load' \in Copy
                      /\ load'.age = load.age + 1 /\ load'.prefs = Later(load.prefs)
                      /\ load'.parts = load.parts
  BY <1>1, CopyLaterEffect DEF Tick
<1>6. cache' # Empty => /\ cache # Empty /\ cache.age + 1 # TTL /\ cache' \in Copy
                        /\ cache'.age = cache.age + 1
                        /\ cache'.prefs = Later(cache.prefs)
  BY <1>1, CopyLaterEffect DEF Tick
<1>7. TypeOK'
  <2>1. load' \in Copy
    BY <1>5, EmptyType DEF Tick
  <2>2. cache' \in Copy
    BY <1>6, EmptyType
  <2> QED BY <1>2, <1>3, <2>1, <2>2 DEF TypeOK
<1>8. LoadRecent'
  <2>1. CASE load = Empty
    BY <2>1, TimeTypes DEF Tick, Empty, LoadRecent
  <2>2. CASE load # Empty
    <3>1. load'.age <= MaxLoad
      BY <1>1, <1>5, <2>2, TimeTypes
    <3>2. ASSUME NEW s \in Silencers, NEW n \in Notification, PartOf(s) \in load.parts
          PROVE  Agree(s, prefs', Later(load.prefs), n) \/ steady'[s][n] <= load.age + 1
      BY <1>1, <1>4, <3>2 DEF Inv, LoadRecent
    <3> QED BY <1>5, <2>2, <3>1, <3>2 DEF LoadRecent
  <2> QED BY <2>1, <2>2
<1>9. CacheRecent'
  <2> SUFFICES ASSUME cache' # Empty
               PROVE  /\ cache'.age < TTL
                      /\ \A s \in Silencers, n \in Notification :
                           \/ Agree(s, prefs', cache'.prefs, n)
                           \/ steady'[s][n] <= cache'.age + MaxLoad
    BY DEF CacheRecent
  <2>1. cache'.age < TTL
    BY <1>1, <1>6, TimeTypes DEF Inv, CacheRecent
  <2>2. cache.age + MaxLoad \in Nat /\ cache.age + MaxLoad + 1 = cache'.age + MaxLoad
    BY <1>1, <1>6, TimeTypes
  <2>3. ASSUME NEW s \in Silencers, NEW n \in Notification
        PROVE  \/ Agree(s, prefs', Later(cache.prefs), n)
               \/ steady'[s][n] <= cache.age + MaxLoad + 1
    BY <1>1, <1>4, <1>6, <2>2 DEF Inv, CacheRecent
  <2> QED BY <1>6, <2>1, <2>2, <2>3
<1> QED
  BY <1>7, <1>8, <1>9 DEF Inv

LEMMA NextInv == Inv /\ [Next]_vars => Inv'
<1> SUFFICES ASSUME Inv, [Next]_vars PROVE Inv'
  OBVIOUS
<1>1. CASE UNCHANGED vars
  BY <1>1 DEF vars, Inv, TypeOK, LoadRecent, CacheRecent
<1> QED
  BY <1>1, UserCallInv, ReadInv, FillInv, LoseInv, TickInv DEF Next

LEMMA AlwaysInv == Spec => []Inv
BY InitInv, NextInv, PTL DEF Spec

\* The tables, the load and the copy keep their types, whatever the steps.
THEOREM TypeCorrect == Spec => []TypeOK
BY AlwaysInv, PTL DEF Inv

\* What a user has silenced for as long as a copy may live is not shown, for
\* any services, types and rules.
THEOREM SilenceIsHeard == Spec => []SilenceTakesEffect
BY AlwaysInv, InvSilenceTakesEffect, PTL

\* What a user has not silenced for that long is shown.
THEOREM SilenceIsOver == Spec => []SilenceEnds
BY AlwaysInv, InvSilenceEnds, PTL
=============================================================================
