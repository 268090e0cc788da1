--------------------------- MODULE RegistryProofs ----------------------------
(***************************************************************************)
(* Proofs about Registry, for any times, versions, messages and failures.  *)
(***************************************************************************)
EXTENDS Registry, TLAPS

-----------------------------------------------------------------------------
(* The invariant.                                                          *)

\* What a call has passed, it was allowed to pass at some moment; what it will
\* send has a service and a type.
CallChecked ==
  /\ call.stage # "idle" =>
       /\ sent < MaxMessages
       /\ service \in call.services
       /\ type \in call.types
       /\ permitted \in call.permits
  /\ call.stage \in {"service", "type", "publish"} => TRUE \in call.permits
  /\ call.stage \in {"type", "publish"} =>
       "enabled" \in call.services /\ service # "absent"
  /\ call.stage = "publish" => "enabled" \in call.types /\ type # "absent"

\* Without a message there is nothing in work, and a level only in a lookup.
WorkShape ==
  /\ work.stage = "idle" => work = NoWork
  /\ work.read # None => Looking

CurrentIsNotReplaced == \A v \in Versions : v >= level => replaced[v] = 0

\* A copy of the level is of a version there has been, and stale no longer
\* than it is old.
CopyFresh(copy, allowance) ==
  copy # None =>
    /\ copy.version \in 1 .. level
    /\ replaced[copy.version] <= copy.age + allowance

CopiesFresh == CopyFresh(work.read, 0) /\ CopyFresh(cache, MaxLoad)

\* A level that was registered, or found, stays registered and is found again.
LevelStays ==
  /\ work.known \/ work.severity > 0 => level > 0
  /\ work.stage \in {"id", "insert"} /\ work.known => work.severity > 0

Inv ==
  /\ TypeOK
  /\ CallChecked
  /\ WorkShape
  /\ NeverStranded
  /\ CurrentIsNotReplaced
  /\ CopiesFresh
  /\ LevelStays
  /\ LevelFound

LEMMA Bounds ==
  /\ TTL \in Nat /\ TTL > 0 /\ MaxLoad \in Nat /\ MaxVersion \in Nat
  /\ MaxMessages \in Nat /\ MaxFailures \in Nat
  /\ Window = TTL + MaxLoad /\ Versions = 0 .. MaxVersion
BY TTLAssumption, BoundAssumption DEF Window, Versions

LEMMA EmptyTypes ==
  None \in Entry /\ NoWork \in Work /\ NoCall \in Call
BY Bounds DEF None, Entry, NoWork, Work, NoCall, Call

LEMMA InitInv == Init => Inv
<1> SUFFICES ASSUME Init PROVE Inv
  OBVIOUS
<1>1. /\ None.age = 0 /\ NoWork.read = None /\ NoWork.stage = "idle"
      /\ NoWork.severity = 0 /\ ~NoWork.known /\ NoCall.stage = "idle"
  BY DEF None, NoWork, NoCall
<1>2. TypeOK
  <2>1. replaced \in [Versions -> 0 .. Window] /\ level \in Versions
    BY Bounds DEF Init
  <2>2. queue \in 0 .. sent /\ work.stage = "idle"
    BY <1>1 DEF Init
  <2>3. /\ cache \in Entry /\ cache.age < TTL
        /\ work \in Work /\ work.read.age <= MaxLoad
    BY <1>1, Bounds, EmptyTypes DEF Init
  <2>4. permitted \in BOOLEAN /\ call \in Call
    BY EmptyTypes, Zenon DEF Init
  <2>5. sent = 0 /\ failures = 0 /\ 0 \in 0 .. MaxMessages /\ 0 \in 0 .. MaxFailures
    BY Bounds DEF Init
  <2>6. service \in Statuses /\ type \in Statuses
    BY DEF Init, Statuses
  <2> QED BY <2>1, <2>2, <2>3, <2>4, <2>5, <2>6 DEF TypeOK
<1>3. CallChecked BY <1>1 DEF Init, CallChecked
<1>4. CopiesFresh BY <1>1 DEF Init, CopiesFresh, CopyFresh
<1> QED
  BY <1>1, <1>2, <1>3, <1>4
     DEF Init, Inv, WorkShape, Looking, NeverStranded, CurrentIsNotReplaced, LevelStays,
         LevelFound

-----------------------------------------------------------------------------
(* The administrators.                                                     *)

\* A service or a type may change, but is never absent again.
LEMMA TurnInv ==
  ASSUME Inv, NEW s \in {"enabled", "disabled", service}, NEW t \in {"enabled", "disabled", type},
         Turn(s, t)
  PROVE  Inv'
<1> USE DEF Inv
<1>1. call' \in Call /\ call'.stage = call.stage /\ call'.permits = call.permits
  BY DEF Turn, TypeOK, Call, Statuses
<1>2. call.stage # "idle" => /\ call'.services = call.services \cup {s}
                             /\ call'.types = call.types \cup {t}
  BY DEF Turn, TypeOK, Call, NoCall
<1>3. TypeOK' BY <1>1 DEF Turn, TypeOK, Statuses
<1>4. CallChecked' BY <1>1, <1>2 DEF Turn, CallChecked
<1>5. NeverStranded' BY DEF Turn, NeverStranded
<1> QED
  BY <1>3, <1>4, <1>5
     DEF Turn, WorkShape, Looking, CurrentIsNotReplaced, CopiesFresh, CopyFresh,
         LevelStays, LevelFound

LEMMA WriteLevelInv ==
  ASSUME Inv, WriteLevel
  PROVE  Inv'
<1> USE DEF Inv
<1>1. level \in Versions /\ level' \in Versions /\ level' = level + 1
  BY Bounds DEF WriteLevel, TypeOK
<1>2. TypeOK' BY <1>1 DEF WriteLevel, TypeOK
<1>3. CurrentIsNotReplaced'
  BY <1>1, Bounds DEF WriteLevel, CurrentIsNotReplaced
<1>4. CopiesFresh'
  BY <1>1, Bounds DEF WriteLevel, CopiesFresh, CopyFresh
<1>5. LevelStays' /\ LevelFound'
  BY <1>1, Bounds DEF WriteLevel, LevelStays, LevelFound
<1> QED
  BY <1>2, <1>3, <1>4, <1>5 DEF WriteLevel, CallChecked, WorkShape, Looking, NeverStranded

-----------------------------------------------------------------------------
(* SendNotification.                                                       *)

LEMMA CallInv ==
  ASSUME Inv,
         Permit \/ Begin \/ CheckPermission \/ CheckService \/ CheckType \/ FailCall
  PROVE  Inv'
<1> USE DEF Inv
<1>1. /\ UNCHANGED <<service, type, level, replaced, sent, queue, cache, work, failures>>
      /\ permitted' \in BOOLEAN
  BY DEF Permit, Begin, CheckPermission, CheckService, CheckType, FailCall,
         Proceed, Refuse, registered, TypeOK
<1>2. call' \in Call /\ CallChecked'
  <2>1. CASE Permit
    <3>1. CASE call = NoCall
      BY <2>1, <3>1, EmptyTypes DEF Permit, CallChecked, NoCall
    <3>2. CASE call # NoCall
      <4>1. call' = [call EXCEPT !.permits = BOOLEAN] /\ BOOLEAN \in SUBSET BOOLEAN
        BY <2>1, <3>2 DEF Permit
      <4>2. /\ call' \in Call /\ call'.stage = call.stage /\ call'.permits = BOOLEAN
            /\ call'.services = call.services /\ call'.types = call.types
        BY <4>1 DEF Call, TypeOK
      <4> QED BY <1>1, <4>2 DEF CallChecked
    <3> QED BY <3>1, <3>2
  <2>2. CASE Begin
    BY <2>2 DEF Begin, TypeOK, CallChecked, Call, NoCall, registered
  <2>3. CASE Refuse
    BY <2>3, EmptyTypes DEF Refuse, CallChecked, NoCall
  <2>4. CASE CheckPermission /\ Proceed("service")
    BY <2>4, <1>1
       DEF CheckPermission, Proceed, Refuse, TypeOK, CallChecked, Call, NoCall, registered
  <2>5. CASE CheckService /\ Proceed("type")
    BY <2>5, <1>1 DEF CheckService, Proceed, Refuse, TypeOK, CallChecked, Call, NoCall, registered
  <2>6. CASE CheckType /\ Proceed("publish")
    BY <2>6, <1>1 DEF CheckType, Proceed, Refuse, TypeOK, CallChecked, Call, NoCall, registered
  <2> QED
    BY <2>1, <2>2, <2>3, <2>4, <2>5, <2>6 DEF CheckPermission, CheckService, CheckType, FailCall
<1>3. TypeOK' BY <1>1, <1>2 DEF TypeOK
<1> QED
  BY <1>1, <1>2, <1>3
     DEF WorkShape, Looking, NeverStranded, CurrentIsNotReplaced, CopiesFresh, CopyFresh,
         LevelStays, LevelFound

LEMMA PublishInv ==
  ASSUME Inv, Publish
  PROVE  Inv'
<1> USE DEF Inv
<1>1. sent < MaxMessages /\ service # "absent" /\ type # "absent"
  BY DEF Publish, CallChecked
<1>2. TypeOK'
  BY <1>1, Bounds, EmptyTypes DEF Publish, TypeOK, registered
<1>3. CallChecked' BY DEF Publish, CallChecked, NoCall
<1>4. NeverStranded' BY <1>1 DEF Publish, NeverStranded, registered
<1> QED
  BY <1>2, <1>3, <1>4
     DEF Publish, WorkShape, Looking, CurrentIsNotReplaced, CopiesFresh, CopyFresh,
         LevelStays, LevelFound, registered

-----------------------------------------------------------------------------
(* The processor.                                                          *)

LEMMA TakeInv ==
  ASSUME Inv, Take
  PROVE  Inv'
<1> USE DEF Inv
<1>1. work' = [NoWork EXCEPT !.stage = "type", !.known = level > 0] /\ work = NoWork
  BY DEF Take
<1>2. /\ work' \in Work /\ work'.read = None /\ work'.stage = "type"
      /\ work'.severity = 0 /\ (work'.known => level > 0)
  <2> (level > 0) \in BOOLEAN
    OBVIOUS
  <2>1. CASE level > 0
    <3>1. work' = [NoWork EXCEPT !.stage = "type", !.known = TRUE]
      BY <1>1, <2>1, Zenon
    <3> QED BY <2>1, <3>1, EmptyTypes, Bounds DEF Work, NoWork
  <2>2. CASE ~(level > 0)
    <3>1. work' = [NoWork EXCEPT !.stage = "type", !.known = FALSE]
      BY <1>1, <2>2, Zenon
    <3> QED BY <3>1, EmptyTypes, Bounds DEF Work, NoWork
  <2> QED BY <2>1, <2>2
<1>3. TypeOK'
  BY <1>1, <1>2, Bounds DEF Take, TypeOK, NoWork, None, registered
<1>4. LevelStays' /\ LevelFound'
  BY <1>2 DEF Take, LevelStays, LevelFound, registered
<1>5. CopiesFresh' BY <1>2 DEF Take, CopiesFresh, CopyFresh, registered
<1> QED
  BY <1>2, <1>3, <1>4, <1>5
     DEF Take, CallChecked, WorkShape, NeverStranded, CurrentIsNotReplaced, registered

\* The message in work is given back or done with.
LEMMA DropInv ==
  ASSUME Inv, work # NoWork, work' = NoWork, queue' \in {queue, queue + 1},
         UNCHANGED <<registered, replaced, permitted, sent>>,
         call' \in {call, NoCall}, cache' \in {cache, None}, failures' \in 0 .. MaxFailures
  PROVE  Inv'
<1> USE DEF Inv
<1>1. TypeOK'
  <2>1. /\ NoWork.stage = "idle" /\ NoWork.read = None /\ None.age = 0
        /\ work.stage # "idle"
    BY DEF WorkShape, NoWork, None
  <2>2. queue' \in 0 .. sent
    BY <2>1, Bounds DEF TypeOK
  <2>3. /\ cache' \in Entry /\ cache'.age < TTL
        /\ work' \in Work /\ work'.read.age <= MaxLoad
        /\ call' \in Call
    BY <2>1, Bounds, EmptyTypes DEF TypeOK
  <2> QED BY <2>1, <2>2, <2>3 DEF TypeOK, registered
<1>2. CallChecked'
  <2>1. CASE call' = call
    BY <2>1 DEF CallChecked, registered
  <2>2. CASE call' = NoCall
    BY <2>2 DEF CallChecked, NoCall
  <2> QED BY <2>1, <2>2
<1>3. NeverStranded' BY DEF NeverStranded, registered
<1>4. CopiesFresh' BY DEF CopiesFresh, CopyFresh, NoWork, registered
<1>5. LevelStays' /\ LevelFound' BY DEF LevelStays, LevelFound, NoWork
<1>6. WorkShape' BY DEF WorkShape, NoWork
<1> QED
  BY <1>1, <1>2, <1>3, <1>4, <1>5, <1>6 DEF CurrentIsNotReplaced, registered

LEMMA LookUpTypeInv ==
  ASSUME Inv, LookUpType
  PROVE  Inv'
<1> USE DEF Inv
<1>1. work' = [work EXCEPT !.stage = "severity"] /\ UNCHANGED queue
  BY DEF LookUpType, NeverStranded, NoWork
<1>2. /\ work.stage = "type" /\ work' \in Work /\ work'.stage = "severity"
      /\ work'.read = work.read /\ work'.severity = work.severity
      /\ work'.known = work.known
  BY <1>1 DEF LookUpType, TypeOK, Work
<1>3. TypeOK' BY <1>1, <1>2 DEF LookUpType, TypeOK, registered
<1>4. NeverStranded' BY <1>1, <1>2 DEF LookUpType, NeverStranded, NoWork, registered
<1> QED
  BY <1>2, <1>3, <1>4
     DEF LookUpType, CallChecked, WorkShape, Looking, CurrentIsNotReplaced, CopiesFresh,
         CopyFresh, LevelStays, LevelFound, registered

\* A lookup ends, having found version v of the level or, if v is 0, none.
LEMMA FoundInv ==
  ASSUME Inv, work.stage # "idle",
         NEW v \in 0 .. level, v = 0 => level = 0,
         work.stage \in {"severity", "id"}, work' = Found(v),
         UNCHANGED <<registered, replaced, permitted, call, sent, queue, failures>>,
         cache' \in Entry, cache'.age < TTL, CopyFresh(cache, MaxLoad)'
  PROVE  Inv'
<1> USE DEF Inv
<1>1. level \in Nat /\ v \in Versions
  BY Bounds DEF TypeOK
<1>2. /\ work' \in Work /\ work'.read = None /\ work'.known = work.known
      /\ work.stage = "severity" =>
           work'.stage = "id" /\ work'.severity = v
      /\ work.stage = "id" =>
           /\ work'.stage = "insert" /\ work'.severity = work.severity
           /\ (work'.id <=> v > 0)
  <2>1. (v > 0) \in BOOLEAN /\ work.id \in BOOLEAN
    BY DEF TypeOK, Work
  <2>2. CASE work.stage = "severity"
    BY <1>1, <2>1, <2>2, EmptyTypes DEF Found, TypeOK, Work
  <2>3. CASE work.stage = "id"
    BY <1>1, <2>1, <2>3, EmptyTypes DEF Found, TypeOK, Work
  <2> QED BY <2>2, <2>3
<1>3. TypeOK'
  BY <1>2, Bounds DEF TypeOK, None, registered
<1>4. NeverStranded' BY <1>2 DEF NeverStranded, NoWork, registered
<1>5. LevelStays' /\ LevelFound'
  <2>1. work.severity \in Nat BY Bounds DEF TypeOK, Work
  <2> QED BY <1>1, <1>2, <2>1 DEF LevelStays, LevelFound, registered
<1>6. CopiesFresh' BY <1>2 DEF CopiesFresh, CopyFresh
<1> QED
  BY <1>2, <1>3, <1>4, <1>5, <1>6
     DEF CallChecked, WorkShape, CurrentIsNotReplaced, registered

LEMMA HitInv ==
  ASSUME Inv, Hit
  PROVE  Inv'
<1>1. cache.version \in 1 .. level /\ level \in Nat
  BY Bounds DEF Inv, Hit, CopiesFresh, CopyFresh, TypeOK
<1>2. CopyFresh(cache, MaxLoad)'
  BY DEF Inv, Hit, CopiesFresh, CopyFresh, registered
<1>3. cache' \in Entry /\ cache'.age < TTL
  BY DEF Inv, Hit, TypeOK
<1> QED
  BY <1>1, <1>2, <1>3, FoundInv DEF Hit, Looking

LEMMA ReadInv ==
  ASSUME Inv, Read
  PROVE  Inv'
<1> USE DEF Inv
<1>1. CASE level = 0
  <2>1. work' = Found(0) /\ 0 \in 0 .. level
    BY <1>1 DEF Read
  <2>2. CopyFresh(cache, MaxLoad)' BY DEF Read, CopyFresh
  <2>3. cache' \in Entry /\ cache'.age < TTL BY DEF Read, TypeOK
  <2> QED BY <1>1, <2>1, <2>2, <2>3, FoundInv DEF Read, Looking
<1>2. CASE level # 0
  <2>1. level \in 1 .. level /\ level \in Versions /\ replaced[level] = 0
    BY <1>2, Bounds DEF TypeOK, CurrentIsNotReplaced
  <2>2. work' = [work EXCEPT !.read.version = level] /\ work.read = None
    BY <1>2 DEF Read
  <2>3. /\ work' \in Work /\ work'.stage = work.stage
        /\ work'.read.version = level /\ work'.read.age = 0
        /\ work'.severity = work.severity /\ work'.id = work.id
        /\ work'.known = work.known
    <3>1. [work.read EXCEPT !.version = level] = [version |-> level, age |-> 0]
      BY <2>2 DEF None
    <3>2. [version |-> level, age |-> 0] \in Entry
      BY <2>1, Bounds DEF Entry
    <3>3. work' = [work EXCEPT !.read = [version |-> level, age |-> 0]]
      BY <2>2, <3>1
    <3> QED BY <3>2, <3>3 DEF TypeOK, Work
  <2>4. TypeOK' BY <2>3, Bounds DEF Read, TypeOK, registered
  <2>5. NeverStranded' BY <2>3 DEF Read, NeverStranded, NoWork, Looking, registered
  <2>6. CopiesFresh' BY <2>1, <2>3 DEF Read, CopiesFresh, CopyFresh, registered
  <2> QED
    BY <2>3, <2>4, <2>5, <2>6
       DEF Read, Looking, CallChecked, WorkShape, CurrentIsNotReplaced, LevelStays,
           LevelFound, registered
<1> QED BY <1>1, <1>2

LEMMA FillInv ==
  ASSUME Inv, Fill
  PROVE  Inv'
<1> USE DEF Inv
<1>1. /\ work.read \in Entry /\ work.read.age <= MaxLoad
      /\ work.read.version \in 1 .. level /\ level \in Nat
      /\ replaced[work.read.version] <= work.read.age
      /\ replaced[work.read.version] \in Nat
  BY Bounds DEF Fill, TypeOK, Work, Entry, CopiesFresh, CopyFresh
<1>2. cache' = [work.read EXCEPT !.age = 0]
  BY DEF Fill
<1>3. /\ cache' \in Entry /\ cache'.age = 0 /\ cache'.version = work.read.version
  BY <1>1, <1>2, Bounds DEF Entry
<1>4. CopyFresh(cache, MaxLoad)'
  BY <1>1, <1>3, Bounds DEF Fill, CopyFresh, Entry, registered
<1> QED
  BY <1>1, <1>3, <1>4, Bounds, FoundInv DEF Fill, Looking, WorkShape

\* A statement fails, the instance stops or starts, or the row is inserted.
LEMMA EndInv ==
  ASSUME Inv, Insert \/ Fail \/ Restart
  PROVE  Inv'
<1> USE DEF Inv
<1>1. CASE Insert
  <2>1. work # NoWork BY <1>1 DEF Insert, NoWork
  <2> QED BY <1>1, <2>1, DropInv DEF Insert, TypeOK, registered
<1>2. CASE Fail
  <2>1. failures' \in 0 .. MaxFailures BY <1>2, Bounds DEF Fail, TypeOK
  <2> QED BY <1>2, <2>1, DropInv DEF Fail, GiveBack, registered
<1>3. CASE Restart
  <2>1. failures' \in 0 .. MaxFailures BY <1>3, Bounds DEF Restart, TypeOK
  <2>2. CASE work # NoWork
    BY <1>3, <2>1, <2>2, DropInv DEF Restart, GiveBack, registered
  <2>3. CASE work = NoWork
    <3>1. /\ UNCHANGED <<queue, work, registered, replaced, permitted, sent>>
          /\ cache' = None /\ call' = NoCall
      BY <1>3, <2>3 DEF Restart
    <3>2. TypeOK'
      <4>1. None.age = 0 BY DEF None
      <4> QED BY <2>1, <3>1, <4>1, Bounds, EmptyTypes DEF TypeOK, registered
    <3>3. CallChecked' BY <3>1 DEF CallChecked, NoCall
    <3>4. CopiesFresh' BY <3>1 DEF CopiesFresh, CopyFresh, registered
    <3> QED
      BY <3>1, <3>2, <3>3, <3>4
         DEF WorkShape, NeverStranded, CurrentIsNotReplaced, LevelStays, LevelFound,
             Looking, registered
  <2> QED BY <2>2, <2>3
<1> QED BY <1>1, <1>2, <1>3

-----------------------------------------------------------------------------
(* Time, and all steps together.                                           *)

\* A copy that grows older by one.
LEMMA Older ==
  ASSUME NEW copy \in Entry, copy.age < TTL + MaxLoad
  PROVE  LET older == [copy EXCEPT !.age = copy.age + 1]
         IN  older \in Entry /\ older.version = copy.version /\ older.age = copy.age + 1
BY Bounds DEF Entry

LEMMA TickInv ==
  ASSUME Inv, Tick
  PROVE  Inv'
<1> USE DEF Inv
<1>1. UNCHANGED <<service, type, level, permitted, call, sent, queue, failures>>
  BY DEF Tick, registered
<1>2. /\ cache' \in Entry /\ cache'.age < TTL
      /\ cache' # None => /\ cache # None /\ cache'.version = cache.version
                          /\ cache'.age = cache.age + 1
  <2>1. CASE cache = None \/ cache.age + 1 = TTL
    BY <2>1, EmptyTypes, Bounds DEF Tick, None
  <2>2. CASE ~(cache = None \/ cache.age + 1 = TTL)
    <3>1. cache' = [cache EXCEPT !.age = cache.age + 1]
      BY <2>2 DEF Tick
    <3>2. cache \in Entry /\ cache.age \in Nat /\ cache.age < TTL
      BY Bounds DEF TypeOK, Entry
    <3>3. /\ cache' \in Entry /\ cache'.version = cache.version
          /\ cache'.age = cache.age + 1
      BY <3>1, <3>2, Older, Bounds
    <3> QED BY <2>2, <3>2, <3>3, Bounds
  <2> QED BY <2>1, <2>2
<1>3. /\ work' \in Work /\ work'.read.age <= MaxLoad
      /\ work'.stage = work.stage /\ work'.severity = work.severity
      /\ work'.id = work.id /\ work'.known = work.known
      /\ work.read = None => work' = work
      /\ work.read # None => /\ work'.read.version = work.read.version
                             /\ work'.read.age = work.read.age + 1
  <2>1. CASE work.read = None
    BY <2>1 DEF Tick, TypeOK
  <2>2. CASE work.read # None
    <3>1. work' = [work EXCEPT !.read = [work.read EXCEPT !.age = work.read.age + 1]]
      BY <2>2, Zenon DEF Tick
    <3>2. work.read \in Entry /\ work.read.age < MaxLoad
      BY <2>2 DEF Tick, TypeOK, Work
    <3>3. LET older == [work.read EXCEPT !.age = work.read.age + 1]
          IN  /\ older \in Entry /\ older.version = work.read.version
              /\ older.age = work.read.age + 1 /\ older.age <= MaxLoad
      <4>1. work.read.age \in Nat
        BY <3>2, Bounds DEF Entry
      <4> QED BY <3>2, <4>1, Older, Bounds
    <3>4. /\ work' \in Work
          /\ work'.read = [work.read EXCEPT !.age = work.read.age + 1]
          /\ work'.stage = work.stage /\ work'.severity = work.severity
          /\ work'.id = work.id /\ work'.known = work.known
      BY <3>1, <3>3 DEF TypeOK, Work
    <3> QED BY <2>2, <3>3, <3>4
  <2> QED BY <2>1, <2>2
<1>4. /\ replaced' \in [Versions -> 0 .. Window]
      /\ \A v \in Versions :
           /\ replaced'[v] <= replaced[v] + 1
           /\ v >= level => replaced'[v] = replaced[v]
  BY Bounds DEF Tick, TypeOK
<1>5. TypeOK' BY <1>1, <1>2, <1>3, <1>4 DEF TypeOK
<1>6. CurrentIsNotReplaced' BY <1>1, <1>4 DEF CurrentIsNotReplaced
<1>7. CopyFresh(cache, MaxLoad)'
  <2> SUFFICES ASSUME cache' # None
               PROVE  /\ cache'.version \in 1 .. level
                      /\ replaced'[cache'.version] <= cache'.age + MaxLoad
    BY <1>1 DEF CopyFresh
  <2>1. /\ cache.version \in 1 .. level /\ cache.version \in Versions
        /\ replaced[cache.version] <= cache.age + MaxLoad
        /\ replaced[cache.version] \in Nat /\ replaced'[cache.version] \in Nat
        /\ cache.age \in Nat
    BY <1>2, <1>4, Bounds DEF CopiesFresh, CopyFresh, TypeOK, Entry
  <2>2. replaced'[cache.version] <= replaced[cache.version] + 1
    BY <1>4, <2>1
  <2> QED BY <1>2, <2>1, <2>2, Bounds
<1>8. CopyFresh(work.read, 0)'
  <2> SUFFICES ASSUME work'.read # None
               PROVE  /\ work'.read.version \in 1 .. level
                      /\ replaced'[work'.read.version] <= work'.read.age + 0
    BY <1>1 DEF CopyFresh
  <2>1. work.read # None BY <1>3
  <2>2. /\ work.read.version \in 1 .. level /\ work.read.version \in Versions
        /\ replaced[work.read.version] <= work.read.age + 0
        /\ replaced[work.read.version] \in Nat /\ replaced'[work.read.version] \in Nat
        /\ work.read.age \in Nat
    <3>1. work.read \in Entry BY DEF TypeOK, Work
    <3>2. /\ work.read.version \in 1 .. level
          /\ replaced[work.read.version] <= work.read.age + 0
      BY <2>1 DEF CopiesFresh, CopyFresh
    <3>3. work.read.version \in Versions /\ work.read.age \in Nat
      BY <3>1, Bounds DEF Entry
    <3>4. /\ replaced[work.read.version] \in Nat
          /\ replaced'[work.read.version] \in Nat
      BY <3>3, <1>4, Bounds DEF TypeOK
    <3> QED BY <3>2, <3>3, <3>4
  <2>3. replaced'[work.read.version] <= replaced[work.read.version] + 1
    BY <1>4, <2>2
  <2> QED BY <1>3, <2>1, <2>2, <2>3
<1>9. WorkShape' BY <1>3 DEF WorkShape, Looking, NoWork
<1>10. NeverStranded' BY <1>1, <1>3 DEF NeverStranded, NoWork
<1>11. LevelStays' /\ LevelFound' BY <1>1, <1>3 DEF LevelStays, LevelFound
<1> QED
  BY <1>1, <1>5, <1>6, <1>7, <1>8, <1>9, <1>10, <1>11 DEF CallChecked, CopiesFresh

LEMMA NextInv == Inv /\ [Next]_vars => Inv'
<1> SUFFICES ASSUME Inv, [Next]_vars PROVE Inv'
  OBVIOUS
<1>1. CASE RegisterService \/ EnableService \/ DisableService \/ RegisterType \/ UpdateType
  BY <1>1, TurnInv
     DEF RegisterService, EnableService, DisableService, RegisterType, UpdateType
<1>2. CASE RegisterLevel \/ UpdateLevel
  BY <1>2, WriteLevelInv DEF RegisterLevel, UpdateLevel
<1>3. CASE Permit \/ Begin \/ CheckPermission \/ CheckService \/ CheckType \/ FailCall
  BY <1>3, CallInv
<1>4. CASE UNCHANGED vars
  BY <1>4 DEF vars, registered, Inv, TypeOK, CallChecked, WorkShape, NeverStranded,
              CurrentIsNotReplaced, CopiesFresh, CopyFresh, LevelStays, LevelFound, Looking
<1> QED
  BY <1>1, <1>2, <1>3, <1>4, PublishInv, TakeInv, LookUpTypeInv, HitInv, ReadInv, FillInv,
     EndInv, TickInv DEF Next

LEMMA AlwaysInv == Spec => []Inv
BY InitInv, NextInv, PTL DEF Spec

-----------------------------------------------------------------------------
(* What a step does to the messages sent and the severity in use.          *)

LEMMA OnlyPublishSends ==
  ASSUME [Next]_vars, sent' # sent
  PROVE  Publish
BY DEF Next, vars, RegisterService, EnableService, DisableService, RegisterType,
       UpdateType, RegisterLevel, UpdateLevel, Turn, WriteLevel, Permit, Begin,
       CheckPermission, CheckService, CheckType, FailCall, Proceed, Refuse, Take,
       LookUpType, Hit, Read, Fill, Insert, Fail, Restart, Tick

LEMMA OthersFindNone ==
  ASSUME Inv, [Next]_vars, ~Hit, ~Fill
  PROVE  work'.severity \in {work.severity, 0}
<1>1. NoWork.severity = 0 /\ work \in Work
  BY DEF NoWork, Inv, TypeOK
<1>2. CASE Take
  BY <1>2 DEF Take, NoWork
<1>3. CASE LookUpType
  BY <1>1, <1>3 DEF LookUpType, GiveBack, Work
<1>4. CASE Read
  <2>1. CASE level = 0
    BY <1>1, <1>4, <2>1 DEF Read, Found, Work
  <2>2. CASE level # 0
    BY <1>1, <1>4, <2>2 DEF Read, Work
  <2> QED BY <2>1, <2>2
<1>5. CASE Insert \/ Fail \/ Restart
  BY <1>1, <1>5 DEF Insert, Fail, Restart, GiveBack
<1>6. CASE Tick
  <2>1. work' = work \/
        work' = [work EXCEPT !.read = [work.read EXCEPT !.age = work.read.age + 1]]
    BY <1>6, Zenon DEF Tick
  <2> QED BY <1>1, <2>1 DEF Work
<1>7. CASE UNCHANGED work
  BY <1>7
<1> QED
  BY <1>2, <1>3, <1>4, <1>5, <1>6, <1>7
     DEF Next, vars, RegisterService, EnableService, DisableService, RegisterType,
         UpdateType, RegisterLevel, UpdateLevel, Turn, WriteLevel, Permit, Begin,
         CheckPermission, CheckService, CheckType, FailCall, Proceed, Refuse, Publish

-----------------------------------------------------------------------------
(* The theorems.                                                           *)

\* The tables, the call, the queue and the copies keep their types, whatever
\* the steps.
THEOREM TypeCorrect == Spec => []TypeOK
BY AlwaysInv, PTL DEF Inv

\* However registrations, checks and sends interleave, a message in the queue
\* is of a service and a type that the processor will find, and the two lookups
\* of the level never disagree on whether there is one.
THEOREM NothingInVain == Spec => []FoundByProcessor
BY AlwaysInv, PTL DEF Inv, FoundByProcessor

\* SendNotification sends only what was permitted and enabled at some moments
\* of the call.
THEOREM SendingIsAllowed == Spec => SentOnlyIfAllowed
<1>1. Inv /\ [Next]_vars =>
        [ sent' > sent => /\ TRUE \in call.permits
                          /\ "enabled" \in call.services
                          /\ "enabled" \in call.types ]_vars
  <2> SUFFICES ASSUME Inv, [Next]_vars, sent' > sent
               PROVE  /\ TRUE \in call.permits
                      /\ "enabled" \in call.services
                      /\ "enabled" \in call.types
    OBVIOUS
  <2>1. sent' # sent
    BY Bounds DEF Inv, TypeOK
  <2>2. Publish
    BY <2>1, OnlyPublishSends
  <2> QED BY <2>2 DEF Publish, Inv, CallChecked
<1> QED
  BY <1>1, AlwaysInv, PTL DEF Spec, SentOnlyIfAllowed

\* The severity the processor goes by was replaced less than an entry's life
\* and a load ago, for any lives, loads and updates.
THEOREM SeverityIsBounded == Spec => SeverityBounded
<1>1. Inv /\ [Next]_vars =>
        [ \A v \in 1 .. level - 1 :
            work'.severity = v /\ work.severity # v => replaced[v] < Window ]_vars
  <2> SUFFICES ASSUME Inv, [Next]_vars, NEW v \in 1 .. level - 1,
                      work'.severity = v, work.severity # v
               PROVE  replaced[v] < Window
    OBVIOUS
  <2>1. level \in 0 .. MaxVersion /\ v \in Versions /\ v > 0 /\ replaced[v] \in Nat
    BY Bounds DEF Inv, TypeOK
  <2>2. CASE Hit
    <3>1. v = cache.version
      BY <2>2 DEF Hit, Found, Looking, Inv, TypeOK, Work
    <3> QED
      BY <2>1, <2>2, <3>1, Bounds DEF Hit, Inv, CopiesFresh, CopyFresh, TypeOK, Entry
  <2>3. CASE Fill
    <3>1. v = work.read.version
      BY <2>3 DEF Fill, Found, Looking, WorkShape, Inv, TypeOK, Work
    <3>2. work.read \in Entry /\ work.read.age <= MaxLoad
      BY DEF Inv, TypeOK, Work
    <3>3. work.read.age \in Nat
      BY <3>2, Bounds DEF Entry
    <3>4. replaced[v] <= work.read.age
      BY <2>1, <2>3, <3>1, <3>3 DEF Fill, Inv, CopiesFresh, CopyFresh
    <3> QED BY <2>1, <3>2, <3>3, <3>4, Bounds
  <2>4. Hit \/ Fill
    BY <2>1, OthersFindNone
  <2> QED BY <2>2, <2>3, <2>4
<1> QED
  BY <1>1, AlwaysInv, PTL DEF Spec, SeverityBounded
=============================================================================
