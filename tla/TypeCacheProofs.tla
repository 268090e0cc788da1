--------------------------- MODULE TypeCacheProofs ----------------------------
(***************************************************************************)
(* Proofs about TypeCache, for any instances, calls and times.             *)
(***************************************************************************)
EXTENDS TypeCache, TLAPS

-----------------------------------------------------------------------------
(* The invariant: a version is stale no longer than the copy of it is old, *)
(* and a copy older than an answered change saw its entry dropped.         *)

Loading(i) == load[i] # None
Cached(i) == cache[i] # None

CurrentIsNotReplaced == \A v \in Versions : v >= version => replaced[v] = 0

LoadsFresh ==
  \A i \in Instances : Loading(i) =>
    /\ load[i].age <= MaxLoad
    /\ load[i].version < version => replaced[load[i].version] <= load[i].age

CachesFresh ==
  \A i \in Instances : Cached(i) =>
    /\ cache[i].age < TTL
    /\ cache[i].version < version
         => replaced[cache[i].version] <= cache[i].age + MaxLoad

AnswersWritten ==
  /\ \A h \in Handlers : handler[h] # NULL => handler[h].version <= version
  /\ \A i \in Instances : answered[i] <= version

StaleLoadsRaced ==
  \A i \in Instances :
    Loading(i) /\ load[i].version < answered[i] => load[i].raced

Inv ==
  /\ TypeOK
  /\ CurrentIsNotReplaced
  /\ LoadsFresh
  /\ CachesFresh
  /\ AnswersWritten
  /\ StaleLoadsRaced
  /\ StaleOnlyIfRaced

LEMMA NoneType == None \in Entry
BY MaxVersionAssumption DEF None, Entry, Versions

LEMMA WindowType == Window \in Nat /\ TTL \in Nat /\ TTL > 0 /\ MaxLoad \in Nat
BY TTLAssumption, MaxLoadAssumption DEF Window

LEMMA InvStalenessBounded == Inv => StalenessBounded
BY WindowType
   DEF Inv, CachesFresh, StalenessBounded, TypeOK, Entry, Versions, Cached, Window

LEMMA InitInv == Init => Inv
BY NoneType, WindowType, MaxVersionAssumption
   DEF Init, Inv, TypeOK, CurrentIsNotReplaced, LoadsFresh, CachesFresh,
       AnswersWritten, StaleLoadsRaced, StaleOnlyIfRaced, Loading, Cached, Versions

-----------------------------------------------------------------------------
(* The steps of one processor.                                             *)

LEMMA ReadInv ==
  ASSUME Inv, NEW i \in Instances, Read(i)
  PROVE  Inv'
<1> USE DEF Inv
<1>1. [None EXCEPT !.version = version] \in Entry
  BY NoneType DEF None, Entry, TypeOK
<1>2. /\ load'[i].version = version /\ load'[i].age = 0
      /\ \A j \in Instances : j # i => load'[j] = load[j]
  BY <1>1 DEF Read, TypeOK, None
<1>3. TypeOK' BY <1>1 DEF Read, TypeOK
<1>4. CurrentIsNotReplaced' BY DEF Read, CurrentIsNotReplaced
<1>5. LoadsFresh'
  BY <1>2, WindowType DEF Read, LoadsFresh, Loading, TypeOK, Versions
<1>6. CachesFresh' BY DEF Read, CachesFresh, Cached
<1>7. AnswersWritten' BY DEF Read, AnswersWritten
<1>8. StaleLoadsRaced'
  BY <1>2 DEF Read, StaleLoadsRaced, Loading, AnswersWritten, TypeOK, Versions
<1>9. StaleOnlyIfRaced' BY DEF Read, StaleOnlyIfRaced
<1> QED
  BY <1>3, <1>4, <1>5, <1>6, <1>7, <1>8, <1>9

LEMMA FillInv ==
  ASSUME Inv, NEW i \in Instances, Fill(i)
  PROVE  Inv'
<1> USE DEF Inv
<1>1. load[i] \in Entry /\ [load[i] EXCEPT !.age = 0] \in Entry
  BY DEF TypeOK, Entry
<1>2. /\ cache'[i].version = load[i].version /\ cache'[i].age = 0
      /\ cache'[i].raced = load[i].raced
      /\ \A j \in Instances : j # i => cache'[j] = cache[j] /\ load'[j] = load[j]
      /\ load'[i] = None
  BY <1>1 DEF Fill, TypeOK, Entry
<1>3. TypeOK' BY <1>1, NoneType DEF Fill, TypeOK
<1>4. CurrentIsNotReplaced' BY DEF Fill, CurrentIsNotReplaced
<1>5. LoadsFresh' BY <1>2 DEF Fill, LoadsFresh, Loading
<1>6. CachesFresh'
  <2>1. \A j \in Instances : j # i /\ Cached(j)' => Cached(j) /\ cache'[j] = cache[j]
    BY <1>2 DEF Cached
  <2>2. load[i].version \in Versions /\ load[i].age \in Nat
    BY <1>1 DEF Entry
  <2>3. load[i].version < version => replaced[load[i].version] <= 0 + MaxLoad
    <3>1. replaced[load[i].version] \in Nat
      BY <2>2, WindowType DEF TypeOK
    <3> QED BY <2>2, <3>1, WindowType DEF Fill, LoadsFresh, Loading
  <2>4. /\ cache'[i].age < TTL
        /\ cache'[i].version < version
             => replaced[cache'[i].version] <= cache'[i].age + MaxLoad
    BY <1>2, <2>3, WindowType
  <2> QED BY <2>1, <2>4 DEF Fill, CachesFresh
<1>7. AnswersWritten' BY DEF Fill, AnswersWritten
<1>8. StaleLoadsRaced' BY <1>2 DEF Fill, StaleLoadsRaced, Loading
<1>9. StaleOnlyIfRaced'
  BY <1>2 DEF Fill, StaleOnlyIfRaced, StaleLoadsRaced, Loading
<1> QED
  BY <1>3, <1>4, <1>5, <1>6, <1>7, <1>8, <1>9

LEMMA RestartInv ==
  ASSUME Inv, NEW i \in Instances, Restart(i)
  PROVE  Inv'
<1> USE DEF Inv
<1>1. /\ cache'[i] = None /\ load'[i] = None
      /\ \A j \in Instances : j # i => cache'[j] = cache[j] /\ load'[j] = load[j]
  BY DEF Restart, TypeOK
<1>2. TypeOK' BY NoneType DEF Restart, TypeOK
<1>3. CurrentIsNotReplaced' BY DEF Restart, CurrentIsNotReplaced
<1>4. LoadsFresh' BY <1>1 DEF Restart, LoadsFresh, Loading
<1>5. CachesFresh' BY <1>1 DEF Restart, CachesFresh, Cached
<1>6. AnswersWritten' BY DEF Restart, AnswersWritten
<1>7. StaleLoadsRaced' BY <1>1 DEF Restart, StaleLoadsRaced, Loading
<1>8. StaleOnlyIfRaced' BY <1>1 DEF Restart, StaleOnlyIfRaced
<1> QED
  BY <1>2, <1>3, <1>4, <1>5, <1>6, <1>7, <1>8

-----------------------------------------------------------------------------
(* The steps of a call.                                                    *)

LEMMA WriteInv ==
  ASSUME Inv, NEW h \in Handlers, NEW i \in Instances, Write(h, i)
  PROVE  Inv'
<1> USE DEF Inv
<1>1. version \in Versions /\ version + 1 \in Versions
  BY MaxVersionAssumption DEF Write, TypeOK, Versions
<1>2. TypeOK'
  BY <1>1 DEF Write, TypeOK
<1>3. CurrentIsNotReplaced'
  BY <1>1 DEF Write, CurrentIsNotReplaced, Versions
<1>4. LoadsFresh'
  <2>1. ASSUME NEW j \in Instances, Loading(j), load[j].version < version + 1
        PROVE  replaced[load[j].version] <= load[j].age
    <3>1. load[j] \in Entry
      BY DEF TypeOK
    <3> QED BY <2>1, <3>1, <1>1 DEF LoadsFresh, CurrentIsNotReplaced, Entry, Versions
  <2> QED BY <2>1 DEF Write, LoadsFresh, Loading
<1>5. CachesFresh'
  <2>1. ASSUME NEW j \in Instances, Cached(j), cache[j].version < version + 1
        PROVE  replaced[cache[j].version] <= cache[j].age + MaxLoad
    <3>1. cache[j] \in Entry
      BY DEF TypeOK
    <3> QED BY <2>1, <3>1, <1>1, WindowType
               DEF CachesFresh, CurrentIsNotReplaced, Entry, Versions
  <2> QED BY <2>1 DEF Write, CachesFresh, Cached
<1>6. AnswersWritten'
  BY <1>1 DEF Write, AnswersWritten, TypeOK, Versions
<1>7. StaleLoadsRaced' BY DEF Write, StaleLoadsRaced, Loading
<1>8. StaleOnlyIfRaced' BY DEF Write, StaleOnlyIfRaced
<1> QED
  BY <1>2, <1>3, <1>4, <1>5, <1>6, <1>7, <1>8

LEMMA InvalidateInv ==
  ASSUME Inv, NEW h \in Handlers, Invalidate(h)
  PROVE  Inv'
<1> USE DEF Inv
<1> DEFINE i == handler[h].instance
           v == handler[h].version
<1>1. i \in Instances /\ v \in Versions
  BY DEF Invalidate, TypeOK
<1>2. /\ cache'[i] = None
      /\ \A j \in Instances : j # i => cache'[j] = cache[j] /\ load'[j] = load[j]
      /\ \A j \in Instances : j # i => answered'[j] = answered[j]
      /\ answered'[i] \in {v, answered[i]}
  BY <1>1 DEF Invalidate, TypeOK
<1>3. /\ load[i] = None => load'[i] = None
      /\ load[i] # None => /\ load'[i].version = load[i].version
                           /\ load'[i].age = load[i].age
                           /\ load'[i].raced
      /\ load'[i] \in Entry
  BY <1>1, NoneType DEF Invalidate, TypeOK, Entry
<1>4. TypeOK'
  BY <1>1, <1>3, NoneType DEF Invalidate, TypeOK
<1>5. CurrentIsNotReplaced' BY DEF Invalidate, CurrentIsNotReplaced
<1>6. LoadsFresh' BY <1>1, <1>2, <1>3 DEF Invalidate, LoadsFresh, Loading
<1>7. CachesFresh' BY <1>2 DEF Invalidate, CachesFresh, Cached
<1>8. AnswersWritten'
  <2>1. v <= version
    BY DEF Invalidate, AnswersWritten
  <2>2. \A g \in Handlers : handler'[g] # NULL => handler'[g] = handler[g]
    BY DEF Invalidate, TypeOK
  <2> QED BY <1>1, <1>2, <2>1, <2>2 DEF Invalidate, AnswersWritten
<1>9. StaleLoadsRaced'
  BY <1>1, <1>2, <1>3 DEF Invalidate, StaleLoadsRaced, Loading
<1>10. StaleOnlyIfRaced' BY <1>1, <1>2 DEF Invalidate, StaleOnlyIfRaced
<1> QED
  BY <1>4, <1>5, <1>6, <1>7, <1>8, <1>9, <1>10

-----------------------------------------------------------------------------
(* Time, and all steps together.                                           *)

LEMMA TickInv ==
  ASSUME Inv, Tick
  PROVE  Inv'
<1> USE DEF Inv
<1>1. \A i \in Instances :
        /\ cache'[i] \in Entry /\ load'[i] \in Entry
        /\ cache'[i] # None =>
             /\ cache[i] # None /\ cache[i].age + 1 # TTL
             /\ cache'[i] = [cache[i] EXCEPT !.age = cache[i].age + 1]
        /\ load'[i] # None =>
             /\ load[i] # None /\ load[i].age < MaxLoad
             /\ load'[i] = [load[i] EXCEPT !.age = load[i].age + 1]
  <2> SUFFICES ASSUME NEW i \in Instances
               PROVE  /\ cache'[i] \in Entry /\ load'[i] \in Entry
                      /\ cache'[i] # None =>
                           /\ cache[i] # None /\ cache[i].age + 1 # TTL
                           /\ cache'[i] = [cache[i] EXCEPT !.age = cache[i].age + 1]
                      /\ load'[i] # None =>
                           /\ load[i] # None /\ load[i].age < MaxLoad
                           /\ load'[i] = [load[i] EXCEPT !.age = load[i].age + 1]
    OBVIOUS
  <2>1. \A e \in Entry : [e EXCEPT !.age = e.age + 1] \in Entry
    BY DEF Entry
  <2>2. /\ cache[i] \in Entry /\ load[i] \in Entry
        /\ cache'[i] = IF cache[i] = None \/ cache[i].age + 1 = TTL THEN None
                       ELSE [cache[i] EXCEPT !.age = cache[i].age + 1]
        /\ load'[i] = IF load[i] = None THEN None
                      ELSE [load[i] EXCEPT !.age = load[i].age + 1]
        /\ load[i] # None => load[i].age < MaxLoad
    BY DEF Tick, TypeOK
  <2> QED BY <2>1, <2>2, NoneType
<1>2. \A v \in Versions :
        /\ replaced'[v] \in 0 .. Window
        /\ replaced'[v] <= replaced[v] + 1
        /\ v >= version => replaced'[v] = replaced[v]
  BY WindowType DEF Tick, TypeOK, Versions
<1>3. TypeOK'
  BY <1>1, <1>2 DEF Tick, TypeOK
<1>4. CurrentIsNotReplaced'
  BY <1>2 DEF Tick, CurrentIsNotReplaced
<1>5. LoadsFresh'
  <2> SUFFICES ASSUME NEW i \in Instances, load'[i] # None
               PROVE  /\ load'[i].age <= MaxLoad
                      /\ load'[i].version < version
                           => replaced'[load'[i].version] <= load'[i].age
    BY DEF LoadsFresh, Loading, Tick
  <2>1. /\ load[i] \in Entry /\ load[i] # None /\ load[i].age < MaxLoad
        /\ load'[i].age = load[i].age + 1 /\ load'[i].version = load[i].version
    BY <1>1 DEF TypeOK, Entry
  <2>2. /\ load[i].age \in Nat /\ load[i].version \in Versions
        /\ replaced[load[i].version] \in Nat
    BY <2>1, WindowType DEF Entry, TypeOK
  <2>3. load[i].version < version => replaced[load[i].version] <= load[i].age
    BY <2>1 DEF LoadsFresh, Loading
  <2> QED BY <1>2, <2>1, <2>2, <2>3, WindowType
<1>6. CachesFresh'
  <2> SUFFICES ASSUME NEW i \in Instances, cache'[i] # None
               PROVE  /\ cache'[i].age < TTL
                      /\ cache'[i].version < version
                           => replaced'[cache'[i].version] <= cache'[i].age + MaxLoad
    BY DEF CachesFresh, Cached, Tick
  <2>1. /\ cache[i] \in Entry /\ cache[i] # None /\ cache[i].age + 1 # TTL
        /\ cache'[i].age = cache[i].age + 1 /\ cache'[i].version = cache[i].version
    BY <1>1 DEF TypeOK, Entry
  <2>2. /\ cache[i].age \in Nat /\ cache[i].version \in Versions
        /\ replaced[cache[i].version] \in Nat
    BY <2>1, WindowType DEF Entry, TypeOK
  <2>3. /\ cache[i].age < TTL
        /\ cache[i].version < version
             => replaced[cache[i].version] <= cache[i].age + MaxLoad
    BY <2>1 DEF CachesFresh, Cached
  <2> QED BY <1>2, <2>1, <2>2, <2>3, WindowType
<1>7. AnswersWritten' BY DEF Tick, AnswersWritten
<1>8. StaleLoadsRaced'
  BY <1>1 DEF Tick, StaleLoadsRaced, Loading, TypeOK, Entry
<1>9. StaleOnlyIfRaced'
  BY <1>1 DEF Tick, StaleOnlyIfRaced, TypeOK, Entry
<1> QED
  BY <1>3, <1>4, <1>5, <1>6, <1>7, <1>8, <1>9

LEMMA NextInv == Inv /\ [Next]_vars => Inv'
<1> SUFFICES ASSUME Inv, [Next]_vars PROVE Inv'
  OBVIOUS
<1>1. CASE \E i \in Instances : Read(i) \/ Fill(i) \/ Restart(i)
  BY <1>1, ReadInv, FillInv, RestartInv
<1>2. CASE \E h \in Handlers, i \in Instances : RegisterType(h, i) \/ UpdateType(h, i)
  BY <1>2, WriteInv DEF RegisterType, UpdateType
<1>3. CASE \E h \in Handlers : Invalidate(h)
  BY <1>3, InvalidateInv
<1>4. CASE \E h \in Handlers : Cancel(h)
  BY <1>4 DEF Cancel, Inv, TypeOK, CurrentIsNotReplaced, LoadsFresh, CachesFresh,
              AnswersWritten, StaleLoadsRaced, StaleOnlyIfRaced, Loading, Cached
<1>5. CASE Tick
  BY <1>5, TickInv
<1>6. CASE UNCHANGED vars
  BY <1>6 DEF vars, Inv, TypeOK, CurrentIsNotReplaced, LoadsFresh, CachesFresh,
              AnswersWritten, StaleLoadsRaced, StaleOnlyIfRaced, Loading, Cached
<1> QED
  BY <1>1, <1>2, <1>3, <1>4, <1>5, <1>6 DEF Next

LEMMA AlwaysInv == Spec => []Inv
BY InitInv, NextInv, PTL DEF Spec

\* The entries, loads and calls keep their types, whatever the steps.
THEOREM TypeCorrect == Spec => []TypeOK
BY AlwaysInv, PTL DEF Inv

\* No instance works with a type that was changed longer ago than an entry
\* lives and a load takes, for any number of instances and concurrent calls.
THEOREM StalenessIsBounded == Spec => []StalenessBounded
BY AlwaysInv, InvStalenessBounded, PTL

\* An entry older than a change its instance has answered comes from a load
\* that was under way when the change dropped the entry.
THEOREM OnlyARaceIsStale == Spec => []StaleOnlyIfRaced
BY AlwaysInv, PTL DEF Inv

-----------------------------------------------------------------------------
(* What the processor can rely on.                                         *)

\* An instance works with some version the type has had, never with one that
\* is not written yet or never was.
OnlyWritten ==
  \A i \in Instances :
    /\ Loading(i) => load[i].version \in 1 .. version
    /\ Cached(i) => cache[i].version \in 1 .. version

LEMMA NextOnlyWritten == Inv /\ OnlyWritten /\ [Next]_vars => OnlyWritten'
<1> SUFFICES ASSUME Inv, OnlyWritten, [Next]_vars PROVE OnlyWritten'
  OBVIOUS
<1> USE DEF Inv
<1>1. version \in Nat /\ \A i \in Instances : cache[i] \in Entry /\ load[i] \in Entry
  BY MaxVersionAssumption DEF TypeOK, Versions
<1>2. ASSUME NEW i \in Instances, Read(i)
      PROVE  OnlyWritten'
  <2>1. load'[i].version = version /\ version > 0
    BY <1>1, <1>2 DEF Read, TypeOK, None
  <2>2. /\ UNCHANGED <<version, cache>>
        /\ \A j \in Instances \ {i} : load'[j] = load[j]
    BY <1>2 DEF Read, TypeOK
  <2> QED BY <1>1, <2>1, <2>2 DEF OnlyWritten, Loading, Cached
<1>3. ASSUME NEW i \in Instances, Fill(i)
      PROVE  OnlyWritten'
  <2>1. /\ cache'[i].version = load[i].version /\ load[i] # None
        /\ load'[i] = None
    BY <1>1, <1>3 DEF Fill, TypeOK, Entry
  <2>2. /\ UNCHANGED version
        /\ \A j \in Instances \ {i} : load'[j] = load[j] /\ cache'[j] = cache[j]
    BY <1>3 DEF Fill, TypeOK
  <2> QED BY <2>1, <2>2 DEF OnlyWritten, Loading, Cached
<1>4. ASSUME NEW h \in Handlers, NEW i \in Instances, Write(h, i)
      PROVE  OnlyWritten'
  BY <1>1, <1>4 DEF Write, OnlyWritten, Loading, Cached
<1>5. ASSUME /\ UNCHANGED version
             /\ \A i \in Instances :
                  /\ cache'[i] = None \/ (cache[i] # None /\ cache'[i].version = cache[i].version)
                  /\ load'[i] = None \/ (load[i] # None /\ load'[i].version = load[i].version)
      PROVE  OnlyWritten'
  BY <1>5 DEF OnlyWritten, Loading, Cached
<1>6. ASSUME Tick
      PROVE  OnlyWritten'
  <2>1. \A e \in Entry : [e EXCEPT !.age = e.age + 1].version = e.version
    BY DEF Entry
  <2> QED BY <1>1, <1>5, <1>6, <2>1 DEF Tick
<1>7. ASSUME NEW h \in Handlers, Invalidate(h)
      PROVE  OnlyWritten'
  <2>1. \A e \in Entry : [e EXCEPT !.raced = TRUE].version = e.version
    BY DEF Entry
  <2>2. ASSUME NEW i \in Instances
        PROVE  /\ cache'[i] = None \/ cache'[i] = cache[i]
               /\ \/ load'[i] = load[i]
                  \/ load[i] # None /\ load'[i] = [load[i] EXCEPT !.raced = TRUE]
    BY <1>7 DEF Invalidate, TypeOK
  <2> QED BY <1>1, <1>5, <1>7, <2>1, <2>2 DEF Invalidate
<1>8. CASE \/ \E h \in Handlers : Cancel(h)
           \/ \E i \in Instances : Restart(i)
           \/ UNCHANGED vars
  BY <1>5, <1>8 DEF Cancel, Restart, vars, TypeOK
<1> QED
  BY <1>2, <1>3, <1>4, <1>6, <1>7, <1>8 DEF Next, RegisterType, UpdateType

\* However stale, what an instance works with was the type's at some time.
THEOREM OnlyWrittenIsUsed == Spec => []OnlyWritten
<1>1. Init => OnlyWritten
  BY DEF Init, OnlyWritten, Loading, Cached
<1> QED
  BY <1>1, NextOnlyWritten, AlwaysInv, PTL DEF Spec
=============================================================================
