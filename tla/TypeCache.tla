------------------------------ MODULE TypeCache -------------------------------
(***************************************************************************)
(* The in-process cache of a notification type on every server instance.   *)
(* The processor fills it: it reads the type from the database and puts    *)
(* what it read into the cache in a later step.  RegisterType and          *)
(* UpdateType write the database and then, in a later step, drop the entry *)
(* of the instance that handles the call, and of no other.  An entry that  *)
(* nobody drops disappears TTL after it was put in.                        *)
(*                                                                         *)
(* Levels are cached in the same way, but no call drops their entries: see *)
(* module Registry.                                                        *)
(***************************************************************************)
EXTENDS Integers

CONSTANTS
  Instances,  \* server instances, each with a cache and one processor
  Handlers,   \* RegisterType and UpdateType calls under way at a time
  TTL,        \* how long an entry lives (cache/mod.rs: 300 s)
  MaxLoad,    \* bound on the time from reading the type to caching it
  MaxVersion, \* bound on the changes of the type
  NULL

ASSUME TTLAssumption == TTL \in Nat \ {0}
ASSUME MaxLoadAssumption == MaxLoad \in Nat
ASSUME MaxVersionAssumption == MaxVersion \in Nat
ASSUME NullAssumption == NULL \notin [instance : Instances, version : Nat]

VARIABLES
  version,  \* the type in the database: 0 unregistered, then one per write
  cache,    \* each instance's entry, or NULL
  load,     \* what each processor has read and not yet cached, or NULL
  handler,  \* calls that have written and not yet dropped the entry
  answered, \* history: the newest version each instance has answered for
  replaced  \* history: how long ago each version was replaced

vars == <<version, cache, load, handler, answered, replaced>>

-----------------------------------------------------------------------------

Window == TTL + MaxLoad

Versions == 0 .. MaxVersion

\* age: since it was read (load) or cached (cache).  raced: whether an entry
\* was dropped on the instance while this one was being loaded.
Entry == [ version : Versions, age : Nat, raced : BOOLEAN ]

\* No entry, no load.
None == [ version |-> 0, age |-> 0, raced |-> FALSE ]

TypeOK ==
  /\ version \in Versions
  /\ cache \in [Instances -> Entry]
  /\ load \in [Instances -> Entry]
  /\ handler \in [Handlers -> [instance : Instances, version : Versions] \cup {NULL}]
  /\ answered \in [Instances -> Versions]
  /\ replaced \in [Versions -> 0 .. Window]

Init ==
  /\ version = 0
  /\ cache = [i \in Instances |-> None]
  /\ load = [i \in Instances |-> None]
  /\ handler = [h \in Handlers |-> NULL]
  /\ answered = [i \in Instances |-> 0]
  /\ replaced = [v \in Versions |-> 0]

-----------------------------------------------------------------------------
(* The processor: get_or_load_notif_type.                                  *)

\* Mutant: a missing type is cached too.
ReadMissing(i) ==
  /\ cache[i] = None
  /\ load[i] = None
  /\ load' = [load EXCEPT ![i] = [None EXCEPT !.version = version - 1]]
  /\ UNCHANGED <<version, cache, handler, answered, replaced>>

\* A miss reads the database; a type that is not there is an error and is
\* not cached.  (A hit changes nothing.)
Read(i) ==
  /\ cache[i] = None
  /\ load[i] = None
  /\ version > 0
  /\ load' = [load EXCEPT ![i] = [None EXCEPT !.version = version]]
  /\ UNCHANGED <<version, cache, handler, answered, replaced>>

\* Mutant: an entry gets its age from the last time it was filled or used.
FillForEver(i) ==
  /\ \/ load[i] # None /\ cache' = [cache EXCEPT ![i] = [load[i] EXCEPT !.age = 0]]
     \/ load[i] = None /\ cache[i] # None /\ cache' = [cache EXCEPT ![i].age = 0]
  /\ load' = [load EXCEPT ![i] = None]
  /\ UNCHANGED <<version, handler, answered, replaced>>

\* What was read is cached, whatever happened since.
Fill(i) ==
  /\ load[i] # None
  /\ cache' = [cache EXCEPT ![i] = [load[i] EXCEPT !.age = 0]]
  /\ load' = [load EXCEPT ![i] = None]
  /\ UNCHANGED <<version, handler, answered, replaced>>

-----------------------------------------------------------------------------
(* RegisterType and UpdateType.                                            *)

\* The statement of a call of instance i that succeeds; the call goes on to
\* drop the entry.
Write(h, i) ==
  /\ handler[h] = NULL
  /\ version < MaxVersion
  /\ version' = version + 1
  /\ handler' = [handler EXCEPT ![h] = [instance |-> i, version |-> version + 1]]
  /\ UNCHANGED <<cache, load, answered, replaced>>

\* INSERT: refused when the type exists.
RegisterType(h, i) == version = 0 /\ Write(h, i)

\* UPDATE ... RETURNING: an error when the type does not exist.
UpdateType(h, i) == version > 0 /\ Write(h, i)

\* Mutant: the entry of another instance is dropped.
InvalidateElsewhere(h) ==
  /\ handler[h] # NULL
  /\ LET i == handler[h].instance
         v == handler[h].version
     IN  /\ cache' = [j \in Instances |-> IF j = i THEN cache[j] ELSE None]
         /\ load' = [j \in Instances |->
              IF j = i \/ load[j] = None THEN load[j]
                                         ELSE [load[j] EXCEPT !.raced = TRUE]]
         /\ answered' = [answered EXCEPT ![i] = IF @ < v THEN v ELSE @]
  /\ handler' = [handler EXCEPT ![h] = NULL]
  /\ UNCHANGED <<version, replaced>>

\* The entry is dropped and the call answered.
Invalidate(h) ==
  /\ handler[h] # NULL
  /\ LET i == handler[h].instance
         v == handler[h].version
     IN  /\ cache' = [cache EXCEPT ![i] = None]
         /\ load' = IF load[i] = None THEN load
                                      ELSE [load EXCEPT ![i].raced = TRUE]
         /\ answered' = [answered EXCEPT ![i] = IF @ < v THEN v ELSE @]
  /\ handler' = [handler EXCEPT ![h] = NULL]
  /\ UNCHANGED <<version, replaced>>

\* The caller goes away after the write: the rest of the call is not run.
Cancel(h) ==
  /\ handler[h] # NULL
  /\ handler' = [handler EXCEPT ![h] = NULL]
  /\ UNCHANGED <<version, cache, load, answered, replaced>>

-----------------------------------------------------------------------------

\* An instance stops and starts again with nothing cached.
Restart(i) ==
  /\ cache' = [cache EXCEPT ![i] = None]
  /\ load' = [load EXCEPT ![i] = None]
  /\ handler' = [h \in Handlers |->
       IF handler[h] # NULL /\ handler[h].instance = i THEN NULL ELSE handler[h]]
  /\ UNCHANGED <<version, answered, replaced>>

\* Time passes: entries of age TTL are gone.
Tick ==
  /\ \A i \in Instances : load[i] # None => load[i].age < MaxLoad
  /\ cache' = [i \in Instances |->
       IF cache[i] = None \/ cache[i].age + 1 = TTL THEN None
       ELSE [cache[i] EXCEPT !.age = @ + 1]]
  /\ load' = [i \in Instances |->
       IF load[i] = None THEN None ELSE [load[i] EXCEPT !.age = @ + 1]]
  /\ replaced' = [v \in Versions |->
       IF v < version /\ replaced[v] < Window THEN replaced[v] + 1 ELSE replaced[v]]
  /\ UNCHANGED <<version, handler, answered>>

Next ==
  \/ \E i \in Instances : Read(i) \/ Fill(i) \/ Restart(i)
  \/ \E h \in Handlers, i \in Instances : RegisterType(h, i) \/ UpdateType(h, i)
  \/ \E h \in Handlers : Invalidate(h) \/ Cancel(h)
  \/ Tick

Spec == Init /\ [][Next]_vars

\* Time passes and a processor that has read the type caches it.
Fairness == WF_vars(Tick) /\ \A i \in Instances : WF_vars(Fill(i))

FairSpec == Spec /\ Fairness

-----------------------------------------------------------------------------
(* Safety.                                                                 *)

\* No instance works with a version that was replaced longer than an entry's
\* life and a load ago: not after a call whose caller went away, not on an
\* instance no call reached.
StalenessBounded ==
  \A i \in Instances :
    cache[i] # None /\ cache[i].version < version
      => replaced[cache[i].version] < Window

\* On the instance that answered a change, an entry from before the change
\* can only come from a load that was under way when the entry was dropped.
StaleOnlyIfRaced ==
  \A i \in Instances :
    cache[i] # None /\ cache[i].version < answered[i] => cache[i].raced

-----------------------------------------------------------------------------
(* Liveness, under FairSpec.                                               *)

\* Once the type is no longer changed, every instance comes to work with the
\* last version and stays with it.
EventuallyFresh ==
  <>[](\A i \in Instances : cache[i] # None => cache[i].version = version)
=============================================================================
