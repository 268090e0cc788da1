-------------------------------- MODULE Jwks ---------------------------------
(***************************************************************************)
(* The signing keys an instance knows.  The identity provider (Hydra)      *)
(* offers a set of keys and rotates them.  The instance fetches the set    *)
(* when it starts, then at every tick of a background task, and whenever a *)
(* token names a key it does not know.  Fetches run side by side; each     *)
(* replaces the whole set by the one it was answered with, however long    *)
(* ago, and a request looks its key up again only after that.              *)
(***************************************************************************)
EXTENDS Naturals

CONSTANTS
  Keys,        \* key ids (RSA keys that can be parsed: others are skipped)
  Requests,    \* requests whose token is being validated
  Background,  \* the task that refreshes the keys, and first the start-up
  Interval,    \* its period (jwks.rs: 1800 s)
  MaxFetch,    \* bound on the time a fetch takes (the code sets no timeout)
  MaxFailures  \* bound on failing fetches

Fetchers == Requests \cup {Background}

\* The longest the set may lag behind the provider's: a fetch answered just
\* before the change, then an interval for each failure and one for the first
\* success, and the time that one takes.
MaxLag == MaxFetch + (MaxFailures + 1) * Interval + MaxFetch

ASSUME BackgroundAssumption == Background \notin Requests
ASSUME IntervalAssumption == Interval \in Nat \ {0}
ASSUME MaxFetchAssumption == MaxFetch \in 0 .. Interval
ASSUME MaxFailuresAssumption == MaxFailures \in Nat

VARIABLES
  offer,    \* each key at the provider: to come, offered, or withdrawn
  since,    \* history: for how long, up to MaxLag + 1
  keys,     \* the set the instance knows
  fetch,    \* the fetches under way
  timer,    \* until the background task's next tick
  request,  \* the requests: their key and how far they have come
  serving,  \* the first fetch has succeeded
  failures

provider == <<offer, since>>
vars == <<provider, keys, fetch, timer, request, serving, failures>>

-----------------------------------------------------------------------------

\* got: what the fetch was answered with.  age: since it was asked.
Fetch == [ stage : {"none", "asked", "answered"}, got : SUBSET Keys,
           age : 0 .. MaxFetch ]

\* offered: history, whether the key was offered when the request began.
Request == [ stage : {"idle", "fetching", "fetched", "accepted", "rejected", "failed"},
             key : Keys, offered : BOOLEAN ]

NoFetch == [stage |-> "none", got |-> {}, age |-> 0]
Asked   == [NoFetch EXCEPT !.stage = "asked"]

Offered == {k \in Keys : offer[k] = "offered"}

\* The variables have their types, and only a background task or a request
\* that waits for it has a fetch under way.
TypeOK ==
  /\ offer \in [Keys -> {"future", "offered", "withdrawn"}]
  /\ since \in [Keys -> 0 .. MaxLag + 1]
  /\ keys \subseteq Keys
  /\ fetch \in [Fetchers -> Fetch]
  /\ timer \in 0 .. Interval
  /\ request \in [Requests -> Request]
  /\ serving \in BOOLEAN
  /\ failures \in 0 .. MaxFailures
  /\ \A r \in Requests :
       fetch[r] # NoFetch <=> request[r].stage = "fetching"

Init ==
  /\ offer \in [Keys -> {"future", "offered"}]
  /\ since = [k \in Keys |-> 0]
  /\ keys = {}
  /\ fetch = [f \in Fetchers |-> IF f = Background THEN Asked ELSE NoFetch]
  /\ timer = 0
  /\ request \in [Requests -> [stage : {"idle"}, key : Keys, offered : {FALSE}]]
  /\ serving = FALSE
  /\ failures = 0

-----------------------------------------------------------------------------
(* The provider.                                                           *)

Turn(k, from, to) ==
  /\ offer[k] = from
  /\ offer' = [offer EXCEPT ![k] = to]
  /\ since' = [since EXCEPT ![k] = 0]
  /\ UNCHANGED <<keys, fetch, timer, request, serving, failures>>

Publish(k)  == Turn(k, "future", "offered")
Withdraw(k) == Turn(k, "offered", "withdrawn")

-----------------------------------------------------------------------------
(* refresh.                                                                *)

\* Mutant: a request looks again before the answer is installed.
AnswerEarly(f) ==
  /\ fetch[f].stage = "asked"
  /\ fetch' = [fetch EXCEPT ![f] =
       [stage |-> "answered", got |-> Offered, age |-> @.age]]
  /\ IF f = Background THEN UNCHANGED request
     ELSE request' = [request EXCEPT ![f].stage = "fetched"]
  /\ UNCHANGED <<provider, keys, timer, serving, failures>>

\* The provider answers with the keys it offers now.
Answer(f) ==
  /\ fetch[f].stage = "asked"
  /\ fetch' = [fetch EXCEPT ![f] =
       [stage |-> "answered", got |-> Offered, age |-> @.age]]
  /\ UNCHANGED <<provider, keys, timer, request, serving, failures>>

Move(r, stage) == request' = [request EXCEPT ![r].stage = stage]

\* The fetch ends; a request goes on.
Done(f, stage) ==
  /\ fetch' = [fetch EXCEPT ![f] = NoFetch]
  /\ IF f = Background THEN UNCHANGED request ELSE Move(f, stage)

\* Mutant: the keys of the answer are added to those there are.
InstallMore(f) ==
  /\ fetch[f].stage = "answered"
  /\ keys' = keys \cup fetch[f].got
  /\ serving' = TRUE
  /\ Done(f, "fetched")
  /\ UNCHANGED <<provider, timer, failures>>

\* Mutant: only the key the request asked for is kept.
InstallOne(f) ==
  /\ fetch[f].stage = "answered"
  /\ keys' = IF f = Background THEN fetch[f].got ELSE fetch[f].got \cap {request[f].key}
  /\ serving' = TRUE
  /\ Done(f, "fetched")
  /\ UNCHANGED <<provider, timer, failures>>

\* The answer replaces the whole set.
Install(f) ==
  /\ fetch[f].stage = "answered"
  /\ keys' = fetch[f].got
  /\ serving' = TRUE
  /\ Done(f, "fetched")
  /\ UNCHANGED <<provider, timer, failures>>

\* The fetch fails, or its answer cannot be read.  A request fails with it,
\* the background task waits for its next tick, the start-up is tried again.
Fail(f) ==
  /\ fetch[f].stage # "none"
  /\ failures < MaxFailures
  /\ failures' = failures + 1
  /\ IF serving THEN Done(f, "failed")
                ELSE fetch' = [fetch EXCEPT ![f] = Asked] /\ UNCHANGED request
  /\ UNCHANGED <<provider, keys, timer, serving>>

\* The background task's tick.
Refresh ==
  /\ serving
  /\ timer = 0
  /\ fetch[Background].stage = "none"
  /\ fetch' = [fetch EXCEPT ![Background] = Asked]
  /\ timer' = Interval
  /\ UNCHANGED <<provider, keys, request, serving, failures>>

-----------------------------------------------------------------------------
(* validate_token.                                                         *)

\* A request with a token signed with key k arrives and looks the key up: it
\* is there, or has to be fetched.
LookUp(r, k) ==
  /\ serving
  /\ request[r].stage \notin {"fetching", "fetched"}
  /\ \/ /\ k \in keys
        /\ request' = [request EXCEPT ![r] =
             [stage |-> "accepted", key |-> k, offered |-> k \in Offered]]
        /\ UNCHANGED fetch
     \/ /\ k \notin keys
        /\ fetch' = [fetch EXCEPT ![r] = Asked]
        /\ request' = [request EXCEPT ![r] =
             [stage |-> "fetching", key |-> k, offered |-> k \in Offered]]
  /\ UNCHANGED <<provider, keys, timer, serving, failures>>

\* The request looks again: "unknown signing key" if the key is not there.
LookAgain(r) ==
  /\ request[r].stage = "fetched"
  /\ Move(r, IF request[r].key \in keys THEN "accepted" ELSE "rejected")
  /\ UNCHANGED <<provider, keys, fetch, timer, serving, failures>>

-----------------------------------------------------------------------------

\* Time passes: not while a fetch has taken MaxFetch, a request only has to
\* look again, or the background task's tick is due.
Tick ==
  /\ \A r \in Requests : request[r].stage # "fetched"
  /\ \A f \in Fetchers : fetch[f] # NoFetch => fetch[f].age < MaxFetch
  /\ serving => timer > 0
  /\ fetch' = [f \in Fetchers |->
       IF fetch[f] = NoFetch THEN NoFetch ELSE [fetch[f] EXCEPT !.age = @ + 1]]
  /\ timer' = IF serving THEN timer - 1 ELSE timer
  /\ since' = [k \in Keys |-> IF since[k] > MaxLag THEN since[k] ELSE since[k] + 1]
  /\ UNCHANGED <<offer, keys, request, serving, failures>>

Next ==
  \/ \E k \in Keys : Publish(k) \/ Withdraw(k)
  \/ \E f \in Fetchers : Answer(f) \/ Install(f) \/ Fail(f)
  \/ Refresh
  \/ \E r \in Requests, k \in Keys : LookUp(r, k)
  \/ \E r \in Requests : LookAgain(r)
  \/ Tick

Spec == Init /\ [][Next]_vars

-----------------------------------------------------------------------------
(* Safety.                                                                 *)

\* A key whose offer is as old as a fetch can be is not thrown out of the set
\* by a fetch that was answered before it was offered.
OfferedKeyKept ==
  [][ \A k \in keys \ keys' : offer[k] = "withdrawn" \/ since[k] <= MaxFetch ]_vars

\* A request whose key was offered all along is turned away only if the offer
\* is so young that an older answer may have been installed after its own.
OfferedKeyAccepted ==
  [][ \A r \in Requests :
        /\ request[r].stage = "fetched" /\ request'[r].stage = "rejected"
        /\ request[r].offered /\ offer[request[r].key] = "offered"
        => since[request[r].key] <= MaxFetch ]_vars

\* No key is accepted for longer than MaxLag after it was withdrawn, nor
\* unknown that has been offered for so long, whatever fetches, failures and
\* rotations were under way.
LagBounded ==
  serving => \A k \in Keys : since[k] > MaxLag => (k \in keys <=> offer[k] = "offered")
=============================================================================
