----------------------------- MODULE JwksProofs ------------------------------
(***************************************************************************)
(* Proofs about Jwks, for any keys, requests, intervals and failures.      *)
(***************************************************************************)
EXTENDS Jwks, TLAPS

-----------------------------------------------------------------------------
(* The invariant.                                                          *)

\* A set of keys is right about a key that it has exactly if it is offered.
RightAbout(k, set) == k \in set <=> offer[k] = "offered"

Answered(f) == fetch[f].stage = "answered"

\* Nothing is known that has not been offered.
KnownWasOffered ==
  \A k \in Keys :
    offer[k] = "future" =>
      /\ k \notin keys
      /\ \A f \in Fetchers : Answered(f) => k \notin fetch[f].got
      /\ \A r \in Requests : request[r].key = k => ~request[r].offered

\* An answer is wrong about what changed since the fetch was asked, at most.
AnswersAreRecent ==
  \A f \in Fetchers, k \in Keys :
    Answered(f) => RightAbout(k, fetch[f].got) \/ since[k] <= fetch[f].age

\* Nothing is fetched for a request before the first fetch has succeeded, and
\* the background task's fetch began with its period.
FetchesInTime ==
  /\ ~serving => timer = 0 /\ \A r \in Requests : request[r].stage = "idle"
  /\ serving /\ fetch[Background].stage # "none" =>
       timer + fetch[Background].age = Interval

\* An answer that a request asked for has the key, if it was offered.
OwnAnswerHasKey ==
  \A r \in Requests :
    /\ request[r].offered
    /\ offer[request[r].key] = "offered"
    => /\ Answered(r) => request[r].key \in fetch[r].got
       /\ request[r].stage = "fetched" =>
            request[r].key \in keys \/ since[request[r].key] <= MaxFetch

\* The bound on the age of an error, as of now.
Allowance == MaxFetch + (failures + 1) * Interval

\* What the set is wrong about will be put right by the background task in time.
ErrorsEnd ==
  serving =>
    \A k \in Keys :
      \/ RightAbout(k, keys)
      \/ fetch[Background].stage = "none" /\ since[k] + timer <= Allowance
      \/ fetch[Background].stage # "none" /\ since[k] <= Allowance + fetch[Background].age

Inv ==
  /\ TypeOK
  /\ KnownWasOffered
  /\ AnswersAreRecent
  /\ FetchesInTime
  /\ OwnAnswerHasKey
  /\ ErrorsEnd

\* The numbers, with the product hidden behind a bound.
LEMMA Bounds ==
  /\ Interval \in Nat /\ Interval > 0 /\ MaxFetch \in Nat /\ MaxFetch <= Interval
  /\ MaxFailures \in Nat /\ MaxLag \in Nat
  /\ Background \in Fetchers /\ Requests \subseteq Fetchers
  /\ Background \notin Requests
<1>1. MaxFailures + 1 \in Nat /\ Interval \in Nat /\ MaxFetch \in Nat /\ MaxFetch <= Interval
  BY IntervalAssumption, MaxFetchAssumption, MaxFailuresAssumption
<1>2. (MaxFailures + 1) * Interval \in Nat
  BY <1>1
<1> QED
  BY <1>1, <1>2, IntervalAssumption, MaxFailuresAssumption, BackgroundAssumption
     DEF MaxLag, Fetchers

LEMMA AllowanceBound ==
  ASSUME failures \in 0 .. MaxFailures
  PROVE  /\ Allowance \in Nat
         /\ Allowance >= MaxFetch + Interval
         /\ Allowance + MaxFetch <= MaxLag
<1>1. failures \in Nat /\ failures <= MaxFailures
  BY Bounds
<1>2. \A m, n \in Nat : m <= n => m * Interval <= n * Interval /\ m * Interval \in Nat
  BY Bounds
<1>3. /\ 1 * Interval <= (failures + 1) * Interval
      /\ (failures + 1) * Interval <= (MaxFailures + 1) * Interval
      /\ (failures + 1) * Interval \in Nat /\ (MaxFailures + 1) * Interval \in Nat
  BY <1>1, <1>2, Bounds
<1> QED BY <1>3, Bounds DEF Allowance, MaxLag

LEMMA AllowanceGrows ==
  ASSUME failures \in Nat, failures' = failures + 1
  PROVE  Allowance' = Allowance + Interval
BY Bounds DEF Allowance

LEMMA FetchTypes ==
  /\ NoFetch \in Fetch /\ NoFetch.stage = "none" /\ NoFetch.age = 0
  /\ Asked \in Fetch /\ Asked.stage = "asked" /\ Asked.age = 0 /\ Asked # NoFetch
BY Bounds DEF NoFetch, Asked, Fetch

LEMMA InitInv == Init => Inv
<1> SUFFICES ASSUME Init PROVE Inv
  OBVIOUS
<1>1. /\ \A f \in Fetchers : fetch[f] \in Fetch /\ fetch[f].stage # "answered"
      /\ \A r \in Requests : fetch[r] = NoFetch
  BY Bounds, FetchTypes DEF Init
<1>2. \A r \in Requests : /\ request[r] \in Request /\ request[r].stage = "idle"
                         /\ ~request[r].offered
  BY DEF Init, Request
<1>3. TypeOK
  <2>1. failures \in 0 .. MaxFailures /\ timer \in 0 .. Interval
        /\ since \in [Keys -> 0 .. MaxLag + 1]
    BY Bounds DEF Init
  <2>2. fetch \in [Fetchers -> Fetch] /\ request \in [Requests -> Request]
    BY <1>1, <1>2 DEF Init
  <2>3. keys \subseteq Keys /\ serving \in BOOLEAN
        /\ offer \in [Keys -> {"future", "offered", "withdrawn"}]
    BY DEF Init
  <2> QED BY <2>1, <2>2, <2>3, <1>1, <1>2 DEF TypeOK
<1>4. FetchesInTime BY <1>2 DEF Init, FetchesInTime
<1>5. KnownWasOffered /\ AnswersAreRecent
  BY <1>1, <1>2 DEF Init, KnownWasOffered, AnswersAreRecent, Answered
<1>6. OwnAnswerHasKey
  BY <1>1, <1>2, Bounds DEF OwnAnswerHasKey, Answered
<1>7. ErrorsEnd BY DEF Init, ErrorsEnd
<1> QED BY <1>3, <1>4, <1>5, <1>6, <1>7 DEF Inv

-----------------------------------------------------------------------------
(* The provider.                                                           *)

LEMMA TurnInv ==
  ASSUME Inv, NEW k \in Keys, Publish(k) \/ Withdraw(k)
  PROVE  Inv'
<1> USE DEF Inv
<1>1. PICK to \in {"offered", "withdrawn"} :
        /\ offer' = [offer EXCEPT ![k] = to]
        /\ to = "offered" => offer[k] = "future"
        /\ to = "withdrawn" => offer[k] = "offered"
  BY DEF Publish, Withdraw, Turn
<1>2. /\ since' = [since EXCEPT ![k] = 0]
      /\ UNCHANGED <<keys, fetch, timer, request, serving, failures>>
  BY DEF Publish, Withdraw, Turn
<1>3. /\ offer'[k] = to /\ since'[k] = 0
      /\ \A j \in Keys \ {k} : offer'[j] = offer[j] /\ since'[j] = since[j]
  BY <1>1, <1>2 DEF TypeOK
<1>4. TypeOK'
  BY <1>1, <1>2, Bounds DEF TypeOK
<1>5. KnownWasOffered'
  BY <1>2, <1>3 DEF KnownWasOffered, Answered
<1>6. AnswersAreRecent'
  <2>1. \A f \in Fetchers : fetch[f].age \in Nat
    BY Bounds DEF TypeOK, Fetch
  <2> QED BY <1>2, <1>3, <2>1 DEF AnswersAreRecent, Answered, RightAbout
<1>7. FetchesInTime'
  BY <1>2 DEF FetchesInTime
<1>8. OwnAnswerHasKey'
  <2> SUFFICES ASSUME NEW r \in Requests, request[r].offered, offer'[request[r].key] = "offered"
               PROVE  /\ Answered(r) => request[r].key \in fetch[r].got
                      /\ request[r].stage = "fetched" =>
                           request[r].key \in keys \/ since'[request[r].key] <= MaxFetch
    BY <1>2 DEF OwnAnswerHasKey, Answered
  <2>1. request[r].key \in Keys
    BY DEF TypeOK, Request
  <2>2. CASE request[r].key = k
    BY <2>2, <1>1, <1>3 DEF OwnAnswerHasKey, KnownWasOffered
  <2>3. CASE request[r].key # k
    BY <2>1, <2>3, <1>3 DEF OwnAnswerHasKey
  <2> QED BY <2>2, <2>3
<1>9. ErrorsEnd'
  <2>1. /\ Allowance \in Nat /\ Allowance >= Interval
        /\ timer \in Nat /\ timer <= Interval /\ fetch[Background].age \in Nat
    BY AllowanceBound, Bounds DEF TypeOK, Fetch
  <2> SUFFICES ASSUME serving, NEW j \in Keys
               PROVE  \/ RightAbout(j, keys)'
                      \/ fetch[Background].stage = "none" /\ since'[j] + timer <= Allowance
                      \/ /\ fetch[Background].stage # "none"
                         /\ since'[j] <= Allowance + fetch[Background].age
    BY <1>2 DEF ErrorsEnd, Allowance
  <2>2. CASE j = k
    <3>1. since'[j] = 0 BY <2>2, <1>3
    <3>2. since'[j] + timer <= Allowance BY <2>1, <3>1, Bounds
    <3>3. since'[j] <= Allowance + fetch[Background].age BY <2>1, <3>1
    <3> QED BY <3>2, <3>3
  <2>3. CASE j # k
    BY <2>3, <1>2, <1>3 DEF ErrorsEnd, RightAbout
  <2> QED BY <2>2, <2>3
<1> QED BY <1>4, <1>5, <1>6, <1>7, <1>8, <1>9

-----------------------------------------------------------------------------
(* The fetches.                                                            *)

LEMMA AnswerInv ==
  ASSUME Inv, NEW f \in Fetchers, Answer(f)
  PROVE  Inv'
<1> USE DEF Inv
<1>1. /\ fetch[f] \in Fetch /\ fetch[f].stage = "asked"
      /\ UNCHANGED <<offer, since, keys, timer, request, serving, failures>>
  BY DEF Answer, TypeOK, provider
<1>2. /\ fetch' \in [Fetchers -> Fetch]
      /\ fetch'[f] = [stage |-> "answered", got |-> Offered, age |-> fetch[f].age]
      /\ \A g \in Fetchers \ {f} : fetch'[g] = fetch[g]
  <2>1. fetch' = [fetch EXCEPT ![f] =
          [stage |-> "answered", got |-> Offered, age |-> fetch[f].age]]
    BY <1>1 DEF Answer
  <2>2. [stage |-> "answered", got |-> Offered, age |-> fetch[f].age] \in Fetch
    BY <1>1 DEF Fetch, Offered
  <2> QED BY <2>1, <2>2 DEF TypeOK
<1>3. /\ fetch'[f].stage = "answered" /\ fetch'[f].got = Offered
      /\ fetch'[f].age = fetch[f].age /\ fetch'[f] # NoFetch /\ fetch[f] # NoFetch
  BY <1>1, <1>2, FetchTypes
<1>4. TypeOK'
  <2>1. \A g \in Fetchers : fetch'[g] # NoFetch <=> fetch[g] # NoFetch
    BY <1>2, <1>3
  <2> QED BY <1>1, <1>2, <2>1, Bounds DEF TypeOK
<1>5. KnownWasOffered'
  BY <1>1, <1>2, <1>3 DEF KnownWasOffered, Answered, Offered
<1>6. AnswersAreRecent'
  BY <1>1, <1>2, <1>3 DEF AnswersAreRecent, Answered, RightAbout, Offered
<1>7. FetchesInTime'
  BY <1>1, <1>2, <1>3, Bounds DEF FetchesInTime
<1>8. OwnAnswerHasKey'
  BY <1>1, <1>2, <1>3, Bounds DEF OwnAnswerHasKey, Answered, Offered, TypeOK, Request
<1>9. ErrorsEnd'
  BY <1>1, <1>2, <1>3, Bounds DEF ErrorsEnd, RightAbout, Allowance
<1> QED BY <1>4, <1>5, <1>6, <1>7, <1>8, <1>9

\* The end of a fetch, whether or not it was any good.
LEMMA DoneFacts ==
  ASSUME TypeOK, NEW f \in Fetchers, fetch[f].stage # "none",
         NEW stage \in {"fetched", "failed"}, Done(f, stage)
  PROVE  /\ fetch' \in [Fetchers -> Fetch] /\ request' \in [Requests -> Request]
         /\ fetch'[f] = NoFetch /\ \A g \in Fetchers \ {f} : fetch'[g] = fetch[g]
         /\ \A r \in Requests :
              /\ request'[r].key = request[r].key
              /\ request'[r].offered <=> request[r].offered
              /\ r # f => request'[r].stage = request[r].stage
              /\ r = f => request'[r].stage = stage /\ request[r].stage = "fetching"
         /\ \A r \in Requests : fetch'[r] # NoFetch <=> request'[r].stage = "fetching"
<1>1. /\ fetch' \in [Fetchers -> Fetch]
      /\ fetch'[f] = NoFetch /\ \A g \in Fetchers \ {f} : fetch'[g] = fetch[g]
  BY FetchTypes DEF Done, TypeOK
<1>2. CASE f = Background
  BY <1>1, <1>2, Bounds DEF Done, TypeOK
<1>3. CASE f # Background
  <2>1. /\ f \in Requests /\ request' = [request EXCEPT ![f].stage = stage]
        /\ request[f].stage = "fetching"
    BY <1>3, FetchTypes DEF Done, Move, TypeOK, Fetchers
  <2>2. request' \in [Requests -> Request]
    BY <2>1 DEF TypeOK, Request
  <2>3. /\ request'[f].stage = stage /\ request'[f].key = request[f].key
        /\ request'[f].offered <=> request[f].offered
        /\ \A r \in Requests \ {f} : request'[r] = request[r]
    BY <2>1 DEF TypeOK, Request
  <2> QED BY <1>1, <2>1, <2>2, <2>3, Bounds DEF TypeOK
<1> QED BY <1>2, <1>3

LEMMA InstallInv ==
  ASSUME Inv, NEW f \in Fetchers, Install(f)
  PROVE  Inv'
<1> USE DEF Inv
<1>1. /\ Answered(f) /\ fetch[f] \in Fetch
      /\ keys' = fetch[f].got /\ serving'
      /\ UNCHANGED <<offer, since, timer, failures>>
      /\ Done(f, "fetched")
  BY DEF Install, Answered, TypeOK, provider
<1>2. /\ fetch' \in [Fetchers -> Fetch] /\ request' \in [Requests -> Request]
      /\ fetch'[f] = NoFetch /\ \A g \in Fetchers \ {f} : fetch'[g] = fetch[g]
      /\ \A r \in Requests :
           /\ request'[r].key = request[r].key
           /\ request'[r].offered <=> request[r].offered
           /\ r # f => request'[r].stage = request[r].stage
           /\ r = f => request'[r].stage = "fetched" /\ request[r].stage = "fetching"
      /\ \A r \in Requests : fetch'[r] # NoFetch <=> request'[r].stage = "fetching"
  BY <1>1, DoneFacts DEF Answered
<1>3. TypeOK'
  BY <1>1, <1>2 DEF Install, TypeOK, Fetch, provider
<1>4. \A k \in Keys : RightAbout(k, keys)' \/ since[k] <= MaxFetch
  <2> SUFFICES ASSUME NEW k \in Keys, ~RightAbout(k, fetch[f].got)
               PROVE  since[k] <= MaxFetch
    BY <1>1 DEF RightAbout
  <2>1. since[k] <= fetch[f].age /\ since[k] \in Nat
    BY <1>1, Bounds DEF AnswersAreRecent, TypeOK
  <2> QED BY <1>1, <2>1, Bounds DEF Fetch
<1>5. KnownWasOffered'
  BY <1>1, <1>2, FetchTypes DEF KnownWasOffered, Answered
<1>6. AnswersAreRecent'
  BY <1>1, <1>2, FetchTypes DEF AnswersAreRecent, Answered, RightAbout
<1>7. FetchesInTime'
  <2>1. f # Background => serving
    BY <1>1, FetchTypes DEF FetchesInTime, Answered, TypeOK, Fetchers
  <2> QED BY <1>1, <1>2, <2>1, FetchTypes, Bounds DEF FetchesInTime
<1>8. OwnAnswerHasKey'
  <2>1. \A r \in Requests : request[r].key \in Keys
    BY DEF TypeOK, Request
  <2>2. \A r \in Requests : offer[request[r].key] = "offered" =>
          request[r].key \in keys' \/ since[request[r].key] <= MaxFetch
    BY <1>1, <1>4, <2>1 DEF RightAbout
  <2> QED BY <1>1, <1>2, <2>2, FetchTypes, Bounds DEF OwnAnswerHasKey, Answered
<1>9. ErrorsEnd'
  <2> SUFFICES ASSUME NEW k \in Keys, since[k] <= MaxFetch
               PROVE  /\ since[k] + timer <= Allowance
                      /\ since[k] <= Allowance + fetch'[Background].age
    BY <1>1, <1>4 DEF ErrorsEnd, Allowance
  <2>1. /\ Allowance \in Nat /\ Allowance >= MaxFetch + Interval
        /\ timer \in Nat /\ timer <= Interval /\ since[k] \in Nat
    BY AllowanceBound, Bounds DEF TypeOK
  <2>2. fetch'[Background].age \in Nat
    BY <1>2, Bounds DEF Fetch
  <2> QED BY <2>1, <2>2, Bounds
<1> QED BY <1>3, <1>5, <1>6, <1>7, <1>8, <1>9

LEMMA FailInv ==
  ASSUME Inv, NEW f \in Fetchers, Fail(f)
  PROVE  Inv'
<1> USE DEF Inv
<1>1. /\ fetch[f].stage # "none" /\ fetch[f] \in Fetch
      /\ UNCHANGED <<offer, since, keys, timer, serving>>
      /\ failures' = failures + 1 /\ failures \in Nat /\ failures' \in 0 .. MaxFailures
  BY Bounds DEF Fail, TypeOK, provider
<1>2. \A g \in Fetchers : fetch[g].age \in Nat /\ fetch[g].age <= MaxFetch
  BY Bounds DEF TypeOK, Fetch
<1>3. /\ Allowance \in Nat /\ Allowance' = Allowance + Interval
      /\ \A k \in Keys : since[k] \in Nat
      /\ timer \in Nat
  BY <1>1, AllowanceBound, AllowanceGrows, Bounds DEF TypeOK
<1>4. CASE serving
  <2>1. Done(f, "failed")
    BY <1>4 DEF Fail
  <2>2. /\ fetch' \in [Fetchers -> Fetch] /\ request' \in [Requests -> Request]
        /\ fetch'[f] = NoFetch /\ \A g \in Fetchers \ {f} : fetch'[g] = fetch[g]
        /\ \A r \in Requests :
             /\ request'[r].key = request[r].key
             /\ request'[r].offered <=> request[r].offered
             /\ r # f => request'[r].stage = request[r].stage
             /\ r = f => request'[r].stage = "failed" /\ request[r].stage = "fetching"
        /\ \A r \in Requests : fetch'[r] # NoFetch <=> request'[r].stage = "fetching"
    BY <1>1, <2>1, DoneFacts
  <2>3. TypeOK'
    BY <1>1, <2>2 DEF TypeOK
  <2>4. KnownWasOffered' /\ AnswersAreRecent'
    BY <1>1, <2>2, FetchTypes DEF KnownWasOffered, AnswersAreRecent, Answered, RightAbout
  <2>5. FetchesInTime'
    BY <1>1, <1>4, <2>2, FetchTypes, Bounds DEF FetchesInTime
  <2>6. OwnAnswerHasKey'
    BY <1>1, <2>2, FetchTypes, Bounds DEF OwnAnswerHasKey, Answered
  <2>7. ErrorsEnd'
    <3> SUFFICES ASSUME NEW k \in Keys, ~RightAbout(k, keys)
                 PROVE  \/ fetch'[Background].stage = "none" /\ since[k] + timer <= Allowance'
                        \/ /\ fetch'[Background].stage # "none"
                           /\ since[k] <= Allowance' + fetch'[Background].age
      BY <1>1 DEF ErrorsEnd, RightAbout
    <3>1. CASE f = Background
      <4>1. /\ timer + fetch[Background].age = Interval
            /\ since[k] <= Allowance + fetch[Background].age
        BY <1>1, <1>4, <3>1 DEF FetchesInTime, ErrorsEnd
      <4> QED BY <4>1, <1>2, <1>3, <2>2, <3>1, FetchTypes, Bounds
    <3>2. CASE f # Background
      BY <1>2, <1>3, <1>4, <2>2, <3>2, Bounds DEF ErrorsEnd
    <3> QED BY <3>1, <3>2
  <2> QED BY <2>3, <2>4, <2>5, <2>6, <2>7
<1>5. CASE ~serving
  <2>1. fetch' = [fetch EXCEPT ![f] = Asked] /\ UNCHANGED request
    BY <1>5 DEF Fail
  <2>2. TypeOK'
    BY <1>1, <2>1, FetchTypes DEF TypeOK
  <2>3. /\ fetch'[f] = Asked /\ \A g \in Fetchers \ {f} : fetch'[g] = fetch[g]
    BY <2>1 DEF TypeOK
  <2>4. KnownWasOffered' /\ AnswersAreRecent'
    BY <1>1, <2>1, <2>3, FetchTypes DEF KnownWasOffered, AnswersAreRecent, Answered, RightAbout
  <2>5. FetchesInTime'
    BY <1>1, <1>5, <2>1 DEF FetchesInTime
  <2>6. OwnAnswerHasKey'
    BY <1>1, <2>1, <2>3, FetchTypes, Bounds DEF OwnAnswerHasKey, Answered
  <2>7. ErrorsEnd' BY <1>1, <1>5 DEF ErrorsEnd
  <2> QED BY <2>2, <2>4, <2>5, <2>6, <2>7
<1> QED BY <1>4, <1>5

LEMMA RefreshInv ==
  ASSUME Inv, Refresh
  PROVE  Inv'
<1> USE DEF Inv
<1>1. /\ serving /\ timer = 0 /\ fetch[Background].stage = "none"
      /\ fetch' = [fetch EXCEPT ![Background] = Asked] /\ timer' = Interval
      /\ UNCHANGED <<offer, since, keys, request, serving, failures>>
  BY DEF Refresh, provider
<1>2. /\ fetch'[Background] = Asked
      /\ \A g \in Fetchers \ {Background} : fetch'[g] = fetch[g]
  BY <1>1, Bounds DEF TypeOK
<1>3. TypeOK'
  BY <1>1, <1>2, FetchTypes, Bounds DEF TypeOK
<1>4. KnownWasOffered' /\ AnswersAreRecent'
  BY <1>1, <1>2, FetchTypes DEF KnownWasOffered, AnswersAreRecent, Answered, RightAbout
<1>5. FetchesInTime'
  BY <1>1, <1>2, FetchTypes, Bounds DEF FetchesInTime
<1>6. OwnAnswerHasKey'
  BY <1>1, <1>2, FetchTypes, Bounds DEF OwnAnswerHasKey, Answered
<1>7. ErrorsEnd'
  <2>1. Allowance \in Nat /\ \A k \in Keys : since[k] \in Nat
    BY AllowanceBound, Bounds DEF TypeOK
  <2> QED BY <1>1, <1>2, <2>1, FetchTypes DEF ErrorsEnd, RightAbout, Allowance
<1> QED BY <1>3, <1>4, <1>5, <1>6, <1>7

-----------------------------------------------------------------------------
(* The requests, and time.                                                 *)

LEMMA LookUpInv ==
  ASSUME Inv, NEW r \in Requests, NEW k \in Keys, LookUp(r, k)
  PROVE  Inv'
<1> USE DEF Inv
<1>1. /\ serving /\ request[r].stage \notin {"fetching", "fetched"}
      /\ UNCHANGED <<offer, since, keys, timer, serving, failures>>
      /\ r \in Fetchers /\ r # Background
      /\ fetch[r] = NoFetch
  BY Bounds DEF LookUp, provider, TypeOK
<1>2. PICK stage \in {"accepted", "fetching"} :
        /\ request' = [request EXCEPT ![r] =
             [stage |-> stage, key |-> k, offered |-> k \in Offered]]
        /\ fetch' = IF stage = "fetching" THEN [fetch EXCEPT ![r] = Asked] ELSE fetch
  BY Zenon DEF LookUp
<1>3. /\ request' \in [Requests -> Request]
      /\ request'[r].stage = stage /\ request'[r].key = k
      /\ request'[r].offered => offer[k] = "offered"
      /\ \A q \in Requests \ {r} : request'[q] = request[q]
  <2>1. [stage |-> stage, key |-> k, offered |-> k \in Offered] \in Request
    BY DEF Request
  <2>2. request'[r] = [stage |-> stage, key |-> k, offered |-> k \in Offered]
    BY <1>2 DEF TypeOK
  <2> QED BY <1>2, <2>1, <2>2 DEF TypeOK, Offered
<1>4. /\ fetch' \in [Fetchers -> Fetch] /\ fetch'[r].stage # "answered"
      /\ fetch'[r] # NoFetch <=> stage = "fetching"
      /\ \A g \in Fetchers \ {r} : fetch'[g] = fetch[g]
  BY <1>1, <1>2, FetchTypes DEF TypeOK
<1>5. TypeOK'
  BY <1>1, <1>3, <1>4, Bounds DEF TypeOK
<1>6. KnownWasOffered'
  BY <1>1, <1>3, <1>4 DEF KnownWasOffered, Answered
<1>7. AnswersAreRecent'
  BY <1>1, <1>4 DEF AnswersAreRecent, Answered, RightAbout
<1>8. FetchesInTime'
  BY <1>1, <1>4, Bounds DEF FetchesInTime
<1>9. OwnAnswerHasKey'
  BY <1>1, <1>3, <1>4, Bounds DEF OwnAnswerHasKey, Answered
<1>10. ErrorsEnd'
  BY <1>1, <1>4, Bounds DEF ErrorsEnd, RightAbout, Allowance
<1> QED BY <1>5, <1>6, <1>7, <1>8, <1>9, <1>10

LEMMA LookAgainInv ==
  ASSUME Inv, NEW r \in Requests, LookAgain(r)
  PROVE  Inv'
<1> USE DEF Inv
<1>1. PICK stage \in {"accepted", "rejected"} :
        /\ request' = [request EXCEPT ![r].stage = stage]
        /\ request[r].stage = "fetched"
        /\ UNCHANGED <<offer, since, keys, fetch, timer, serving, failures>>
  BY DEF LookAgain, Move, provider
<1>2. /\ request' \in [Requests -> Request]
      /\ request'[r].stage = stage /\ request'[r].key = request[r].key
      /\ request'[r].offered <=> request[r].offered
      /\ \A q \in Requests \ {r} : request'[q] = request[q]
  BY <1>1 DEF TypeOK, Request
<1>3. TypeOK' BY <1>1, <1>2 DEF TypeOK
<1>4. KnownWasOffered' /\ AnswersAreRecent'
  BY <1>1, <1>2 DEF KnownWasOffered, AnswersAreRecent, Answered, RightAbout
<1>5. FetchesInTime' BY <1>1, <1>2 DEF FetchesInTime
<1>6. OwnAnswerHasKey'
  <2>1. fetch[r] = NoFetch BY <1>1 DEF TypeOK
  <2> QED BY <1>1, <1>2, <2>1, FetchTypes DEF OwnAnswerHasKey, Answered
<1>7. ErrorsEnd' BY <1>1 DEF ErrorsEnd, RightAbout, Allowance
<1> QED BY <1>3, <1>4, <1>5, <1>6, <1>7

LEMMA TickInv ==
  ASSUME Inv, Tick
  PROVE  Inv'
<1> USE DEF Inv
<1>1. /\ UNCHANGED <<offer, keys, request, serving, failures>>
      /\ \A r \in Requests : request[r].stage # "fetched"
  BY DEF Tick
<1>2. /\ timer' \in 0 .. Interval
      /\ serving => timer' = timer - 1
      /\ ~serving => timer' = timer
  BY Bounds DEF Tick, TypeOK
<1>3. /\ since' \in [Keys -> 0 .. MaxLag + 1]
      /\ \A k \in Keys : since[k] \in Nat /\ since'[k] \in Nat /\ since'[k] <= since[k] + 1
  BY Bounds DEF Tick, TypeOK
<1>4. \A f \in Fetchers :
        /\ fetch'[f] \in Fetch
        /\ fetch'[f].stage = fetch[f].stage /\ fetch'[f].got = fetch[f].got
        /\ fetch[f].age \in Nat
        /\ fetch[f] # NoFetch => fetch'[f].age = fetch[f].age + 1
        /\ fetch'[f] # NoFetch <=> fetch[f] # NoFetch
  <2> SUFFICES ASSUME NEW f \in Fetchers
               PROVE  /\ fetch'[f] \in Fetch
                      /\ fetch'[f].stage = fetch[f].stage /\ fetch'[f].got = fetch[f].got
                      /\ fetch[f].age \in Nat
                      /\ fetch[f] # NoFetch => fetch'[f].age = fetch[f].age + 1
                      /\ fetch'[f] # NoFetch <=> fetch[f] # NoFetch
    OBVIOUS
  <2>1. fetch[f] \in Fetch /\ fetch[f].age \in Nat
    BY Bounds DEF TypeOK, Fetch
  <2>2. CASE fetch[f] = NoFetch
    BY <2>1, <2>2 DEF Tick
  <2>3. CASE fetch[f] # NoFetch
    <3>1. fetch'[f] = [fetch[f] EXCEPT !.age = fetch[f].age + 1] /\ fetch[f].age < MaxFetch
      BY <2>3 DEF Tick
    <3>2. /\ fetch'[f] \in Fetch /\ fetch'[f].age = fetch[f].age + 1
          /\ fetch'[f].stage = fetch[f].stage /\ fetch'[f].got = fetch[f].got
      BY <2>1, <3>1, Bounds DEF Fetch
    <3>3. fetch'[f] # NoFetch
      BY <2>1, <3>2, FetchTypes
    <3> QED BY <2>1, <2>3, <3>2, <3>3
  <2> QED BY <2>2, <2>3
<1>5. fetch' \in [Fetchers -> Fetch]
  BY <1>4 DEF Tick
<1>6. TypeOK'
  BY <1>1, <1>2, <1>3, <1>4, <1>5, Bounds DEF TypeOK
<1>7. KnownWasOffered'
  BY <1>1, <1>4 DEF KnownWasOffered, Answered
<1>8. AnswersAreRecent'
  <2> SUFFICES ASSUME NEW f \in Fetchers, NEW k \in Keys, Answered(f),
                      ~RightAbout(k, fetch[f].got)
               PROVE  since'[k] <= fetch'[f].age
    BY <1>1, <1>4 DEF AnswersAreRecent, Answered, RightAbout
  <2>1. since[k] <= fetch[f].age /\ fetch[f] # NoFetch
    BY FetchTypes DEF AnswersAreRecent, Answered
  <2> QED BY <1>3, <1>4, <2>1
<1>9. FetchesInTime'
  <2>1. ~serving => FetchesInTime'
    BY <1>1, <1>2 DEF FetchesInTime
  <2>2. ASSUME serving, fetch[Background].stage # "none"
        PROVE  timer' + fetch'[Background].age = Interval
    <3>1. fetch[Background] # NoFetch /\ timer \in Nat
      BY <2>2, FetchTypes, Bounds DEF TypeOK
    <3> QED BY <1>2, <1>4, <2>2, <3>1, Bounds DEF FetchesInTime
  <2> QED BY <1>1, <1>4, <2>1, <2>2, Bounds DEF FetchesInTime
<1>10. OwnAnswerHasKey'
  BY <1>1, <1>4, Bounds DEF OwnAnswerHasKey, Answered
<1>11. ErrorsEnd'
  <2> SUFFICES ASSUME serving, NEW k \in Keys, ~RightAbout(k, keys)
               PROVE  \/ /\ fetch'[Background].stage = "none"
                         /\ since'[k] + timer' <= Allowance
                      \/ /\ fetch'[Background].stage # "none"
                         /\ since'[k] <= Allowance + fetch'[Background].age
    BY <1>1 DEF ErrorsEnd, RightAbout, Allowance
  <2>1. Allowance \in Nat /\ timer \in Nat
    BY AllowanceBound, Bounds DEF TypeOK
  <2>2. CASE fetch[Background].stage = "none"
    BY <1>2, <1>3, <1>4, <2>1, <2>2, Bounds DEF ErrorsEnd
  <2>3. CASE fetch[Background].stage # "none"
    BY <1>3, <1>4, <2>1, <2>3, FetchTypes, Bounds DEF ErrorsEnd
  <2> QED BY <2>2, <2>3
<1> QED BY <1>6, <1>7, <1>8, <1>9, <1>10, <1>11

LEMMA NextInv == Inv /\ [Next]_vars => Inv'
<1> SUFFICES ASSUME Inv, [Next]_vars PROVE Inv'
  OBVIOUS
<1>1. CASE UNCHANGED vars
  BY <1>1
     DEF vars, provider, Inv, TypeOK, KnownWasOffered, AnswersAreRecent, FetchesInTime,
         OwnAnswerHasKey, ErrorsEnd, Answered, RightAbout, Allowance
<1>2. CASE Next
  BY <1>2, TurnInv, AnswerInv, InstallInv, FailInv, RefreshInv, LookUpInv, LookAgainInv,
     TickInv DEF Next
<1> QED BY <1>1, <1>2

LEMMA AlwaysInv == Spec => []Inv
BY InitInv, NextInv, PTL DEF Spec

-----------------------------------------------------------------------------
(* The theorems.                                                           *)

\* The keys, fetches and requests keep their types, and a request waits for
\* exactly one fetch.
THEOREM TypeCorrect == Spec => []TypeOK
BY AlwaysInv, PTL DEF Inv

\* However many requests fetch side by side, an error of the set is put right
\* within the intervals that failures may cost and two fetches.
THEOREM LagIsBounded == Spec => []LagBounded
<1>1. Inv => LagBounded
  <2> SUFFICES ASSUME Inv, serving, NEW k \in Keys, since[k] > MaxLag
               PROVE  RightAbout(k, keys)
    BY DEF LagBounded, RightAbout
  <2>1. /\ Allowance \in Nat /\ Allowance + MaxFetch <= MaxLag
        /\ since[k] \in Nat /\ timer \in Nat
    BY AllowanceBound, Bounds DEF Inv, TypeOK
  <2>2. fetch[Background].age \in Nat /\ fetch[Background].age <= MaxFetch
    BY Bounds DEF Inv, TypeOK, Fetch
  <2> QED BY <2>1, <2>2, Bounds DEF Inv, ErrorsEnd
<1> QED BY <1>1, AlwaysInv, PTL

\* No fetch throws a key out that has been offered for longer than a fetch
\* takes.
THEOREM OfferedIsKept == Spec => OfferedKeyKept
<1>1. Inv /\ [Next]_vars =>
        [ \A k \in keys \ keys' : offer[k] = "withdrawn" \/ since[k] <= MaxFetch ]_vars
  <2> SUFFICES ASSUME Inv, [Next]_vars, NEW k \in keys \ keys', offer[k] # "withdrawn"
               PROVE  since[k] <= MaxFetch
    OBVIOUS
  <2>1. k \in Keys /\ offer[k] = "offered"
    BY DEF Inv, TypeOK, KnownWasOffered
  <2>2. PICK f \in Fetchers : Install(f)
    BY DEF Next, vars, Publish, Withdraw, Turn, Answer, Fail, Refresh, LookUp, LookAgain, Tick
  <2>3. /\ fetch[f].stage = "answered" /\ k \notin fetch[f].got
        /\ fetch[f].age \in Nat /\ fetch[f].age <= MaxFetch /\ since[k] \in Nat
    BY <2>1, <2>2, Bounds DEF Install, Inv, TypeOK, Fetch
  <2> QED BY <2>1, <2>3, Bounds DEF Inv, AnswersAreRecent, Answered, RightAbout
<1> QED BY <1>1, AlwaysInv, PTL DEF Spec, OfferedKeyKept

\* A request is turned away although its key was offered all along only within
\* the time of a fetch from the offer.
THEOREM OfferedIsAccepted == Spec => OfferedKeyAccepted
<1>1. Inv /\ [Next]_vars =>
        [ \A r \in Requests :
            /\ request[r].stage = "fetched" /\ request'[r].stage = "rejected"
            /\ request[r].offered /\ offer[request[r].key] = "offered"
            => since[request[r].key] <= MaxFetch ]_vars
  <2> SUFFICES ASSUME Inv, [Next]_vars, NEW r \in Requests,
                      request[r].stage = "fetched", request'[r].stage = "rejected",
                      request[r].offered, offer[request[r].key] = "offered",
                      request[r].key \in keys
               PROVE  FALSE
    BY DEF Inv, OwnAnswerHasKey
  <2>1. request \in [Requests -> Request] /\ request[r] \in Request
    BY DEF Inv, TypeOK
  <2>2. \A q \in Requests : LookAgain(q) => FALSE
    <3> SUFFICES ASSUME NEW q \in Requests, LookAgain(q) PROVE FALSE
      OBVIOUS
    <3>1. CASE q = r
      <4>1. request' = [request EXCEPT ![r].stage = "accepted"]
        BY <3>1 DEF LookAgain, Move
      <4> QED BY <2>1, <4>1 DEF Request
    <3>2. CASE q # r
      <4>1. request'[r] = request[r]
        BY <2>1, <3>2 DEF LookAgain, Move
      <4> QED BY <4>1
    <3> QED BY <3>1, <3>2
  <2>3. \A f \in Fetchers : Install(f) \/ Fail(f) => FALSE
    BY DoneFacts DEF Install, Fail, Inv
  <2>4. \A q \in Requests, k \in Keys : LookUp(q, k) => FALSE
    BY <2>1 DEF LookUp, Request
  <2>5. request' # request
    OBVIOUS
  <2> QED
    BY <2>2, <2>3, <2>4, <2>5
       DEF Next, vars, Publish, Withdraw, Turn, Answer, Refresh, Tick
<1> QED BY <1>1, AlwaysInv, PTL DEF Spec, OfferedKeyAccepted
=============================================================================
