------------------------------ MODULE Listing --------------------------------
(***************************************************************************)
(* Paging through a list that changes: ListNotifications, ListTypes and    *)
(* ListServices.  A page is what one statement finds behind an offset; the *)
(* token of the next page is the offset behind it.  Between two pages rows *)
(* come into the list and, where notifications change their state, go out  *)
(* of it, so that the rows behind the offset are not those they were.      *)
(***************************************************************************)
EXTENDS Naturals, FiniteSets

CONSTANTS
  Rows,        \* rows that may be in the list
  Rank,        \* [Rows -> Nat]: what ORDER BY compares; equal ranks are ties
  Requested,   \* the page sizes a client asks for
  MaxPage,     \* the largest page it gets (100)
  MaxChanges   \* bound on the rows that come and go during a paging

Lists == {"notifications", "types", "services"}

ASSUME RowsAssumption == IsFiniteSet(Rows) /\ Rank \in [Rows -> Nat]
ASSUME PageAssumption == Requested \subseteq Nat /\ MaxPage \in Nat \ {0}
ASSUME MaxChangesAssumption == MaxChanges \in Nat

VARIABLES
  list,     \* the list the client goes through
  matching, \* the rows in the list
  stage,    \* "idle", "paging", "counting" (services: page read, rows not yet counted), "done"
  size,     \* the size of the pages
  offset,   \* the token
  got,      \* history: the rows the client was given
  twice,    \* history: the rows it was given again
  stayed,   \* history: the rows in the list from the first page on
  came,     \* history: the rows that came in since
  went,     \* history: the rows that went out since
  changes

history == <<got, twice, stayed, came, went>>
vars == <<list, matching, stage, size, offset, history, changes>>

-----------------------------------------------------------------------------

TypeOK ==
  /\ list \in Lists
  /\ matching \subseteq Rows
  /\ stage \in {"idle", "paging", "counting", "done"}
  /\ size \in 0 .. MaxPage
  /\ offset \in Nat
  /\ got \subseteq Rows /\ twice \subseteq got
  /\ stayed \subseteq matching
  /\ came \subseteq Rows /\ went \subseteq Rows
  /\ changes \in 0 .. MaxChanges

Init ==
  /\ list \in Lists
  /\ matching \in SUBSET Rows
  /\ stage = "idle"
  /\ size = 0
  /\ offset = 0
  /\ got = {} /\ twice = {}
  /\ stayed = {} /\ came = {} /\ went = {}
  /\ changes = 0

-----------------------------------------------------------------------------
(* The rows: statements of other calls.  (In ListNotifications a service of *)
(* the filter that is registered between two pages also brings rows in.)    *)

Change == stage \in {"paging", "counting"} /\ changes < MaxChanges /\ changes' = changes + 1

Come(r) ==
  /\ Change
  /\ r \notin matching
  /\ matching' = matching \cup {r}
  /\ came' = came \cup {r}
  /\ UNCHANGED <<list, stage, size, offset, got, twice, stayed, went>>

\* Types and services are never deleted.
Go(r) ==
  /\ Change
  /\ list = "notifications"
  /\ r \in matching
  /\ matching' = matching \ {r}
  /\ went' = went \cup {r}
  /\ stayed' = stayed \ {r}
  /\ UNCHANGED <<list, stage, size, offset, got, twice, came>>

-----------------------------------------------------------------------------
(* The calls.                                                              *)

\* Mutant: the page size is not capped.
BeginUncapped(requested) ==
  /\ stage = "idle"
  /\ stage' = "paging"
  /\ size' = requested
  /\ stayed' = matching
  /\ UNCHANGED <<list, matching, offset, got, twice, came, went, changes>>

\* The first call: no token, or one that is not a number.
Begin(requested) ==
  /\ stage = "idle"
  /\ stage' = "paging"
  /\ size' = IF requested < MaxPage THEN requested ELSE MaxPage
  /\ stayed' = matching
  /\ UNCHANGED <<list, matching, offset, got, twice, came, went, changes>>

\* The sets that may be the first n rows of the list: ties are in any order.
Firsts(n) ==
  { S \in SUBSET matching :
      /\ Cardinality(S) = n \/ (S = matching /\ Cardinality(S) < n)
      /\ \A r \in S, q \in matching \ S : Rank[r] <= Rank[q] }

\* LIMIT size OFFSET offset.
Pages ==
  UNION { {T \ S : T \in {U \in Firsts(offset + size) : S \subseteq U}} : S \in Firsts(offset) }

Give(page) ==
  /\ got' = got \cup page
  /\ twice' = twice \cup (got \cap page)

\* Mutant: the token is the offset of the page just given.
FollowSame(more) ==
  /\ stage' = IF more THEN "paging" ELSE "done"
  /\ UNCHANGED offset

\* Mutant: the token leaves a row out.
FollowPast(more) ==
  \/ more /\ stage' = "paging" /\ offset' = offset + size + 1
  \/ ~more /\ stage' = "done" /\ UNCHANGED offset

\* Mutant: the token counts pages, not rows.
FollowByPage(more) ==
  \/ more /\ stage' = "paging" /\ offset' = offset + 1
  \/ ~more /\ stage' = "done" /\ UNCHANGED offset

\* If there may be more rows the answer has a token, the offset behind the
\* page, and the client comes back with it; otherwise it has none.
Follow(more) ==
  \/ more /\ stage' = "paging" /\ offset' = offset + size
  \/ ~more /\ stage' = "done" /\ UNCHANGED offset

\* One page.  Of notifications and types there may be more if it is full.
Read ==
  /\ stage = "paging"
  /\ \E page \in Pages :
       /\ Give(page)
       /\ \/ list # "services" /\ Follow(Cardinality(page) = size)
          \/ list = "services" /\ stage' = "counting" /\ UNCHANGED offset
  /\ UNCHANGED <<list, matching, size, stayed, came, went, changes>>

\* Mutant: a token is given behind the last row.
CountToLast ==
  /\ stage = "counting"
  /\ Follow(offset + size <= Cardinality(matching))
  /\ UNCHANGED <<list, matching, size, history, changes>>

\* The services are counted by a second statement.
Count ==
  /\ stage = "counting"
  /\ Follow(offset + size < Cardinality(matching))
  /\ UNCHANGED <<list, matching, size, history, changes>>

Next ==
  \/ \E r \in Rows : Come(r) \/ Go(r)
  \/ \E requested \in Requested : Begin(requested)
  \/ Read
  \/ Count

Spec == Init /\ [][Next]_vars

\* A client goes on to the next page.
FairSpec == Spec /\ WF_vars(Read) /\ WF_vars(Count)

-----------------------------------------------------------------------------
(* Safety.                                                                 *)

Unique(r) == \A q \in Rows \ {r} : Rank[q] # Rank[r]

Before(r) == {q \in Rows : Rank[q] < Rank[r]}

\* A client that went through all pages misses a row that was in the list
\* throughout only if a row in front of it went out meanwhile (or if it is
\* tied with another row, whose place it may have been given).
SkippedOnlyIfWent ==
  stage = "done" =>
    \A r \in stayed \ got : Unique(r) => went \cap Before(r) # {}

\* A client is given a row again only if a row in front of it came in
\* meanwhile, or it went out itself and came back.
RepeatedOnlyIfCame ==
  \A r \in twice : Unique(r) => came \cap (Before(r) \cup {r}) # {}

\* What a token promises.  Behind that of a list of services there is a row when
\* the client comes back, although page and count are two statements; that of
\* types may stand right behind the last row, but not further; and none stands
\* further than there can be rows, so that the pages are bounded in number.
TokenPromise ==
  stage = "paging" =>
    /\ list = "services" => offset = 0 \/ offset < Cardinality(matching)
    /\ list = "types" => offset <= Cardinality(matching)
    /\ offset <= Cardinality(Rows)

-----------------------------------------------------------------------------
(* Liveness, under FairSpec.                                               *)

\* However rows come and go, a client that asks for at least one row at a time
\* gets to the end.  (One that asks for pages of no row never does: each is
\* full.)
PagingEnds == stage = "paging" /\ size > 0 ~> stage = "done"
=============================================================================
