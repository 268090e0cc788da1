---------------------------- MODULE ListingProofs ----------------------------
(***************************************************************************)
(* Proofs about Listing, for any rows, ranks, page sizes and changes.      *)
(***************************************************************************)
EXTENDS Listing, FiniteSetTheorems, TLAPS

-----------------------------------------------------------------------------
(* Where a row stands, and what a page has of it.                          *)

Ahead(r) == matching \cap Before(r)

InFront(r) == Cardinality(Ahead(r))

\* The offset of the next page, if there will be one.
Reach == IF stage = "counting" THEN offset + size ELSE offset

LEMMA FiniteSubsets ==
  \A S \in SUBSET Rows : IsFiniteSet(S) /\ Cardinality(S) \in Nat
BY RowsAssumption, FS_Subset, FS_CardinalityType

LEMMA SmallerSubsets ==
  \A S \in SUBSET Rows : \A T \in SUBSET S : Cardinality(T) <= Cardinality(S)
BY FiniteSubsets, FS_Subset

LEMMA InFrontType ==
  ASSUME TypeOK
  PROVE  \A r : Ahead(r) \in SUBSET Rows /\ InFront(r) \in Nat
<1>1. \A r : Ahead(r) \in SUBSET Rows
  BY DEF TypeOK, Ahead
<1> QED BY <1>1, FiniteSubsets DEF InFront

\* A row without a tie is one of the first n exactly if fewer than n rows
\* are in front of it.
LEMMA FirstsOf ==
  ASSUME TypeOK, NEW n \in Nat, NEW S \in Firsts(n), NEW r \in matching, Unique(r)
  PROVE  /\ r \in S <=> InFront(r) < n
         /\ r \notin S => Cardinality(S) = n
<1>1. /\ S \in SUBSET matching /\ matching \in SUBSET Rows /\ S \in SUBSET Rows
      /\ Cardinality(S) = n \/ (S = matching /\ Cardinality(S) < n)
      /\ \A p \in S, q \in matching \ S : Rank[p] <= Rank[q]
  BY DEF Firsts, TypeOK
<1>2. \A q \in Rows : Rank[q] \in Nat
  BY RowsAssumption
<1>3. /\ Cardinality(S) \in Nat /\ InFront(r) \in Nat /\ Ahead(r) \in SUBSET Rows
      /\ IsFiniteSet(Ahead(r)) /\ r \in Rows
  BY <1>1, FiniteSubsets, InFrontType
<1>4. CASE r \in S
  <2>1. Ahead(r) \cup {r} \in SUBSET S
    BY <1>1, <1>2, <1>3, <1>4 DEF Ahead, Before
  <2>2. Cardinality(Ahead(r) \cup {r}) = InFront(r) + 1
    <3>1. r \notin Ahead(r)
      BY <1>2, <1>3 DEF Ahead, Before
    <3> QED BY <1>3, <3>1, FS_AddElement DEF InFront
  <2>3. InFront(r) + 1 <= Cardinality(S)
    BY <1>1, <2>1, <2>2, SmallerSubsets
  <2> QED BY <1>1, <1>3, <1>4, <2>3
<1>5. CASE r \notin S
  <2>1. S \in SUBSET Ahead(r)
    BY <1>1, <1>2, <1>3, <1>5 DEF Ahead, Before, Unique
  <2>2. Cardinality(S) <= InFront(r)
    BY <1>3, <2>1, SmallerSubsets DEF InFront
  <2> QED BY <1>1, <1>3, <1>5, <2>2
<1> QED BY <1>4, <1>5

\* A row without a tie is on the page exactly if it stands there, and a page
\* before it is full.
LEMMA PageOf ==
  ASSUME TypeOK, NEW page \in Pages, NEW r \in matching, Unique(r)
  PROVE  /\ r \in page <=> offset <= InFront(r) /\ InFront(r) < offset + size
         /\ InFront(r) >= offset + size => Cardinality(page) = size
<1>1. PICK S \in Firsts(offset), T \in Firsts(offset + size) : S \subseteq T /\ page = T \ S
  BY Zenon DEF Pages
<1>2. /\ offset \in Nat /\ size \in Nat /\ offset + size \in Nat /\ InFront(r) \in Nat
  BY InFrontType, PageAssumption DEF TypeOK
<1>3. /\ r \in S <=> InFront(r) < offset
      /\ r \notin S => Cardinality(S) = offset
  BY <1>2, FirstsOf
<1>4. /\ r \in T <=> InFront(r) < offset + size
      /\ r \notin T => Cardinality(T) = offset + size
  BY <1>2, FirstsOf
<1>5. ASSUME InFront(r) >= offset + size
      PROVE  Cardinality(page) = size
  <2>1. Cardinality(S) = offset /\ Cardinality(T) = offset + size
    BY <1>2, <1>3, <1>4, <1>5
  <2>2. T \in SUBSET Rows /\ T \cap S = S
    BY <1>1 DEF Firsts, TypeOK
  <2>3. Cardinality(T \ S) = Cardinality(T) - Cardinality(T \cap S)
    BY <2>2, FiniteSubsets, FS_Difference
  <2>4. Cardinality(page) = Cardinality(T) - Cardinality(S)
    BY <1>1, <2>2, <2>3
  <2> QED BY <1>2, <2>1, <2>4
<1> QED BY <1>1, <1>2, <1>3, <1>4, <1>5

-----------------------------------------------------------------------------
(* The invariant.                                                          *)

Going == stage \in {"paging", "counting"}

NewIsEmpty ==
  stage = "idle" => offset = 0 /\ got = {} /\ twice = {} /\ stayed = {}

\* A row that stays and has no row in front of it leave is still to come.
NotPassed ==
  \A r \in stayed \ got :
    Unique(r) /\ went \cap Before(r) = {} => Going /\ Reach <= InFront(r)

\* A row that was given and has no row come in front of it, nor come back
\* itself, will not be given again.
NotAgain ==
  \A r \in got :
    Unique(r) /\ came \cap (Before(r) \cup {r}) = {} =>
      /\ r \notin twice
      /\ Going /\ r \in matching => InFront(r) < Reach

Inv == TypeOK /\ NewIsEmpty /\ NotPassed /\ NotAgain

LEMMA InitInv == Init => Inv
<1> SUFFICES ASSUME Init PROVE Inv
  OBVIOUS
<1>1. TypeOK
  BY PageAssumption, MaxChangesAssumption DEF Init, TypeOK
<1> QED BY <1>1 DEF Init, Inv, NewIsEmpty, NotPassed, NotAgain

LEMMA ComeInv ==
  ASSUME Inv, NEW q \in Rows, Come(q)
  PROVE  Inv'
<1> USE DEF Inv
<1>1. /\ Going /\ matching' = matching \cup {q} /\ came' = came \cup {q}
      /\ q \notin matching
      /\ UNCHANGED <<list, stage, size, offset, got, twice, stayed, went>>
      /\ changes' \in 0 .. MaxChanges
  BY MaxChangesAssumption DEF Come, Change, Going, TypeOK
<1>2. TypeOK'
  BY <1>1 DEF TypeOK
<1>3. \A r \in Rows : /\ InFront(r) \in Nat /\ InFront(r)' \in Nat /\ InFront(r) <= InFront(r)'
                      /\ q \notin Before(r) => InFront(r)' = InFront(r)
  <2> SUFFICES ASSUME NEW r \in Rows
               PROVE  /\ InFront(r) \in Nat /\ InFront(r)' \in Nat /\ InFront(r) <= InFront(r)'
                      /\ q \notin Before(r) => InFront(r)' = InFront(r)
    OBVIOUS
  <2>1. Ahead(r) \in SUBSET Ahead(r)' /\ Ahead(r)' \in SUBSET Rows
    BY <1>1 DEF Ahead, Before
  <2>2. q \notin Before(r) => Ahead(r)' = Ahead(r)
    BY <1>1 DEF Ahead, Before
  <2>3. InFront(r)' = Cardinality(Ahead(r)')
    BY DEF InFront
  <2>4. Cardinality(Ahead(r)) <= Cardinality(Ahead(r)')
    BY <2>1, SmallerSubsets
  <2> QED BY <2>1, <2>2, <2>3, <2>4, InFrontType, FiniteSubsets DEF InFront
<1>4. NewIsEmpty' BY <1>1 DEF NewIsEmpty, Going
<1>5. Reach' = Reach /\ Reach \in Nat /\ Going'
  BY <1>1, PageAssumption DEF Reach, TypeOK, Going
<1>6. NotPassed'
  <2> SUFFICES ASSUME NEW r \in stayed \ got, Unique(r), went \cap Before(r) = {}
               PROVE  Reach <= InFront(r)'
    BY <1>1, <1>5 DEF NotPassed, Unique, Before
  <2>1. Reach <= InFront(r) /\ r \in Rows
    BY DEF NotPassed, TypeOK
  <2> QED BY <1>3, <1>5, <2>1
<1>7. NotAgain'
  <2> SUFFICES ASSUME NEW r \in got, Unique(r), came' \cap (Before(r) \cup {r}) = {}
               PROVE  /\ r \notin twice
                      /\ r \in matching' => InFront(r)' < Reach
    BY <1>1, <1>5 DEF NotAgain, Unique, Before
  <2>1. q \notin Before(r) /\ q # r /\ came \cap (Before(r) \cup {r}) = {} /\ r \in Rows
    BY <1>1 DEF TypeOK
  <2> QED BY <1>1, <1>3, <2>1 DEF NotAgain
<1> QED BY <1>2, <1>4, <1>6, <1>7

LEMMA GoInv ==
  ASSUME Inv, NEW q \in Rows, Go(q)
  PROVE  Inv'
<1> USE DEF Inv
<1>1. /\ Going /\ matching' = matching \ {q} /\ went' = went \cup {q}
      /\ stayed' = stayed \ {q} /\ q \in matching
      /\ UNCHANGED <<list, stage, size, offset, got, twice, came>>
      /\ changes' \in 0 .. MaxChanges
  BY MaxChangesAssumption DEF Go, Change, Going, TypeOK
<1>2. TypeOK'
  BY <1>1 DEF TypeOK
<1>3. \A r \in Rows : /\ InFront(r) \in Nat /\ InFront(r)' \in Nat /\ InFront(r)' <= InFront(r)
                      /\ q \notin Before(r) => InFront(r)' = InFront(r)
  <2> SUFFICES ASSUME NEW r \in Rows
               PROVE  /\ InFront(r) \in Nat /\ InFront(r)' \in Nat /\ InFront(r)' <= InFront(r)
                      /\ q \notin Before(r) => InFront(r)' = InFront(r)
    OBVIOUS
  <2>1. Ahead(r)' \in SUBSET Ahead(r) /\ Ahead(r)' \in SUBSET Rows /\ Ahead(r) \in SUBSET Rows
    BY <1>1 DEF Ahead, Before
  <2>2. q \notin Before(r) => Ahead(r)' = Ahead(r)
    BY <1>1 DEF Ahead, Before
  <2>3. InFront(r)' = Cardinality(Ahead(r)')
    BY DEF InFront
  <2>4. Cardinality(Ahead(r)') <= Cardinality(Ahead(r))
    BY <2>1, SmallerSubsets
  <2> QED BY <2>1, <2>2, <2>3, <2>4, FiniteSubsets DEF InFront
<1>4. NewIsEmpty' BY <1>1 DEF NewIsEmpty, Going
<1>5. Reach' = Reach /\ Reach \in Nat /\ Going'
  BY <1>1, PageAssumption DEF Reach, TypeOK, Going
<1>6. NotPassed'
  <2> SUFFICES ASSUME NEW r \in stayed \ got, Unique(r), went' \cap Before(r) = {}
               PROVE  Reach <= InFront(r)'
    BY <1>1, <1>5 DEF NotPassed, Unique, Before
  <2>1. q \notin Before(r) /\ went \cap Before(r) = {} /\ r \in Rows
    BY <1>1 DEF TypeOK
  <2> QED BY <1>3, <2>1 DEF NotPassed
<1>7. NotAgain'
  <2> SUFFICES ASSUME NEW r \in got, Unique(r), came \cap (Before(r) \cup {r}) = {}
               PROVE  /\ r \notin twice
                      /\ r \in matching' => InFront(r)' < Reach
    BY <1>1, <1>5 DEF NotAgain, Unique, Before
  <2>1. /\ r \notin twice /\ r \in Rows
        /\ r \in matching => InFront(r) < Reach
    BY <1>1 DEF NotAgain, TypeOK
  <2> QED BY <1>1, <1>3, <1>5, <2>1
<1> QED BY <1>2, <1>4, <1>6, <1>7

-----------------------------------------------------------------------------
(* The calls.                                                              *)

LEMMA BeginInv ==
  ASSUME Inv, NEW requested \in Requested, Begin(requested)
  PROVE  Inv'
<1> USE DEF Inv
<1>1. /\ stage = "idle" /\ stage' = "paging" /\ size' \in 0 .. MaxPage /\ stayed' = matching
      /\ UNCHANGED <<list, matching, offset, got, twice, came, went, changes>>
  BY PageAssumption DEF Begin
<1>2. offset = 0 /\ got = {} /\ twice = {}
  BY <1>1 DEF NewIsEmpty
<1>3. TypeOK' BY <1>1 DEF TypeOK
<1>4. \A r : InFront(r)' = InFront(r) /\ InFront(r) \in Nat
  BY <1>1, InFrontType DEF InFront, Ahead, Before
<1>5. NotPassed' BY <1>1, <1>2, <1>4 DEF NotPassed, Going, Reach
<1>6. NotAgain' BY <1>1, <1>2 DEF NotAgain
<1> QED BY <1>1, <1>3, <1>5, <1>6 DEF NewIsEmpty

LEMMA ReadInv ==
  ASSUME Inv, Read
  PROVE  Inv'
<1> USE DEF Inv
<1>1. PICK page \in Pages :
        /\ Give(page)
        /\ \/ list # "services" /\ Follow(Cardinality(page) = size)
           \/ list = "services" /\ stage' = "counting" /\ UNCHANGED offset
  BY Zenon DEF Read
<1>2. /\ stage = "paging" /\ UNCHANGED <<list, matching, size, stayed, came, went, changes>>
      /\ got' = got \cup page /\ twice' = twice \cup (got \cap page)
  BY <1>1 DEF Read, Give
<1>3. page \subseteq matching /\ offset \in Nat /\ size \in Nat
  BY PageAssumption DEF Pages, Firsts, TypeOK
<1>4. /\ stage' \in {"paging", "counting", "done"} /\ offset' \in Nat
      /\ Going' => Reach' = offset + size
      /\ Cardinality(page) = size => Going'
  BY <1>1, <1>2, <1>3 DEF Follow, Going, Reach
<1>5. TypeOK' BY <1>2, <1>3, <1>4 DEF TypeOK
<1>6. Going /\ Reach = offset
  BY <1>2 DEF Going, Reach
<1>7. \A r : InFront(r)' = InFront(r) /\ InFront(r) \in Nat
  BY <1>2, InFrontType DEF InFront, Ahead, Before
<1>8. NotPassed'
  <2> SUFFICES ASSUME NEW r \in stayed \ got', Unique(r), went \cap Before(r) = {}
               PROVE  Going' /\ Reach' <= InFront(r)
    BY <1>2, <1>7 DEF NotPassed, Unique, Before
  <2>1. offset <= InFront(r) /\ r \in matching /\ r \notin page
    BY <1>2, <1>6 DEF NotPassed, TypeOK
  <2>2. InFront(r) >= offset + size /\ Cardinality(page) = size
    BY <1>3, <1>7, <2>1, PageOf
  <2> QED BY <1>3, <1>4, <1>7, <2>2
<1>9. NotAgain'
  <2> SUFFICES ASSUME NEW r \in got', Unique(r), came \cap (Before(r) \cup {r}) = {}
               PROVE  /\ r \notin twice'
                      /\ Going' /\ r \in matching => InFront(r) < Reach'
    BY <1>2, <1>7 DEF NotAgain, Unique, Before
  <2>1. r \in page => /\ offset <= InFront(r) /\ InFront(r) < offset + size
                      /\ r \in matching
    BY <1>3, PageOf
  <2>2. r \in got => r \notin twice /\ (r \in matching => InFront(r) < offset)
    BY <1>6 DEF NotAgain
  <2>3. r \notin got => r \notin twice /\ r \in page
    BY <1>2 DEF TypeOK
  <2> QED BY <1>2, <1>3, <1>4, <1>7, <2>1, <2>2, <2>3
<1>10. NewIsEmpty' BY <1>4 DEF NewIsEmpty
<1> QED BY <1>5, <1>8, <1>9, <1>10

LEMMA CountInv ==
  ASSUME Inv, Count
  PROVE  Inv'
<1> USE DEF Inv
<1>1. /\ stage = "counting" /\ Follow(offset + size < Cardinality(matching))
      /\ UNCHANGED <<list, matching, size, got, twice, stayed, came, went, changes>>
  BY DEF Count, history
<1>2. offset \in Nat /\ size \in Nat /\ Cardinality(matching) \in Nat
  BY PageAssumption, FiniteSubsets DEF TypeOK
<1>3. /\ stage' \in {"paging", "done"} /\ offset' \in Nat
      /\ Going' => Reach' = offset + size
      /\ offset + size < Cardinality(matching) => Going'
  BY <1>1, <1>2 DEF Follow, Going, Reach
<1>4. TypeOK' BY <1>1, <1>3 DEF TypeOK
<1>5. Going /\ Reach = offset + size
  BY <1>1 DEF Going, Reach
<1>6. \A r : InFront(r)' = InFront(r) /\ InFront(r) \in Nat
  BY <1>1, InFrontType DEF InFront, Ahead, Before
<1>7. NotPassed'
  <2> SUFFICES ASSUME NEW r \in stayed \ got, Unique(r), went \cap Before(r) = {}
               PROVE  Going' /\ Reach' <= InFront(r)
    BY <1>1, <1>6 DEF NotPassed, Unique, Before
  <2>1. Reach <= InFront(r) /\ r \in matching /\ r \in Rows
    BY DEF NotPassed, TypeOK
  <2>2. InFront(r) < Cardinality(matching)
    <3>1. Ahead(r) \in SUBSET (matching \ {r})
      BY <2>1, RowsAssumption DEF Ahead, Before
    <3>2. /\ IsFiniteSet(matching) /\ matching \ {r} \in SUBSET Rows
      BY FiniteSubsets DEF TypeOK
    <3>3. Cardinality(matching \ {r}) = Cardinality(matching) - 1
      BY <2>1, <3>2, FS_RemoveElement
    <3>4. InFront(r) <= Cardinality(matching \ {r})
      BY <3>1, <3>2, SmallerSubsets DEF InFront
    <3> QED BY <1>2, <1>6, <3>3, <3>4
  <2> QED BY <1>2, <1>3, <1>5, <1>6, <2>1, <2>2
<1>8. NotAgain'
  BY <1>1, <1>3, <1>5, <1>6 DEF NotAgain, Unique, Before
<1>9. NewIsEmpty' BY <1>3 DEF NewIsEmpty
<1> QED BY <1>4, <1>7, <1>8, <1>9

LEMMA NextInv == Inv /\ [Next]_vars => Inv'
<1> SUFFICES ASSUME Inv, [Next]_vars PROVE Inv'
  OBVIOUS
<1>1. CASE UNCHANGED vars
  BY <1>1
     DEF vars, history, Inv, TypeOK, NewIsEmpty, NotPassed, NotAgain, Going, Reach,
         InFront, Ahead, Before, Unique
<1> QED BY <1>1, ComeInv, GoInv, BeginInv, ReadInv, CountInv DEF Next

LEMMA AlwaysInv == Spec => []Inv
BY InitInv, NextInv, PTL DEF Spec

-----------------------------------------------------------------------------
(* The tokens.                                                             *)

\* Only the services are counted after a page.
CountsServices == stage = "counting" => list = "services"

PromiseInv == TokenPromise /\ CountsServices

LEMMA RowsInList ==
  ASSUME TypeOK
  PROVE  /\ Cardinality(matching) \in Nat /\ Cardinality(Rows) \in Nat
         /\ Cardinality(matching) <= Cardinality(Rows)
         /\ offset \in Nat /\ size \in Nat
BY FiniteSubsets, SmallerSubsets, PageAssumption DEF TypeOK

\* A full page ends no further than the list does.
LEMMA FullPage ==
  ASSUME TypeOK, NEW page \in Pages, Cardinality(page) = size, size # 0
  PROVE  offset + size <= Cardinality(matching)
<1>1. PICK S \in Firsts(offset), T \in Firsts(offset + size) : S \subseteq T /\ page = T \ S
  BY Zenon DEF Pages
<1>2. /\ S \in SUBSET matching /\ T \in SUBSET matching
      /\ matching \in SUBSET Rows /\ S \in SUBSET Rows /\ T \in SUBSET Rows /\ T \cap S = S
      /\ Cardinality(S) = offset \/ S = matching
      /\ Cardinality(T) = offset + size \/ (T = matching /\ Cardinality(T) < offset + size)
  BY <1>1 DEF Firsts, TypeOK
<1>3. Cardinality(page) = Cardinality(T) - Cardinality(S)
  <2>1. Cardinality(T \ S) = Cardinality(T) - Cardinality(T \cap S)
    BY <1>2, FiniteSubsets, FS_Difference
  <2> QED BY <1>1, <1>2, <2>1
<1>4. Cardinality(S) \in Nat /\ Cardinality(T) \in Nat /\ Cardinality(T) <= Cardinality(matching)
  BY <1>2, FiniteSubsets, SmallerSubsets
<1>5. Cardinality(S) = offset
  <2>1. CASE S = matching
    <3>1. T = S
      BY <1>1, <1>2, <2>1
    <3> QED BY <1>3, <1>4, <3>1
  <2> QED BY <1>2, <2>1
<1> QED BY <1>3, <1>4, <1>5, RowsInList

LEMMA RowsKeepPromise ==
  ASSUME Inv, PromiseInv, NEW q \in Rows, Come(q) \/ Go(q)
  PROVE  PromiseInv'
<1>1. TypeOK /\ TypeOK'
  BY ComeInv, GoInv DEF Inv
<1>2. /\ UNCHANGED <<list, stage, size, offset>>
      /\ list = "notifications" \/ matching \in SUBSET matching'
  BY DEF Come, Go
<1>3. matching \in SUBSET matching' => Cardinality(matching) <= Cardinality(matching')
  BY <1>1, SmallerSubsets DEF TypeOK
<1>4. Cardinality(matching') \in Nat
  BY <1>1, FiniteSubsets DEF TypeOK
<1> QED BY <1>1, <1>2, <1>3, <1>4, RowsInList DEF PromiseInv, TokenPromise, CountsServices

LEMMA BeginKeepsPromise ==
  ASSUME Inv, PromiseInv, NEW requested \in Requested, Begin(requested)
  PROVE  PromiseInv'
<1>1. stage' = "paging" /\ offset' = 0 /\ UNCHANGED <<list, matching>> /\ TypeOK
  BY DEF Begin, Inv, NewIsEmpty
<1> QED BY <1>1, RowsInList DEF PromiseInv, TokenPromise, CountsServices

LEMMA ReadKeepsPromise ==
  ASSUME Inv, PromiseInv, Read
  PROVE  PromiseInv'
<1>1. PICK page \in Pages :
        \/ list # "services" /\ Follow(Cardinality(page) = size)
        \/ list = "services" /\ stage' = "counting" /\ UNCHANGED offset
  BY Zenon DEF Read
<1>2. TypeOK /\ stage = "paging" /\ UNCHANGED <<list, matching, size>>
  BY DEF Read, Inv
<1>3. CASE list = "services"
  BY <1>1, <1>2, <1>3 DEF PromiseInv, TokenPromise, CountsServices
<1>4. CASE list # "services"
  <2>1. /\ stage' \in {"paging", "done"}
        /\ stage' = "paging" => Cardinality(page) = size /\ offset' = offset + size
    BY <1>1, <1>4 DEF Follow
  <2>2. stage' = "paging" => size = 0 \/ offset' <= Cardinality(matching)
    BY <1>2, <2>1, FullPage
  <2>3. stage' = "paging" => /\ list = "types" => offset' <= Cardinality(matching)
                             /\ offset' <= Cardinality(Rows)
    BY <1>2, <2>1, <2>2, RowsInList DEF PromiseInv, TokenPromise
  <2> QED BY <1>2, <1>4, <2>1, <2>3 DEF PromiseInv, TokenPromise, CountsServices
<1> QED BY <1>3, <1>4

LEMMA CountKeepsPromise ==
  ASSUME Inv, PromiseInv, Count
  PROVE  PromiseInv'
<1>1. /\ TypeOK /\ list = "services" /\ UNCHANGED <<list, matching>>
      /\ stage' \in {"paging", "done"}
      /\ stage' = "paging" => offset' = offset + size /\ offset' < Cardinality(matching)
  BY DEF Count, Follow, Inv, PromiseInv, CountsServices
<1> QED BY <1>1, RowsInList DEF PromiseInv, TokenPromise, CountsServices

LEMMA AlwaysPromise == Spec => []PromiseInv
<1>1. Init => PromiseInv
  BY DEF Init, PromiseInv, TokenPromise, CountsServices
<1>2. Inv /\ PromiseInv /\ [Next]_vars => PromiseInv'
  <2>1. CASE UNCHANGED vars
    BY <2>1 DEF vars, PromiseInv, TokenPromise, CountsServices
  <2> QED BY <2>1, RowsKeepPromise, BeginKeepsPromise, ReadKeepsPromise, CountKeepsPromise DEF Next
<1> QED BY <1>1, <1>2, AlwaysInv, PTL DEF Spec

-----------------------------------------------------------------------------
(* The theorems.                                                           *)

\* The list, the pages and the history keep their types.
THEOREM TypeCorrect == Spec => []TypeOK
BY AlwaysInv, PTL DEF Inv

\* For any page size and any rows that come and go, a row that was in the list
\* throughout is left out only if one in front of it left.
THEOREM SkipsAreExplained == Spec => []SkippedOnlyIfWent
<1>1. Inv => SkippedOnlyIfWent
  BY DEF Inv, NotPassed, Going, SkippedOnlyIfWent
<1> QED BY <1>1, AlwaysInv, PTL

\* And a row is given again only if one in front of it, or it itself, came in.
THEOREM RepeatsAreExplained == Spec => []RepeatedOnlyIfCame
<1>1. Inv => RepeatedOnlyIfCame
  BY DEF Inv, TypeOK, NotAgain, RepeatedOnlyIfCame
<1> QED BY <1>1, AlwaysInv, PTL

\* A token for services has a row behind it, one for types stands no further
\* than right behind the last row, and none further than there are rows.
THEOREM TokensKeepPromise == Spec => []TokenPromise
<1>1. PromiseInv => TokenPromise
  BY DEF PromiseInv
<1> QED BY <1>1, AlwaysPromise, PTL
=============================================================================
