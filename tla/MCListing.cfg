\* Five rows in pages of at most two; three rows come or go.
CONSTANTS
  r1 = r1  r2 = r2  r3 = r3  r4 = r4  r5 = r5
  Rows = {r1, r2, r3, r4, r5}
  Rank <- TiedRank
  Requested <- Sizes
  MaxPage = 2
  MaxChanges = 3
SPECIFICATION FairSpec
INVARIANTS TypeOK SkippedOnlyIfWent RepeatedOnlyIfCame TokenPromise
PROPERTY PagingEnds
CHECK_DEADLOCK FALSE
