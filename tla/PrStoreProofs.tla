---------------------------- MODULE PrStoreProofs ----------------------------
(***************************************************************************)
(* Proofs about PrStore, for any set of pull requests and any bounds.      *)
(***************************************************************************)
EXTENDS PrStore, TLAPS

(* Every statement keeps the types, in particular no mark is ever left on  *)
(* a row that is gone.                                                     *)
LEMMA TypeStep ==
    TypeOK /\ [Next]_storeVars
        => TypeOK'
<1> SUFFICES ASSUME TypeOK, [Next]_storeVars
             PROVE  TypeOK'
  OBVIOUS
<1> USE BoundsAssumption
    DEF TypeOK, Versions, ZeroTime, Never,
        table, memory, emptied, marks
<1>1. ASSUME NEW u \in Urls, UpdatePr(u) PROVE TypeOK'
  BY <1>1 DEF UpdatePr
<1>2. ASSUME NEW S \in SUBSET Urls, NEW R \in SUBSET S, Fetch(S, R) PROVE TypeOK'
  BY <1>2 DEF Fetch, None
<1>3. CASE ReadBuried
  BY <1>3 DEF ReadBuried, KeepsBuried, Unburied
<1>4. CASE ReadBuriedFails
  BY <1>4 DEF ReadBuriedFails
<1>5. CASE DeletePrs
  BY <1>5 DEF DeletePrs, None
<1>6. CASE DeletePrsFails
  BY <1>6 DEF DeletePrsFails, Forget, None
<1>7. ASSUME NEW u \in Urls, CreatePr(u) PROVE TypeOK'
  BY <1>7 DEF CreatePr
<1>8. CASE StoreLastFetched
  BY <1>8 DEF StoreLastFetched, Forget, None
<1>9. CASE StoreLastFetchedFails
  BY <1>9 DEF StoreLastFetchedFails, Forget, None
<1>10. CASE Crash
  BY <1>10 DEF Crash, Forget, None
<1>11. CASE Restart
  BY <1>11 DEF Restart
<1>12. ASSUME NEW u \in Urls, Bury(u) PROVE TypeOK'
  BY <1>12 DEF Bury, Raced
<1>13. ASSUME NEW u \in Urls, Unbury(u) PROVE TypeOK'
  BY <1>13 DEF Unbury, Raced
<1>14. CASE UNCHANGED storeVars
  BY <1>14 DEF storeVars
<1> QED
  BY <1>1, <1>2, <1>3, <1>4, <1>5, <1>6, <1>7, <1>8,
     <1>9, <1>10, <1>11, <1>12, <1>13, <1>14 DEF Next

(* The stamp, the table and the fetch in memory are in this order, and     *)
(* while the rows are written they and the pending ones make up the list.  *)
LEMMA NumbersStep ==
    TypeOK /\ NumbersInOrder /\ [Next]_storeVars
        => NumbersInOrder'
<1> SUFFICES ASSUME TypeOK, NumbersInOrder, [Next]_storeVars
             PROVE  NumbersInOrder'
  OBVIOUS
<1> USE BoundsAssumption
    DEF TypeOK, NumbersInOrder,
        table, memory, emptied, marks
<1>1. ASSUME NEW u \in Urls, UpdatePr(u) PROVE NumbersInOrder'
  BY <1>1 DEF UpdatePr
<1>2. ASSUME NEW S \in SUBSET Urls, NEW R \in SUBSET S, Fetch(S, R) PROVE NumbersInOrder'
  BY <1>2 DEF Fetch, None
<1>3. CASE ReadBuried
  BY <1>3 DEF ReadBuried, KeepsBuried, Unburied
<1>4. CASE ReadBuriedFails
  BY <1>4 DEF ReadBuriedFails
<1>5. CASE DeletePrs
  BY <1>5 DEF DeletePrs, None
<1>6. CASE DeletePrsFails
  BY <1>6 DEF DeletePrsFails, Forget, None
<1>7. ASSUME NEW u \in Urls, CreatePr(u) PROVE NumbersInOrder'
  BY <1>7 DEF CreatePr
<1>8. CASE StoreLastFetched
  BY <1>8 DEF StoreLastFetched, Forget, None
<1>9. CASE StoreLastFetchedFails
  BY <1>9 DEF StoreLastFetchedFails, Forget, None
<1>10. CASE Crash
  BY <1>10 DEF Crash, Forget, None
<1>11. CASE Restart
  BY <1>11 DEF Restart
<1>12. ASSUME NEW u \in Urls, Bury(u) PROVE NumbersInOrder'
  BY <1>12 DEF Bury, Raced
<1>13. ASSUME NEW u \in Urls, Unbury(u) PROVE NumbersInOrder'
  BY <1>13 DEF Unbury, Raced
<1>14. CASE UNCHANGED storeVars
  BY <1>14 DEF storeVars
<1> QED
  BY <1>1, <1>2, <1>3, <1>4, <1>5, <1>6, <1>7, <1>8,
     <1>9, <1>10, <1>11, <1>12, <1>13, <1>14 DEF Next

(* Rows are only added to a table emptied for their own fetch.             *)
LEMMA OneFetchStep ==
    TypeOK /\ NumbersInOrder /\ OneFetchAtATime /\ [Next]_storeVars
        => OneFetchAtATime'
<1> SUFFICES ASSUME TypeOK, NumbersInOrder, OneFetchAtATime, [Next]_storeVars
             PROVE  OneFetchAtATime'
  OBVIOUS
<1> USE BoundsAssumption
    DEF TypeOK, NumbersInOrder, OneFetchAtATime,
        table, memory, emptied, marks
<1>1. ASSUME NEW u \in Urls, UpdatePr(u) PROVE OneFetchAtATime'
  BY <1>1 DEF UpdatePr
<1>2. ASSUME NEW S \in SUBSET Urls, NEW R \in SUBSET S, Fetch(S, R) PROVE OneFetchAtATime'
  BY <1>2 DEF Fetch, None
<1>3. CASE ReadBuried
  BY <1>3 DEF ReadBuried, KeepsBuried, Unburied
<1>4. CASE ReadBuriedFails
  BY <1>4 DEF ReadBuriedFails
<1>5. CASE DeletePrs
  BY <1>5 DEF DeletePrs, None
<1>6. CASE DeletePrsFails
  BY <1>6 DEF DeletePrsFails, Forget, None
<1>7. ASSUME NEW u \in Urls, CreatePr(u) PROVE OneFetchAtATime'
  BY <1>7 DEF CreatePr
<1>8. CASE StoreLastFetched
  BY <1>8 DEF StoreLastFetched, Forget, None
<1>9. CASE StoreLastFetchedFails
  BY <1>9 DEF StoreLastFetchedFails, Forget, None
<1>10. CASE Crash
  BY <1>10 DEF Crash, Forget, None
<1>11. CASE Restart
  BY <1>11 DEF Restart
<1>12. ASSUME NEW u \in Urls, Bury(u) PROVE OneFetchAtATime'
  BY <1>12 DEF Bury, Raced
<1>13. ASSUME NEW u \in Urls, Unbury(u) PROVE OneFetchAtATime'
  BY <1>13 DEF Unbury, Raced
<1>14. CASE UNCHANGED storeVars
  BY <1>14 DEF storeVars
<1> QED
  BY <1>1, <1>2, <1>3, <1>4, <1>5, <1>6, <1>7, <1>8,
     <1>9, <1>10, <1>11, <1>12, <1>13, <1>14 DEF Next

(* The stamp catches up with the table only after the last row.            *)
LEMMA StampStep ==
    TypeOK /\ NumbersInOrder /\ StampMeansComplete /\ [Next]_storeVars
        => StampMeansComplete'
<1> SUFFICES ASSUME TypeOK, NumbersInOrder, StampMeansComplete, [Next]_storeVars
             PROVE  StampMeansComplete'
  OBVIOUS
<1> USE BoundsAssumption
    DEF TypeOK, NumbersInOrder, StampMeansComplete,
        table, memory, emptied, marks
<1>1. ASSUME NEW u \in Urls, UpdatePr(u) PROVE StampMeansComplete'
  BY <1>1 DEF UpdatePr
<1>2. ASSUME NEW S \in SUBSET Urls, NEW R \in SUBSET S, Fetch(S, R) PROVE StampMeansComplete'
  BY <1>2 DEF Fetch, None
<1>3. CASE ReadBuried
  BY <1>3 DEF ReadBuried, KeepsBuried, Unburied
<1>4. CASE ReadBuriedFails
  BY <1>4 DEF ReadBuriedFails
<1>5. CASE DeletePrs
  BY <1>5 DEF DeletePrs, None
<1>6. CASE DeletePrsFails
  BY <1>6 DEF DeletePrsFails, Forget, None
<1>7. ASSUME NEW u \in Urls, CreatePr(u) PROVE StampMeansComplete'
  BY <1>7 DEF CreatePr
<1>8. CASE StoreLastFetched
  BY <1>8 DEF StoreLastFetched, Forget, None
<1>9. CASE StoreLastFetchedFails
  BY <1>9 DEF StoreLastFetchedFails, Forget, None
<1>10. CASE Crash
  BY <1>10 DEF Crash, Forget, None
<1>11. CASE Restart
  BY <1>11 DEF Restart
<1>12. ASSUME NEW u \in Urls, Bury(u) PROVE StampMeansComplete'
  BY <1>12 DEF Bury, Raced
<1>13. ASSUME NEW u \in Urls, Unbury(u) PROVE StampMeansComplete'
  BY <1>13 DEF Unbury, Raced
<1>14. CASE UNCHANGED storeVars
  BY <1>14 DEF storeVars
<1> QED
  BY <1>1, <1>2, <1>3, <1>4, <1>5, <1>6, <1>7, <1>8,
     <1>9, <1>10, <1>11, <1>12, <1>13, <1>14 DEF Next

(* What GitHub answers is never older than what is stored, unless its date *)
(* cannot be read.                                                         *)
LEMMA VersionsStep ==
    TypeOK /\ VersionsInOrder /\ [Next]_storeVars
        => VersionsInOrder'
<1> SUFFICES ASSUME TypeOK, VersionsInOrder, [Next]_storeVars
             PROVE  VersionsInOrder'
  OBVIOUS
<1> USE BoundsAssumption
    DEF TypeOK, Versions, ZeroTime, Never, VersionsInOrder,
        table, memory, emptied, marks
<1>1. ASSUME NEW u \in Urls, UpdatePr(u) PROVE VersionsInOrder'
  BY <1>1 DEF UpdatePr
<1>2. ASSUME NEW S \in SUBSET Urls, NEW R \in SUBSET S, Fetch(S, R) PROVE VersionsInOrder'
  BY <1>2 DEF Fetch, None
<1>3. CASE ReadBuried
  BY <1>3 DEF ReadBuried, KeepsBuried, Unburied
<1>4. CASE ReadBuriedFails
  BY <1>4 DEF ReadBuriedFails
<1>5. CASE DeletePrs
  BY <1>5 DEF DeletePrs, None
<1>6. CASE DeletePrsFails
  BY <1>6 DEF DeletePrsFails, Forget, None
<1>7. ASSUME NEW u \in Urls, CreatePr(u) PROVE VersionsInOrder'
  BY <1>7 DEF CreatePr
<1>8. CASE StoreLastFetched
  BY <1>8 DEF StoreLastFetched, Forget, None
<1>9. CASE StoreLastFetchedFails
  BY <1>9 DEF StoreLastFetchedFails, Forget, None
<1>10. CASE Crash
  BY <1>10 DEF Crash, Forget, None
<1>11. CASE Restart
  BY <1>11 DEF Restart
<1>12. ASSUME NEW u \in Urls, Bury(u) PROVE VersionsInOrder'
  BY <1>12 DEF Bury, Raced
<1>13. ASSUME NEW u \in Urls, Unbury(u) PROVE VersionsInOrder'
  BY <1>13 DEF Unbury, Raced
<1>14. CASE UNCHANGED storeVars
  BY <1>14 DEF storeVars
<1> QED
  BY <1>1, <1>2, <1>3, <1>4, <1>5, <1>6, <1>7, <1>8,
     <1>9, <1>10, <1>11, <1>12, <1>13, <1>14 DEF Next

(* A mark in the table is on the version it was asked for.                 *)
LEMMA BuriedStep ==
    TypeOK /\ NumbersInOrder /\ MarksCarried /\ BuriedOnlyOnRequest /\ [Next]_storeVars
        => BuriedOnlyOnRequest'
<1> SUFFICES ASSUME TypeOK, NumbersInOrder, MarksCarried, BuriedOnlyOnRequest,
                    [Next]_storeVars
             PROVE  BuriedOnlyOnRequest'
  OBVIOUS
<1> USE BoundsAssumption
    DEF TypeOK, Versions, ZeroTime, Never, NumbersInOrder, MarksCarried,
        BuriedOnlyOnRequest,
        table, memory, emptied, marks
<1>1. ASSUME NEW u \in Urls, UpdatePr(u) PROVE BuriedOnlyOnRequest'
  BY <1>1 DEF UpdatePr
<1>2. ASSUME NEW S \in SUBSET Urls, NEW R \in SUBSET S, Fetch(S, R) PROVE BuriedOnlyOnRequest'
  BY <1>2 DEF Fetch, None
<1>3. CASE ReadBuried
  BY <1>3 DEF ReadBuried, KeepsBuried, Unburied
<1>4. CASE ReadBuriedFails
  BY <1>4 DEF ReadBuriedFails
<1>5. CASE DeletePrs
  BY <1>5 DEF DeletePrs, None
<1>6. CASE DeletePrsFails
  BY <1>6 DEF DeletePrsFails, Forget, None
<1>7. ASSUME NEW u \in Urls, CreatePr(u) PROVE BuriedOnlyOnRequest'
  BY <1>7 DEF CreatePr
<1>8. CASE StoreLastFetched
  BY <1>8 DEF StoreLastFetched, Forget, None
<1>9. CASE StoreLastFetchedFails
  BY <1>9 DEF StoreLastFetchedFails, Forget, None
<1>10. CASE Crash
  BY <1>10 DEF Crash, Forget, None
<1>11. CASE Restart
  BY <1>11 DEF Restart
<1>12. ASSUME NEW u \in Urls, Bury(u) PROVE BuriedOnlyOnRequest'
  BY <1>12 DEF Bury, Raced
<1>13. ASSUME NEW u \in Urls, Unbury(u) PROVE BuriedOnlyOnRequest'
  BY <1>13 DEF Unbury, Raced
<1>14. CASE UNCHANGED storeVars
  BY <1>14 DEF storeVars
<1> QED
  BY <1>1, <1>2, <1>3, <1>4, <1>5, <1>6, <1>7, <1>8,
     <1>9, <1>10, <1>11, <1>12, <1>13, <1>14 DEF Next

(* The marks held are where the next statement will find them.             *)
LEMMA MarksStep ==
    /\ TypeOK /\ NumbersInOrder /\ VersionsInOrder
    /\ BuriedOnlyOnRequest /\ MarksCarried
    /\ [Next]_storeVars
    => MarksCarried'
<1> SUFFICES ASSUME TypeOK, NumbersInOrder, VersionsInOrder, BuriedOnlyOnRequest,
                    MarksCarried, [Next]_storeVars
             PROVE  MarksCarried'
  OBVIOUS
<1> USE BoundsAssumption
    DEF TypeOK, Versions, ZeroTime, Never, NumbersInOrder, VersionsInOrder, BuriedOnlyOnRequest,
        MarksCarried, table, memory, emptied, marks
<1>1. ASSUME NEW u \in Urls, UpdatePr(u) PROVE MarksCarried'
  BY <1>1 DEF UpdatePr
<1>2. ASSUME NEW S \in SUBSET Urls, NEW R \in SUBSET S, Fetch(S, R) PROVE MarksCarried'
  BY <1>2 DEF Fetch, None
<1>3. CASE ReadBuried
  <2>1. bury' = {u \in batch \cap buried : ~(version[u] > updated[u])}
    BY <1>3 DEF ReadBuried, KeepsBuried, Unburied
  <2>2. \A u \in bury' : u \in prs /\ version[u] \in {updated[u], ZeroTime} /\ u \in buried
    BY <1>3, <2>1 DEF ReadBuried
  <2>3. \A u \in held' : u \in buried /\ u \in bury'
    BY <1>3, <2>1 DEF ReadBuried
  <2>4. pc' = "delete" /\ UNCHANGED <<prs, updated, buried, version, buriedAt>>
    BY <1>3 DEF ReadBuried
  <2> QED BY <2>2, <2>3, <2>4 DEF MarksCarried
<1>4. CASE ReadBuriedFails
  BY <1>4 DEF ReadBuriedFails
<1>5. CASE DeletePrs
  BY <1>5 DEF DeletePrs, None
<1>6. CASE DeletePrsFails
  BY <1>6 DEF DeletePrsFails, Forget, None
<1>7. ASSUME NEW u \in Urls, CreatePr(u) PROVE MarksCarried'
  BY <1>7 DEF CreatePr
<1>8. CASE StoreLastFetched
  BY <1>8 DEF StoreLastFetched, Forget, None
<1>9. CASE StoreLastFetchedFails
  BY <1>9 DEF StoreLastFetchedFails, Forget, None
<1>10. CASE Crash
  BY <1>10 DEF Crash, Forget, None
<1>11. CASE Restart
  BY <1>11 DEF Restart
<1>12. ASSUME NEW u \in Urls, Bury(u) PROVE MarksCarried'
  BY <1>12 DEF Bury, Raced
<1>13. ASSUME NEW u \in Urls, Unbury(u) PROVE MarksCarried'
  BY <1>13 DEF Unbury, Raced
<1>14. CASE UNCHANGED storeVars
  BY <1>14 DEF storeVars
<1> QED
  BY <1>1, <1>2, <1>3, <1>4, <1>5, <1>6, <1>7, <1>8,
     <1>9, <1>10, <1>11, <1>12, <1>13, <1>14 DEF Next
----------------------------------------------------------------------------
LEMMA StoreInit == Init => StoreInv
<1> SUFFICES ASSUME Init PROVE StoreInv
  OBVIOUS
<1> USE BoundsAssumption DEF Init, None, ZeroTime, Never
<1>1. TypeOK
  BY DEF TypeOK, Versions
<1>2. OneFetchAtATime /\ NumbersInOrder /\ StampMeansComplete
  BY DEF OneFetchAtATime, NumbersInOrder, StampMeansComplete
<1>3. VersionsInOrder /\ BuriedOnlyOnRequest /\ MarksCarried
  BY DEF VersionsInOrder, BuriedOnlyOnRequest, MarksCarried
<1> QED BY <1>1, <1>2, <1>3 DEF StoreInv

(* The inductive invariant: types, and where every fetch number, version   *)
(* and mark stands between any two statements of StoreRepoPrs.             *)
THEOREM StoreInvariant == Spec => []StoreInv
<1>1. Init => StoreInv
  BY StoreInit
<1>2. StoreInv /\ [Next]_storeVars => StoreInv'
  BY TypeStep, NumbersStep, OneFetchStep, StampStep, VersionsStep, BuriedStep,
     MarksStep DEF StoreInv
<1> QED BY <1>1, <1>2, PTL DEF Spec

(* The types hold for any set of pull requests.                            *)
THEOREM StoreTypeCorrect == Spec => []TypeOK
<1>1. StoreInv => TypeOK
  BY DEF StoreInv
<1> QED BY <1>1, StoreInvariant, PTL

(* No pull request is ever shown buried that the user did not bury, nor at *)
(* a later version than that one, whatever fails, whichever dates cannot   *)
(* be read and whenever the process dies.                                  *)
THEOREM NeverBuriedUnasked == Spec => []BuriedOnlyOnRequest
<1>1. StoreInv => BuriedOnlyOnRequest
  BY DEF StoreInv
<1> QED BY <1>1, StoreInvariant, PTL

(* A mark is lost only for one of the reasons that clear held.             *)
THEOREM MarksAreNotForgotten == Spec => []MarksSurvive
<1>1. StoreInv => MarksSurvive
  BY DEF StoreInv, TypeOK, MarksCarried, MarksSurvive
<1> QED BY <1>1, StoreInvariant, PTL

(* The rows in the table always come from one and the same fetch.          *)
THEOREM FetchesAreNotMixed == Spec => []OneFetchAtATime
<1>1. StoreInv => OneFetchAtATime
  BY DEF StoreInv
<1> QED BY <1>1, StoreInvariant, PTL

(* A fresh last_fetched is never left beside an incomplete list.           *)
THEOREM StampVouches == Spec => []StampMeansComplete
<1>1. StoreInv => StampMeansComplete
  BY DEF StoreInv
<1> QED BY <1>1, StoreInvariant, PTL

----------------------------------------------------------------------------
(* Refinement: each step of the store is a step of the list, or none.      *)
LEMMA ListStep ==
    StoreInv /\ [Next]_storeVars => [List!Next]_(List!listVars)
<1> SUFFICES ASSUME StoreInv, [Next]_storeVars
             PROVE  List!Next \/ UNCHANGED List!listVars
  OBVIOUS
<1> USE BoundsAssumption
    DEF StoreInv, TypeOK, NumbersInOrder, table, memory, emptied, marks
<1>1. CASE \/ \E u \in Urls : UpdatePr(u)
           \/ \E S \in SUBSET Urls : \E R \in SUBSET S : Fetch(S, R)
           \/ ReadBuried \/ ReadBuriedFails \/ DeletePrsFails
           \/ StoreLastFetchedFails \/ Crash \/ Restart
           \/ UNCHANGED storeVars
  <2>1. UNCHANGED <<table, stamp, emptied, buriedAt>>
    BY <1>1 DEF UpdatePr, Fetch, ReadBuried, ReadBuriedFails, DeletePrsFails,
                StoreLastFetchedFails, Crash, Restart, storeVars
  <2> QED BY <2>1 DEF List!listVars
<1>2. CASE DeletePrs
  <2>1. ~(stamp' = targetNo')
    BY <1>2 DEF DeletePrs
  <2>2. List!Clear
    BY <1>2, <2>1 DEF DeletePrs, None, List!Clear
  <2> QED BY <2>2 DEF List!Next
<1>3. ASSUME NEW u \in Urls, CreatePr(u) PROVE List!Next
  <2>1. u \notin prs /\ prs # target
    BY <1>3 DEF CreatePr
  <2>2. u \in bury => buriedAt[u] # Never /\ version[u] \in {buriedAt[u], ZeroTime}
    BY <1>3 DEF CreatePr, MarksCarried
  <2>3. List!Show(u, version[u])
    BY <1>3, <2>1, <2>2 DEF CreatePr, List!Show, List!Never, List!ZeroTime, Never, ZeroTime
  <2>4. version[u] \in 0..MaxVersion
    BY DEF Versions, ZeroTime
  <2> QED BY <2>3, <2>4 DEF List!Next
<1>4. CASE StoreLastFetched
  <2>1. prs = target /\ stamp' = targetNo /\ targetNo > 0
    BY <1>4 DEF StoreLastFetched
  <2>2. List!Vouch
    BY <1>4, <2>1 DEF StoreLastFetched, List!Vouch
  <2> QED BY <2>2 DEF List!Next
<1>5. ASSUME NEW u \in Urls, Bury(u)
      PROVE  List!Next \/ UNCHANGED List!listVars
  <2>1. CASE u \in prs
    <3>1. List!Bury(u)
      BY <1>5, <2>1 DEF Bury, List!Bury
    <3> QED BY <3>1 DEF List!Next
  <2>2. CASE u \notin prs
    BY <1>5, <2>2 DEF Bury, List!listVars
  <2> QED BY <2>1, <2>2
<1>6. ASSUME NEW u \in Urls, Unbury(u) PROVE List!Next
  <2>1. List!Unbury(u)
    BY <1>6 DEF Unbury, Never, List!Unbury, List!Never
  <2> QED BY <2>1 DEF List!Next
<1> QED BY <1>1, <1>2, <1>3, <1>4, <1>5, <1>6 DEF Next

(* StoreRepoPrs, the requests and all that can fail implement the list     *)
(* readers rely on, for any set of pull requests and any bounds.           *)
THEOREM StoreImplementsList == Spec => ImplementsList
<1>1. Init => List!Init
  BY DEF Init, None, ZeroTime, Never, List!Init, List!Never
<1>2. StoreInv /\ [Next]_storeVars => [List!Next]_(List!listVars)
  BY ListStep
<1> QED BY <1>1, <1>2, StoreInvariant, PTL DEF Spec, ImplementsList, List!Spec
----------------------------------------------------------------------------
(* Refinement: each step of the store renews the list, or does not matter. *)
LEMMA RenewalStep ==
    StoreInv /\ [Next]_storeVars => [Renewing!Next]_(Renewing!renewalVars)
<1> SUFFICES ASSUME StoreInv, [Next]_storeVars
             PROVE  Renewing!Next \/ UNCHANGED Renewing!renewalVars
  BY DEF Renewing!renewalVars
<1> USE BoundsAssumption DEF StoreInv, TypeOK, NumbersInOrder, emptied
<1>1. CASE \/ \E u \in Urls : UpdatePr(u) \/ Bury(u) \/ Unbury(u)
           \/ ReadBuried \/ ReadBuriedFails \/ Restart \/ UNCHANGED storeVars
  BY <1>1 DEF UpdatePr, Bury, Unbury, ReadBuried, ReadBuriedFails, Restart,
              storeVars, table, Renewing!renewalVars
<1>2. ASSUME NEW S \in SUBSET Urls, NEW R \in SUBSET S, Fetch(S, R) PROVE Renewing!Take
  <2>1. /\ fetchNo' - stamp' >= fetchNo - stamp
        /\ fetchNo' - stamp' > 0
    BY <1>2 DEF Fetch
  <2> QED BY <1>2, <2>1 DEF Fetch, table, Renewing!Take
<1>3. CASE DeletePrs
  BY <1>3 DEF DeletePrs, Renewing!Empty, Renewing!Next
<1>4. ASSUME NEW u \in Urls, CreatePr(u) PROVE Renewing!Insert
  <2>1. prs # target
    BY <1>4 DEF CreatePr
  <2> QED BY <1>4, <2>1 DEF CreatePr, Renewing!Insert
<1>5. CASE StoreLastFetched
  <2>1. prs' = target' /\ fetchNo' - stamp' = 0
    BY <1>5 DEF StoreLastFetched, table
  <2> QED BY <1>5, <2>1 DEF StoreLastFetched, Renewing!Stamp, Renewing!Next
<1>6. CASE DeletePrsFails \/ StoreLastFetchedFails
  BY <1>6 DEF DeletePrsFails, StoreLastFetchedFails, table, Renewing!GiveUp,
              Renewing!Next
<1>7. CASE Crash
  BY <1>7 DEF Crash, table, Renewing!GiveUp, Renewing!Next, Renewing!renewalVars
<1> QED BY <1>1, <1>2, <1>3, <1>4, <1>5, <1>6, <1>7 DEF Next, Renewing!Next

(* The statements, failing or not, between requests and crashes, renew the *)
(* list in order: whole before it is stamped, whatever its length.         *)
THEOREM StoreRenewsInOrder == Spec => RenewsInOrder
<1>1. Init => Renewing!Init
  BY DEF Init, Renewing!Init
<1> QED BY <1>1, RenewalStep, StoreInvariant, PTL
     DEF Spec, RenewsInOrder, Renewing!Spec
============================================================================
