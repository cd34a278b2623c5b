--------------------------- MODULE PatStoreProofs ---------------------------
(***************************************************************************)
(* Proofs about PatStore, for any set of PATs and any number of clients.   *)
(***************************************************************************)
EXTENDS PatStore, TLAPS

(* Every statement keeps the types; in particular the write lock is held   *)
(* by exactly the caller that is in a transaction.                         *)
LEMMA TypeStep == TypeOK /\ StartsAlone /\ [Next]_patVars => TypeOK'
<1> SUFFICES ASSUME TypeOK, StartsAlone, [Next]_patVars
             PROVE  TypeOK'
  OBVIOUS
<1> USE NoneAssumption, StartupAssumption
    DEF TypeOK, Statuses, Processes, InTransaction, Callers, Runs, Empty,
        Deactivated, table, callers, fetching, rendering
<1>1. ASSUME NEW c \in Callers, DeactivateAllPATs(c) PROVE TypeOK'
  BY <1>1 DEF DeactivateAllPATs, Store
<1>2. ASSUME NEW c \in Callers, InsertPAT(c) PROVE TypeOK'
  BY <1>2 DEF InsertPAT, Store
<1>3. ASSUME NEW c \in Callers, Commit(c) PROVE TypeOK'
  BY <1>3 DEF Commit, Store, Watch
<1>4. ASSUME NEW c \in Callers, StorePATFails(c) PROVE TypeOK'
  BY <1>4 DEF StorePATFails
<1>5. ASSUME NEW c \in Callers, Answer(c) PROVE TypeOK'
  BY <1>5 DEF Answer
<1>6. ASSUME NEW c \in Callers, NEW t \in Tokens, PutPat(c, t) PROVE TypeOK'
  BY <1>6 DEF PutPat
<1>7. CASE DeletePat
  BY <1>7 DEF DeletePat
<1>8. CASE ClearPAT
  BY <1>8 DEF ClearPAT, Watch
<1>9. CASE ClearPATFails
  BY <1>9 DEF ClearPATFails
<1>10. CASE StopTracker
  BY <1>10 DEF StopTracker
<1>11. ASSUME NEW t \in Tokens, StartWithEnv(t) PROVE TypeOK'
  BY <1>11 DEF StartWithEnv, StartsAlone
<1>12. CASE StartStored
  BY <1>12 DEF StartStored
<1>13. ASSUME NEW b \in BOOLEAN, CheckStored(b) PROVE TypeOK'
  BY <1>13 DEF CheckStored
<1>14. ASSUME NEW b \in BOOLEAN, ClearRefused(b) PROVE TypeOK'
  BY <1>14 DEF ClearRefused
<1>15. CASE Crash
  BY <1>15 DEF Crash, Idle, NoTokens
<1>16. CASE LoopTick
  BY <1>16 DEF LoopTick, GetPAT, Active
<1>17. CASE StoreList
  BY <1>17 DEF StoreList
<1>18. CASE QueryFails
  BY <1>18 DEF QueryFails
<1>19. CASE LoopEnds
  BY <1>19 DEF LoopEnds
<1>20. CASE GetPage
  BY <1>20 DEF GetPage, GetPAT, Active
<1>21. CASE CheckSetupMode
  BY <1>21 DEF CheckSetupMode
<1>22. CASE CheckSetupModeFails
  BY <1>22 DEF CheckSetupModeFails
<1>23. CASE GetCurrentUsername
  BY <1>23 DEF GetCurrentUsername, GetPAT, Active
<1>24. CASE GetCurrentUsernameFails
  BY <1>24 DEF GetCurrentUsernameFails
<1>25. CASE PageDone
  BY <1>25 DEF PageDone
<1>26. CASE UNCHANGED patVars
  BY <1>26 DEF patVars
<1> QED
  BY <1>1, <1>2, <1>3, <1>4, <1>5, <1>6, <1>7, <1>8, <1>9, <1>10, <1>11, <1>12,
     <1>13, <1>14, <1>15, <1>16, <1>17, <1>18, <1>19, <1>20, <1>21, <1>22, <1>23,
     <1>24, <1>25, <1>26 DEF Next

(* initPAT runs before the server and the loop are started.                *)
LEMMA AloneStep ==
    TypeOK /\ StartsAlone /\ [Next]_patVars => StartsAlone'
<1> SUFFICES ASSUME TypeOK, StartsAlone, [Next]_patVars
             PROVE  StartsAlone'
  OBVIOUS
<1> USE NoneAssumption, StartupAssumption
    DEF TypeOK, Callers, Runs, table, callers, fetching, rendering, StartsAlone, InTransaction
<1>1. ASSUME NEW c \in Callers, DeactivateAllPATs(c) PROVE StartsAlone'
  BY <1>1 DEF DeactivateAllPATs, Store
<1>2. ASSUME NEW c \in Callers, InsertPAT(c) PROVE StartsAlone'
  BY <1>2 DEF InsertPAT, Store
<1>3. ASSUME NEW c \in Callers, Commit(c) PROVE StartsAlone'
  BY <1>3 DEF Commit, Store
<1>4. ASSUME NEW c \in Callers, StorePATFails(c) PROVE StartsAlone'
  BY <1>4 DEF StorePATFails
<1>5. ASSUME NEW c \in Callers, Answer(c) PROVE StartsAlone'
  BY <1>5 DEF Answer
<1>6. ASSUME NEW c \in Callers, NEW t \in Tokens, PutPat(c, t) PROVE StartsAlone'
  BY <1>6 DEF PutPat
<1>7. CASE DeletePat
  BY <1>7 DEF DeletePat
<1>8. CASE ClearPAT
  BY <1>8 DEF ClearPAT
<1>9. CASE ClearPATFails
  BY <1>9 DEF ClearPATFails
<1>10. CASE StopTracker
  BY <1>10 DEF StopTracker
<1>11. ASSUME NEW t \in Tokens, StartWithEnv(t) PROVE StartsAlone'
  BY <1>11 DEF StartWithEnv
<1>12. CASE StartStored
  BY <1>12 DEF StartStored
<1>13. ASSUME NEW b \in BOOLEAN, CheckStored(b) PROVE StartsAlone'
  BY <1>13 DEF CheckStored
<1>14. ASSUME NEW b \in BOOLEAN, ClearRefused(b) PROVE StartsAlone'
  BY <1>14 DEF ClearRefused
<1>15. CASE Crash
  BY <1>15 DEF Crash, Idle
<1>16. CASE LoopTick
  BY <1>16 DEF LoopTick
<1>17. CASE StoreList
  BY <1>17 DEF StoreList
<1>18. CASE QueryFails
  BY <1>18 DEF QueryFails
<1>19. CASE LoopEnds
  BY <1>19 DEF LoopEnds
<1>20. CASE GetPage
  BY <1>20 DEF GetPage
<1>21. CASE CheckSetupMode
  BY <1>21 DEF CheckSetupMode
<1>22. CASE CheckSetupModeFails
  BY <1>22 DEF CheckSetupModeFails
<1>23. CASE GetCurrentUsername
  BY <1>23 DEF GetCurrentUsername
<1>24. CASE GetCurrentUsernameFails
  BY <1>24 DEF GetCurrentUsernameFails
<1>25. CASE PageDone
  BY <1>25 DEF PageDone
<1>26. CASE UNCHANGED patVars
  BY <1>26 DEF patVars
<1> QED
  BY <1>1, <1>2, <1>3, <1>4, <1>5, <1>6, <1>7, <1>8, <1>9, <1>10, <1>11, <1>12,
     <1>13, <1>14, <1>15, <1>16, <1>17, <1>18, <1>19, <1>20, <1>21, <1>22, <1>23,
     <1>24, <1>25, <1>26 DEF Next

(* A transaction is about to commit its own PAT and nothing else: nobody   *)
(* else writes while it holds the lock.                                    *)
LEMMA TransactionStep ==
    TypeOK /\ StartsAlone /\ TransactionInOrder /\ [Next]_patVars => TransactionInOrder'
<1> SUFFICES ASSUME TypeOK, StartsAlone, TransactionInOrder, [Next]_patVars
             PROVE  TransactionInOrder'
  OBVIOUS
<1> USE NoneAssumption, StartupAssumption
    DEF TypeOK, Callers, Runs, table, callers, fetching, rendering,
        StartsAlone, TransactionInOrder, InTransaction, Active
<1>1. ASSUME NEW c \in Callers, DeactivateAllPATs(c) PROVE TransactionInOrder'
  BY <1>1 DEF DeactivateAllPATs, Store, Deactivated
<1>2. ASSUME NEW c \in Callers, InsertPAT(c) PROVE TransactionInOrder'
  BY <1>2 DEF InsertPAT, Store
<1>3. ASSUME NEW c \in Callers, Commit(c) PROVE TransactionInOrder'
  BY <1>3 DEF Commit, Store, Empty
<1>4. ASSUME NEW c \in Callers, StorePATFails(c) PROVE TransactionInOrder'
  BY <1>4 DEF StorePATFails, Empty
<1>5. ASSUME NEW c \in Callers, Answer(c) PROVE TransactionInOrder'
  BY <1>5 DEF Answer
<1>6. ASSUME NEW c \in Callers, NEW t \in Tokens, PutPat(c, t) PROVE TransactionInOrder'
  BY <1>6 DEF PutPat
<1>7. CASE DeletePat
  BY <1>7 DEF DeletePat
<1>8. CASE ClearPAT
  BY <1>8 DEF ClearPAT
<1>9. CASE ClearPATFails
  BY <1>9 DEF ClearPATFails
<1>10. CASE StopTracker
  BY <1>10 DEF StopTracker
<1>11. ASSUME NEW t \in Tokens, StartWithEnv(t) PROVE TransactionInOrder'
  BY <1>11 DEF StartWithEnv
<1>12. CASE StartStored
  BY <1>12 DEF StartStored
<1>13. ASSUME NEW b \in BOOLEAN, CheckStored(b) PROVE TransactionInOrder'
  BY <1>13 DEF CheckStored
<1>14. ASSUME NEW b \in BOOLEAN, ClearRefused(b) PROVE TransactionInOrder'
  BY <1>14 DEF ClearRefused
<1>15. CASE Crash
  BY <1>15 DEF Crash, Idle
<1>16. CASE LoopTick
  BY <1>16 DEF LoopTick
<1>17. CASE StoreList
  BY <1>17 DEF StoreList
<1>18. CASE QueryFails
  BY <1>18 DEF QueryFails
<1>19. CASE LoopEnds
  BY <1>19 DEF LoopEnds
<1>20. CASE GetPage
  BY <1>20 DEF GetPage
<1>21. CASE CheckSetupMode
  BY <1>21 DEF CheckSetupMode
<1>22. CASE CheckSetupModeFails
  BY <1>22 DEF CheckSetupModeFails
<1>23. CASE GetCurrentUsername
  BY <1>23 DEF GetCurrentUsername
<1>24. CASE GetCurrentUsernameFails
  BY <1>24 DEF GetCurrentUsernameFails
<1>25. CASE PageDone
  BY <1>25 DEF PageDone
<1>26. CASE UNCHANGED patVars
  BY <1>26 DEF patVars
<1> QED
  BY <1>1, <1>2, <1>3, <1>4, <1>5, <1>6, <1>7, <1>8, <1>9, <1>10, <1>11, <1>12,
     <1>13, <1>14, <1>15, <1>16, <1>17, <1>18, <1>19, <1>20, <1>21, <1>22, <1>23,
     <1>24, <1>25, <1>26 DEF Next

(* The table changes only by a commit, or when everything is deactivated.  *)
LEMMA OneActiveStep ==
    TypeOK /\ TransactionInOrder /\ AtMostOneActive /\ [Next]_patVars => AtMostOneActive'
<1> SUFFICES ASSUME TypeOK, TransactionInOrder, AtMostOneActive, [Next]_patVars
             PROVE  AtMostOneActive'
  OBVIOUS
<1> USE NoneAssumption, StartupAssumption
    DEF TypeOK, Callers, Runs, table, callers, fetching, rendering,
        AtMostOneActive, TransactionInOrder, Active
<1>1. ASSUME NEW c \in Callers, DeactivateAllPATs(c) PROVE AtMostOneActive'
  BY <1>1 DEF DeactivateAllPATs, Store
<1>2. ASSUME NEW c \in Callers, InsertPAT(c) PROVE AtMostOneActive'
  BY <1>2 DEF InsertPAT, Store
<1>3. ASSUME NEW c \in Callers, Commit(c) PROVE AtMostOneActive'
  BY <1>3 DEF Commit, Store
<1>4. ASSUME NEW c \in Callers, StorePATFails(c) PROVE AtMostOneActive'
  BY <1>4 DEF StorePATFails
<1>5. ASSUME NEW c \in Callers, Answer(c) PROVE AtMostOneActive'
  BY <1>5 DEF Answer
<1>6. ASSUME NEW c \in Callers, NEW t \in Tokens, PutPat(c, t) PROVE AtMostOneActive'
  BY <1>6 DEF PutPat
<1>7. CASE DeletePat
  BY <1>7 DEF DeletePat
<1>8. CASE ClearPAT
  BY <1>8 DEF ClearPAT, Deactivated
<1>9. CASE ClearPATFails
  BY <1>9 DEF ClearPATFails
<1>10. CASE StopTracker
  BY <1>10 DEF StopTracker
<1>11. ASSUME NEW t \in Tokens, StartWithEnv(t) PROVE AtMostOneActive'
  BY <1>11 DEF StartWithEnv
<1>12. CASE StartStored
  BY <1>12 DEF StartStored
<1>13. ASSUME NEW b \in BOOLEAN, CheckStored(b) PROVE AtMostOneActive'
  BY <1>13 DEF CheckStored
<1>14. ASSUME NEW b \in BOOLEAN, ClearRefused(b) PROVE AtMostOneActive'
  BY <1>14 DEF ClearRefused, Deactivated
<1>15. CASE Crash
  BY <1>15 DEF Crash
<1>16. CASE LoopTick
  BY <1>16 DEF LoopTick
<1>17. CASE StoreList
  BY <1>17 DEF StoreList
<1>18. CASE QueryFails
  BY <1>18 DEF QueryFails
<1>19. CASE LoopEnds
  BY <1>19 DEF LoopEnds
<1>20. CASE GetPage
  BY <1>20 DEF GetPage
<1>21. CASE CheckSetupMode
  BY <1>21 DEF CheckSetupMode
<1>22. CASE CheckSetupModeFails
  BY <1>22 DEF CheckSetupModeFails
<1>23. CASE GetCurrentUsername
  BY <1>23 DEF GetCurrentUsername
<1>24. CASE GetCurrentUsernameFails
  BY <1>24 DEF GetCurrentUsernameFails
<1>25. CASE PageDone
  BY <1>25 DEF PageDone
<1>26. CASE UNCHANGED patVars
  BY <1>26 DEF patVars
<1> QED
  BY <1>1, <1>2, <1>3, <1>4, <1>5, <1>6, <1>7, <1>8, <1>9, <1>10, <1>11, <1>12,
     <1>13, <1>14, <1>15, <1>16, <1>17, <1>18, <1>19, <1>20, <1>21, <1>22, <1>23,
     <1>24, <1>25, <1>26 DEF Next

(* While a page is made, the PAT there is has been seen by it.             *)
LEMMA PageStep ==
    TypeOK /\ TransactionInOrder /\ StartsAlone /\ PageInOrder /\ [Next]_patVars => PageInOrder'
<1> SUFFICES ASSUME TypeOK, TransactionInOrder, StartsAlone, PageInOrder, [Next]_patVars
             PROVE  PageInOrder'
  OBVIOUS
<1> USE NoneAssumption, StartupAssumption
    DEF TypeOK, Callers, Runs, table, callers, fetching, rendering,
        StartsAlone, PageInOrder, GetPAT
<1>1. ASSUME NEW c \in Callers, DeactivateAllPATs(c) PROVE PageInOrder'
  BY <1>1 DEF DeactivateAllPATs, Store
<1>2. ASSUME NEW c \in Callers, InsertPAT(c) PROVE PageInOrder'
  BY <1>2 DEF InsertPAT, Store
<1>3. ASSUME NEW c \in Callers, Commit(c) PROVE PageInOrder'
  BY <1>3 DEF Commit, Store, TransactionInOrder, Active, Watch
<1>4. ASSUME NEW c \in Callers, StorePATFails(c) PROVE PageInOrder'
  BY <1>4 DEF StorePATFails
<1>5. ASSUME NEW c \in Callers, Answer(c) PROVE PageInOrder'
  BY <1>5 DEF Answer
<1>6. ASSUME NEW c \in Callers, NEW t \in Tokens, PutPat(c, t) PROVE PageInOrder'
  BY <1>6 DEF PutPat
<1>7. CASE DeletePat
  BY <1>7 DEF DeletePat
<1>8. CASE ClearPAT
  BY <1>8 DEF ClearPAT, Deactivated, Active, Watch
<1>9. CASE ClearPATFails
  BY <1>9 DEF ClearPATFails
<1>10. CASE StopTracker
  BY <1>10 DEF StopTracker
<1>11. ASSUME NEW t \in Tokens, StartWithEnv(t) PROVE PageInOrder'
  BY <1>11 DEF StartWithEnv
<1>12. CASE StartStored
  BY <1>12 DEF StartStored
<1>13. ASSUME NEW b \in BOOLEAN, CheckStored(b) PROVE PageInOrder'
  BY <1>13 DEF CheckStored
<1>14. ASSUME NEW b \in BOOLEAN, ClearRefused(b) PROVE PageInOrder'
  BY <1>14 DEF ClearRefused
<1>15. CASE Crash
  BY <1>15 DEF Crash
<1>16. CASE LoopTick
  BY <1>16 DEF LoopTick
<1>17. CASE StoreList
  BY <1>17 DEF StoreList
<1>18. CASE QueryFails
  BY <1>18 DEF QueryFails
<1>19. CASE LoopEnds
  BY <1>19 DEF LoopEnds
<1>20. CASE GetPage
  BY <1>20 DEF GetPage
<1>21. CASE CheckSetupMode
  BY <1>21 DEF CheckSetupMode, Active
<1>22. CASE CheckSetupModeFails
  BY <1>22 DEF CheckSetupModeFails
<1>23. CASE GetCurrentUsername
  BY <1>23 DEF GetCurrentUsername
<1>24. CASE GetCurrentUsernameFails
  BY <1>24 DEF GetCurrentUsernameFails
<1>25. CASE PageDone
  BY <1>25 DEF PageDone
<1>26. CASE UNCHANGED patVars
  BY <1>26 DEF patVars
<1> QED
  BY <1>1, <1>2, <1>3, <1>4, <1>5, <1>6, <1>7, <1>8, <1>9, <1>10, <1>11, <1>12,
     <1>13, <1>14, <1>15, <1>16, <1>17, <1>18, <1>19, <1>20, <1>21, <1>22, <1>23,
     <1>24, <1>25, <1>26 DEF Next

(* Open transactions, pages being made and a starting process never leave  *)
(* what makes the invariants of the store inductive.                       *)
THEOREM PatInvariant == Spec => []PatInv
<1>1. Init => PatInv
  BY NoneAssumption, StartupAssumption
     DEF Init, PatInv, TypeOK, AtMostOneActive, TransactionInOrder, PageInOrder,
         StartsAlone, Active, Empty, Idle, NoTokens, Statuses, Processes,
         InTransaction, Callers
<1>2. PatInv /\ [Next]_patVars => PatInv'
  BY TypeStep, AloneStep, TransactionStep, OneActiveStep, PageStep DEF PatInv
<1> QED BY <1>1, <1>2, PTL DEF Spec

(* The types of the store, and that its lock is held by a transaction.     *)
THEOREM PatTypeCorrect == Spec => []TypeOK
<1>1. PatInv => TypeOK
  BY DEF PatInv
<1> QED BY <1>1, PatInvariant, PTL

(* There never are two active PATs.                                        *)
THEOREM OnePat == Spec => []AtMostOneActive
<1>1. PatInv => AtMostOneActive
  BY DEF PatInv
<1> QED BY <1>1, PatInvariant, PTL

(* A page is never made for a PAT that was replaced before, nor in setup   *)
(* mode because a PAT was being replaced.                                  *)
THEOREM PagesKnowTheirUser == Spec => []PageKnowsItsUser
<1>1. PatInv => PageKnowsItsUser
  BY DEF PatInv, PageInOrder, PageKnowsItsUser
<1> QED BY <1>1, PatInvariant, PTL

(* The value of the register, as a name for the mapping of current.        *)
Current == IF Active(row) = {} THEN None ELSE CHOOSE t \in Active(row) : TRUE

(* Each statement is a step of the register or leaves it alone: the commit *)
(* stores, ClearPAT clears, everything else cannot be seen.                *)
LEMMA RegisterStep ==
    PatInv /\ PatInv' /\ [Next]_patVars
        => [Register!Next]_(Register!registerVars)
<1> SUFFICES ASSUME PatInv, PatInv', [Next]_patVars
             PROVE  [Register!Next]_(Register!registerVars)
  OBVIOUS
<1> DEFINE Answered == {c \in Callers : pc[c] = "stored"}
           Clearing == deletion = "asked" \/ proc = "refused"
<1> USE NoneAssumption, StartupAssumption
    DEF PatInv, TypeOK, StartsAlone, Callers, Runs, InTransaction,
        table, callers, fetching, rendering
<1>0. ASSUME UNCHANGED row PROVE Current' = Current
  BY <1>0 DEF Current, Active
<1>1. ASSUME Current' = Current, token' = token, Answered' = Answered,
             Clearing' = Clearing
      PROVE  UNCHANGED Register!registerVars
  BY <1>1 DEF Register!registerVars, Current
<1>2. ASSUME UNCHANGED <<row, token, pc, deletion, proc>>
      PROVE  UNCHANGED Register!registerVars
  BY <1>0, <1>1, <1>2
<1>3. ASSUME NEW c \in Callers, DeactivateAllPATs(c) PROVE UNCHANGED Register!registerVars
  BY <1>0, <1>1, <1>3 DEF DeactivateAllPATs, Store
<1>4. ASSUME NEW c \in Callers, InsertPAT(c) PROVE UNCHANGED Register!registerVars
  BY <1>0, <1>1, <1>4 DEF InsertPAT, Store
<1>5. ASSUME NEW c \in Callers, Commit(c) PROVE Register!Next
  <2>1. Active(row') = {token[c]} /\ token[c] \in Tokens
    BY <1>5 DEF Commit, Store, TransactionInOrder
  <2>2. Current' = token[c]
    BY <2>1 DEF Current, Active
  <2>3. Register!Store(c)
    BY <1>5, <2>1, <2>2 DEF Commit, Store, Register!Store, Current
  <2> QED BY <2>3 DEF Register!Next
<1>6. ASSUME NEW c \in Callers, StorePATFails(c) PROVE Register!Next
  <2>1. Current' = Current
    BY <1>0, <1>6 DEF StorePATFails
  <2>2. Register!End(c)
    BY <1>6, <2>1 DEF StorePATFails, Register!End, Current
  <2> QED BY <2>2 DEF Register!Next
<1>7. ASSUME NEW c \in Callers, Answer(c) PROVE Register!Next
  <2>1. Current' = Current
    BY <1>0, <1>7 DEF Answer
  <2>2. Register!End(c)
    BY <1>7, <2>1 DEF Answer, Register!End, Current
  <2> QED BY <2>2 DEF Register!Next
<1>8. ASSUME NEW c \in Callers, NEW t \in Tokens, PutPat(c, t) PROVE Register!Next
  <2>1. Current' = Current
    BY <1>0, <1>8 DEF PutPat
  <2>2. Register!Offer(c, t)
    BY <1>8, <2>1 DEF PutPat, Register!Offer, Current
  <2> QED BY <2>2 DEF Register!Next
<1>9. CASE DeletePat
  <2>1. Current' = Current
    BY <1>0, <1>9 DEF DeletePat
  <2>2. Register!Ask
    BY <1>9, <2>1 DEF DeletePat, Register!Ask, Current
  <2> QED BY <2>2 DEF Register!Next
<1>10. CASE ClearPAT
  <2>1. Current' = None
    BY <1>10 DEF ClearPAT, Deactivated, Current, Active
  <2>2. Register!Clear
    BY <1>10, <2>1 DEF ClearPAT, Register!Clear, Current
  <2> QED BY <2>2 DEF Register!Next
<1>11. CASE ClearPATFails
  <2>1. Current' = Current
    BY <1>0, <1>11 DEF ClearPATFails
  <2>2. Register!Clear
    BY <1>11, <2>1 DEF ClearPATFails, Register!Clear, Current
  <2> QED BY <2>2 DEF Register!Next
<1>12. CASE StopTracker
  BY <1>0, <1>1, <1>12 DEF StopTracker
<1>13. ASSUME NEW t \in Tokens, StartWithEnv(t) PROVE Register!Next
  <2>1. Current' = Current
    BY <1>0, <1>13 DEF StartWithEnv
  <2>2. Register!Offer(Startup, t)
    BY <1>13, <2>1 DEF StartWithEnv, Register!Offer, Current
  <2> QED BY <2>2 DEF Register!Next
<1>14. CASE StartStored
  BY <1>0, <1>1, <1>14 DEF StartStored
<1>15. ASSUME NEW b \in BOOLEAN, CheckStored(b)
       PROVE  Register!Next \/ UNCHANGED Register!registerVars
  <2>1. Current' = Current
    BY <1>0, <1>15 DEF CheckStored
  <2>2. CASE b
    <3>1. Register!Ask
      BY <1>15, <2>1, <2>2 DEF CheckStored, Register!Ask, Current
    <3> QED BY <3>1 DEF Register!Next
  <2>3. CASE ~b
    BY <1>1, <1>15, <2>1, <2>3 DEF CheckStored
  <2> QED BY <2>2, <2>3
<1>16. ASSUME NEW b \in BOOLEAN, ClearRefused(b) PROVE Register!Next
  <2>1. CASE b
    <3>1. Current' = None
      BY <1>16, <2>1 DEF ClearRefused, Deactivated, Current, Active
    <3>2. Register!Clear
      BY <1>16, <2>1, <3>1 DEF ClearRefused, Register!Clear, Current
    <3> QED BY <3>2 DEF Register!Next
  <2>2. CASE ~b
    <3>1. Current' = Current
      BY <1>0, <1>16, <2>2 DEF ClearRefused
    <3>2. Register!Clear
      BY <1>16, <2>2, <3>1 DEF ClearRefused, Register!Clear, Current
    <3> QED BY <3>2 DEF Register!Next
  <2> QED BY <2>1, <2>2
<1>17. CASE Crash
  <2>1. Current' = Current
    BY <1>0, <1>17 DEF Crash
  <2>2. Register!Die
    BY <1>17, <2>1 DEF Crash, Register!Die, Current, Idle, NoTokens
  <2> QED BY <2>2 DEF Register!Next
<1>18. ASSUME \/ LoopTick \/ StoreList \/ QueryFails \/ LoopEnds \/ GetPage
              \/ CheckSetupMode \/ CheckSetupModeFails \/ GetCurrentUsername
              \/ GetCurrentUsernameFails \/ PageDone
       PROVE  UNCHANGED Register!registerVars
  BY <1>2, <1>18 DEF LoopTick, StoreList, QueryFails, LoopEnds, GetPage, CheckSetupMode,
         CheckSetupModeFails, GetCurrentUsername, GetCurrentUsernameFails, PageDone
<1>19. CASE UNCHANGED patVars
  BY <1>2, <1>19 DEF patVars
<1> QED
  BY <1>3, <1>4, <1>5, <1>6, <1>7, <1>8, <1>9, <1>10, <1>11, <1>12, <1>13, <1>14,
     <1>15, <1>16, <1>17, <1>18, <1>19 DEF Next

(* Rows, transactions, failures and crashes implement the register, for    *)
(* any number of PATs and of clients who store and clear them at once.     *)
THEOREM StoreImplementsRegister == Spec => ImplementsRegister
<1>1. Init => Register!Init
  BY DEF Init, Register!Init, Active, Empty, Idle, NoTokens, Callers
<1>2. PatInv /\ PatInv' /\ [Next]_patVars => [Register!Next]_(Register!registerVars)
  BY RegisterStep
<1> QED BY <1>1, <1>2, PatInvariant, PTL DEF Spec, ImplementsRegister, Register!Spec
=============================================================================
