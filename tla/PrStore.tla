------------------------------ MODULE PrStore ------------------------------
(***************************************************************************)
(* The table of pull requests: StoreRepoPrs of internal/storage/storage.go *)
(* statement by statement, run by the refresh loop, against the bury and   *)
(* unbury requests of internal/server/server.go.                           *)
(*                                                                         *)
(* There is no transaction around StoreRepoPrs: a request, a failure or a  *)
(* crash may fall between any two of its statements, and what the table    *)
(* holds then is what the program goes on with.  Every statement may fail  *)
(* (a locked or broken database).                                          *)
(*                                                                         *)
(* A row is reduced to its url, its last_updated and its buried flag.      *)
(***************************************************************************)
EXTENDS Integers

CONSTANTS
    Urls,        \* the pull requests
    MaxVersion,  \* bound on how often a pull request is updated
    MaxFetches,  \* bound on how many lists are fetched
    MayFail      \* whether statements fail and the process may die

ASSUME BoundsAssumption == MaxVersion \in Nat \ {0} /\ MaxFetches \in Nat
ASSUME MayFailAssumption == MayFail \in BOOLEAN

VARIABLES
    github,   \* the updatedAt GitHub has for each pull request
    prs,      \* table prs: the urls that have a row
    updated,  \* column last_updated, ZeroTime where there is no row
    buried,   \* column buried: the urls whose row has it set
    stamp,    \* meta.last_fetched: the fetch it was written by, 0 if none
    pc,       \* the statement the loop runs next, "down" while crashed
    batch,    \* orderedPrs: the urls
    version,  \* orderedPrs: their LastUpdated, ZeroTime for a url not in it
    bury,     \* orderedPrs: the urls with Buried set
    pending   \* orderedPrs: those not inserted yet

VARIABLES     \* history, read by no guard
    fetchNo,   \* the number of the last fetch
    origin,    \* the fetch each row comes from
    target,    \* the list the table is to hold since it was last emptied
    targetNo,  \* and the fetch that list is from
    buriedAt,  \* the version a bury request last found the row at, or Never
    held       \* marks nothing has happened to that would explain their loss

table == <<prs, updated, buried>>
memory == <<batch, version, bury, pending>>
emptied == <<target, targetNo>>
marks == <<buriedAt, held>>
storeVars == <<github, table, stamp, pc, memory, fetchNo, origin, emptied, marks>>

(* The zero time is what an updatedAt that cannot be read is stored as: it *)
(* is before every time GitHub gives.                                      *)
ZeroTime == 0
Versions == ZeroTime..MaxVersion
Never == -1
None == [u \in Urls |-> 0]

TypeOK ==
    /\ github \in [Urls -> Versions]
    /\ prs \in SUBSET Urls
    /\ updated \in [Urls -> Versions]
    /\ buried \in SUBSET prs
    /\ stamp \in 0..MaxFetches
    /\ pc \in {"idle", "read", "delete", "insert", "down"}
    /\ batch \in SUBSET Urls
    /\ version \in [Urls -> Versions]
    /\ bury \in SUBSET batch
    /\ pending \in SUBSET batch
    /\ fetchNo \in 0..MaxFetches
    /\ origin \in [Urls -> 0..MaxFetches]
    /\ target \in SUBSET Urls
    /\ targetNo \in 0..MaxFetches
    /\ buriedAt \in [Urls -> Versions \cup {Never}]
    /\ held \in SUBSET Urls

Init ==
    /\ github = [u \in Urls |-> 1]
    /\ prs = {} /\ updated = None /\ buried = {}
    /\ stamp = 0
    /\ pc = "idle"
    /\ batch = {} /\ version = None /\ bury = {} /\ pending = {}
    /\ fetchNo = 0 /\ origin = None
    /\ target = {} /\ targetNo = 0
    /\ buriedAt = [u \in Urls |-> Never] /\ held = {}

Forget == batch' = {} /\ version' = None /\ bury' = {} /\ pending' = {}

----------------------------------------------------------------------------
(* A pull request is updated on GitHub.                                    *)
UpdatePr(u) ==
    /\ github[u] < MaxVersion
    /\ github' = [github EXCEPT ![u] = @ + 1]
    /\ UNCHANGED <<table, stamp, pc, memory, fetchNo, origin, emptied, marks>>

(* QueryGithub: any of the pull requests, as they are on GitHub then, R    *)
(* those whose updatedAt can be read.  Its list never has Buried set.      *)
Fetch(S, R) ==
    /\ pc = "idle"
    /\ fetchNo < MaxFetches
    /\ fetchNo' = fetchNo + 1
    /\ batch' = S
    /\ version' = [u \in Urls |-> IF u \in R THEN github[u] ELSE ZeroTime]
    /\ bury' = {}
    /\ pending' = S
    /\ pc' = "read"
    /\ UNCHANGED <<github, table, stamp, origin, emptied, marks>>

----------------------------------------------------------------------------
(* StoreRepoPrs *)

UnburiedIfNotOlder == {u \in batch \cap buried : version[u] >= updated[u]}
UnburiedNever == {}
Unburied == {u \in batch \cap buried : version[u] > updated[u]}

(* A buried pull request stays so until it was updated after that.         *)
KeepsBuried == (batch \cap buried) \ Unburied

(* BuriedPrs, and the loop that carries the marks over to the new list.    *)
ReadBuried ==
    /\ pc = "read"
    /\ bury' = KeepsBuried
    /\ held' = held \cap {u \in batch : u \in prs /\ version[u] <= updated[u]}
    /\ pc' = "delete"
    /\ UNCHANGED <<github, table, stamp, batch, version, pending, fetchNo, origin,
                   emptied, buriedAt>>

(* "throwing away old buried-status" *)
ReadBuriedFails ==
    /\ MayFail
    /\ pc = "read"
    /\ held' = {}
    /\ pc' = "delete"
    /\ UNCHANGED <<github, table, stamp, memory, fetchNo, origin, emptied, buriedAt>>

DeletePrs ==
    /\ pc = "delete"
    /\ prs' = {} /\ updated' = None /\ buried' = {}
    /\ origin' = None
    /\ target' = batch /\ targetNo' = fetchNo
    /\ pc' = "insert"
    /\ UNCHANGED <<github, stamp, memory, fetchNo, marks>>

DeletePrsFailsIgnored ==
    /\ MayFail
    /\ pc = "delete"
    /\ target' = batch /\ targetNo' = fetchNo
    /\ pc' = "insert"
    /\ UNCHANGED <<github, table, origin, stamp, memory, fetchNo, marks>>

(* StoreRepoPrs returns the error, the loop logs it and waits for the next *)
(* tick.                                                                   *)
DeletePrsFails ==
    /\ MayFail
    /\ pc = "delete"
    /\ pc' = "idle"
    /\ Forget
    /\ UNCHANGED <<github, table, origin, stamp, fetchNo, emptied, marks>>

(* One insert of the loop over orderedPrs.  Their order is left open.      *)
CreatePr(u) ==
    /\ pc = "insert"
    /\ u \in pending
    /\ prs' = prs \cup {u}
    /\ updated' = [updated EXCEPT ![u] = version[u]]
    /\ buried' = IF u \in bury THEN buried \cup {u} ELSE buried
    /\ origin' = [origin EXCEPT ![u] = fetchNo]
    /\ pending' = pending \ {u}
    /\ UNCHANGED <<github, stamp, pc, batch, version, bury, fetchNo, emptied, marks>>

StoreLastFetchedEarly ==
    /\ pc = "insert"
    /\ stamp' = fetchNo
    /\ pc' = IF pending = {} THEN "idle" ELSE "insert"
    /\ IF pending = {} THEN Forget ELSE UNCHANGED memory
    /\ UNCHANGED <<github, table, fetchNo, origin, emptied, marks>>

StoreLastFetched ==
    /\ pc = "insert"
    /\ pending = {}
    /\ stamp' = fetchNo
    /\ pc' = "idle"
    /\ Forget
    /\ UNCHANGED <<github, table, fetchNo, origin, emptied, marks>>

StoreLastFetchedFails ==
    /\ MayFail
    /\ pc = "insert"
    /\ pending = {}
    /\ pc' = "idle"
    /\ Forget
    /\ UNCHANGED <<github, table, stamp, fetchNo, origin, emptied, marks>>

----------------------------------------------------------------------------
(* The process dies, of a failed CreatePr (check panics outside of any     *)
(* request) or for another reason, and is started again by systemd.  What  *)
(* is in the database survives.                                            *)
Crash ==
    /\ MayFail
    /\ pc # "down"
    /\ pc' = "down"
    /\ Forget
    /\ held' = held \cap prs
    /\ UNCHANGED <<github, table, stamp, fetchNo, origin, emptied, buriedAt>>

Restart ==
    /\ pc = "down"
    /\ pc' = "idle"
    /\ UNCHANGED <<github, table, stamp, memory, fetchNo, origin, emptied, marks>>

----------------------------------------------------------------------------
(* POST /api/v0/prs/{prUrl}/{action}, answered by 204 No Content.  Each is *)
(* one UPDATE, which may find no row.  One that fails changes nothing.     *)

(* The marks were read and this row is not written yet: whatever is        *)
(* written to it now is overwritten.                                       *)
Raced(u) == pc = "delete" \/ (pc = "insert" /\ u \in pending)

BuryWithoutRow(u) ==
    /\ pc # "down"
    /\ buried' = buried \cup {u}
    /\ buriedAt' = [buriedAt EXCEPT ![u] = updated[u]]
    /\ held' = IF ~Raced(u) THEN held \cup {u} ELSE held
    /\ UNCHANGED <<github, prs, updated, stamp, pc, memory, fetchNo, origin, emptied>>

Bury(u) ==
    /\ pc # "down"
    /\ buried' = IF u \in prs THEN buried \cup {u} ELSE buried
    /\ buriedAt' = IF u \in prs THEN [buriedAt EXCEPT ![u] = updated[u]]
                                ELSE buriedAt
    /\ held' = IF u \in prs /\ ~Raced(u) THEN held \cup {u} ELSE held
    /\ UNCHANGED <<github, prs, updated, stamp, pc, memory, fetchNo, origin, emptied>>

Unbury(u) ==
    /\ pc # "down"
    /\ buried' = buried \ {u}
    /\ buriedAt' = IF Raced(u) THEN buriedAt ELSE [buriedAt EXCEPT ![u] = Never]
    /\ held' = held \ {u}
    /\ UNCHANGED <<github, prs, updated, stamp, pc, memory, fetchNo, origin, emptied>>

----------------------------------------------------------------------------
Next ==
    \/ \E u \in Urls : UpdatePr(u) \/ CreatePr(u) \/ Bury(u) \/ Unbury(u)
    \/ \E S \in SUBSET Urls : \E R \in SUBSET S : Fetch(S, R)
    \/ ReadBuried
    \/ ReadBuriedFails
    \/ DeletePrs
    \/ DeletePrsFails
    \/ StoreLastFetched
    \/ StoreLastFetchedFails
    \/ Crash
    \/ Restart

Spec == Init /\ [][Next]_storeVars

----------------------------------------------------------------------------
(* A pull request is shown as buried only after the user asked for it and  *)
(* did not take it back in time, and only at the version it was buried at  *)
(* or at a date that could not be read: StoreRepoPrs never carries a mark  *)
(* over to a newer version, through any number of fetches, failures and    *)
(* crashes.                                                                *)
BuriedOnlyOnRequest ==
    \A u \in buried : buriedAt[u] # Never /\ updated[u] \in {buriedAt[u], ZeroTime}

(* A mark is lost only for a reason: the user took it back, the list has   *)
(* the pull request at a later date than the row (also one that was only   *)
(* unreadable before) or not at all, the marks could not be read, the      *)
(* process died before the row was written again, or the request came      *)
(* while StoreRepoPrs was between reading the marks and writing the row.   *)
MarksSurvive ==
    \A u \in held : u \in buried \/ (pc = "insert" /\ u \in pending)

(* The table never mixes the rows of two fetches, whatever failed or died  *)
(* in between: what is shown together was true together.                   *)
OneFetchAtATime == \A u \in prs : origin[u] = targetNo

(* last_fetched vouches for a complete list: a table left incomplete by a  *)
(* crash still has the stamp of an earlier fetch, which is what makes the  *)
(* loop fetch again after the restart.                                     *)
StampMeansComplete == stamp = targetNo => prs = target

(* StoreRepoPrs and the requests, with all their failures and crashes,     *)
(* implement the list of module PrList.                                    *)
List == INSTANCE PrList WITH
            whole <- prs = target,
            vouched <- stamp = targetNo /\ targetNo > 0

ImplementsList == List!Spec

(* They renew the list as module Renewal says, which Daemon is built on:   *)
(* here the age of the list is told in fetches.                            *)
Renewing == INSTANCE Renewal WITH
                at <- IF pc \in {"read", "delete"} THEN "taken"
                      ELSE IF pc = "insert" THEN "filling" ELSE "idle",
                whole <- prs = target,
                age <- fetchNo - stamp

RenewsInOrder == Renewing!Spec

(* What "b" promises, and what a 204 No Content tells the user: the pull   *)
(* request is pushed down.  Emptying the table then never drops a mark     *)
(* that is on a version still current in the new list.                     *)
BuryTakesEffect ==
    [][pc = "delete" /\ pc' = "insert"
         => \A u \in buried \cap batch : version[u] = updated[u] => u \in bury]_storeVars
----------------------------------------------------------------------------
(* The parts that make the invariants inductive: where each fetch number,  *)
(* each version and each mark stands at each statement.                    *)

NumbersInOrder ==
    /\ stamp <= targetNo /\ targetNo <= fetchNo
    /\ pc \in {"read", "delete"} => targetNo < fetchNo /\ pending = batch
    /\ pc = "insert" => /\ stamp < targetNo
                       /\ targetNo = fetchNo
                       /\ target = batch
                       /\ prs = batch \ pending

VersionsInOrder ==
    \A u \in Urls :
        /\ version[u] <= github[u]
        /\ u \in prs => updated[u] <= github[u]
        /\ pc \in {"read", "delete"} /\ u \in batch \cap prs =>
              version[u] = ZeroTime \/ updated[u] <= version[u]

MarksCarried ==
    /\ pc \in {"idle", "read", "down"} => held \subseteq buried
    /\ pc = "read" => bury = {}
    /\ pc = "delete" =>
         /\ held \subseteq buried \cap bury
         /\ \A u \in bury : u \in prs /\ version[u] \in {updated[u], ZeroTime}
    /\ pc \in {"delete", "insert"} =>
         \A u \in bury \cap pending :
            buriedAt[u] # Never /\ version[u] \in {buriedAt[u], ZeroTime}
    /\ pc = "insert" => held \subseteq buried \cup (bury \cap pending)

StoreInv ==
    /\ TypeOK
    /\ OneFetchAtATime
    /\ NumbersInOrder
    /\ StampMeansComplete
    /\ VersionsInOrder
    /\ BuriedOnlyOnRequest
    /\ MarksCarried
============================================================================
