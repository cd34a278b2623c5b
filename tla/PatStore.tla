------------------------------ MODULE PatStore ------------------------------
(***************************************************************************)
(* The table of PATs: StorePAT, GetPAT and ClearPAT of                     *)
(* internal/storage/storage.go statement by statement, called by initPAT   *)
(* (main.go), the handlers of PUT and DELETE /api/v0/config/pat and GET /  *)
(* (internal/server/server.go), and the refresh loop.                      *)
(*                                                                         *)
(* A row is reduced to its token and its flag: user name and expiry belong *)
(* to the token.  Validation is external: only valid tokens are stored.    *)
(* Every statement may fail, and the process may die between any two.      *)
(***************************************************************************)
CONSTANTS
    Tokens,   \* PATs
    None,     \* no PAT
    Clients,  \* each makes one PUT request at a time
    Startup   \* initPAT, which stores the PAT of the environment

ASSUME NoneAssumption == None \notin Tokens
ASSUME StartupAssumption == Startup \notin Clients /\ None \notin Clients \cup {Startup}

Callers == Clients \cup {Startup}

VARIABLES
    row,      \* table pat, as committed: a status for each token
    tx,       \* the table as the open transaction sees it
    writer,   \* the caller whose transaction holds the write lock, or None
    proc,     \* the process, see Processes
    pc,       \* what StorePAT did last for each caller
    token,    \* the PAT each caller stores
    deletion, \* "none", "asked": before ClearPAT, "cleared": before Stop
    stopped,  \* tracker.Stop was called
    loop,     \* startRefreshLoop: "tick", "query" or "ended"
    using,    \* storedPat: the PAT the loop queries with
    owner,    \* the PAT the stored list was fetched with
    page,     \* GET /: "none", "listed", "checked" or "shown"
    setup,    \* setupMode: no PAT was found
    user,     \* currentUser: the PAT it comes from
    seen      \* history: the PATs of users, and None when asked to clear
              \* them, since the request for the page came

table == <<row, tx, writer>>
callers == <<pc, token>>
fetching == <<loop, using, owner>>
rendering == <<page, setup, user, seen>>
patVars == <<table, proc, callers, deletion, stopped, fetching, rendering>>

Statuses == {"none", "inactive", "active"}
Processes == {"down", "startup", "checking", "refused", "up"}
Empty == [t \in Tokens |-> "none"]
Idle == [c \in Callers |-> "idle"]
NoTokens == [c \in Callers |-> None]

InTransaction == {"deactivated", "inserted"}

TypeOK ==
    /\ row \in [Tokens -> Statuses] /\ tx \in [Tokens -> Statuses]
    /\ writer \in Callers \cup {None}
    /\ proc \in Processes
    /\ pc \in [Callers -> {"idle", "validated", "stored"} \cup InTransaction]
    /\ token \in [Callers -> Tokens \cup {None}]
    /\ \A c \in Callers : /\ token[c] = None <=> pc[c] = "idle"
                          /\ writer = c <=> pc[c] \in InTransaction
    /\ deletion \in {"none", "asked", "cleared"}
    /\ stopped \in BOOLEAN
    /\ loop \in {"tick", "query", "ended"}
    /\ using \in Tokens \cup {None} /\ owner \in Tokens \cup {None}
    /\ page \in {"none", "listed", "checked", "shown"}
    /\ setup \in BOOLEAN
    /\ user \in Tokens \cup {None}
    /\ seen \in SUBSET (Tokens \cup {None})

Init ==
    /\ row = Empty /\ tx = Empty /\ writer = None
    /\ proc = "down"
    /\ pc = Idle /\ token = NoTokens
    /\ deletion = "none" /\ stopped = FALSE
    /\ loop = "tick" /\ using = None /\ owner = None
    /\ page = "none" /\ setup = FALSE /\ user = None /\ seen = {}

Active(r) == {t \in Tokens : r[t] = "active"}

(* GetActivePAT: "where active = 1 limit 1", in no particular order.       *)
GetPAT == IF Active(row) = {} THEN {None} ELSE Active(row)

Deactivated(r) == [t \in Tokens |-> IF r[t] = "active" THEN "inactive" ELSE r[t]]

(* p is what users have set the PAT to while the page is being made.       *)
Watch(p) == seen' = IF page \in {"none", "shown"} THEN seen ELSE seen \cup {p}

----------------------------------------------------------------------------
(* StorePAT.  initPAT calls it before anything else runs.                  *)

Runs(c) == proc = IF c = Startup THEN "startup" ELSE "up"

Store(c, from, to) ==
    /\ Runs(c)
    /\ pc[c] = from
    /\ pc' = [pc EXCEPT ![c] = to]
    /\ UNCHANGED <<proc, token, deletion, stopped, fetching, page, setup, user>>

PutPat(c, t) ==
    /\ c \in Clients /\ Runs(c)
    /\ pc[c] = "idle"
    /\ pc' = [pc EXCEPT ![c] = "validated"]
    /\ token' = [token EXCEPT ![c] = t]
    /\ UNCHANGED <<table, proc, deletion, stopped, fetching, rendering>>

DeactivateAtOnce(c) ==
    /\ Store(c, "validated", "deactivated")
    /\ writer = None
    /\ writer' = c
    /\ row' = Deactivated(row) /\ tx' = row'
    /\ UNCHANGED seen

DeactivateNone(c) ==
    /\ Store(c, "validated", "deactivated")
    /\ writer = None
    /\ writer' = c
    /\ tx' = row
    /\ UNCHANGED <<row, seen>>

(* BeginTx takes no lock yet; the first statement that writes does, and    *)
(* waits for whoever has it.                                               *)
DeactivateAllPATs(c) ==
    /\ Store(c, "validated", "deactivated")
    /\ writer = None
    /\ writer' = c
    /\ tx' = Deactivated(row)
    /\ UNCHANGED <<row, seen>>

(* "insert or replace": the token may have a row already.                  *)
InsertPAT(c) ==
    /\ Store(c, "deactivated", "inserted")
    /\ tx' = [tx EXCEPT ![token[c]] = "active"]
    /\ UNCHANGED <<row, writer, seen>>

Commit(c) ==
    /\ Store(c, "inserted", "stored")
    /\ row' = tx /\ tx' = Empty
    /\ writer' = None
    /\ Watch(token[c])

StorePATFailsUnreleased(c) ==
    /\ Runs(c)
    /\ pc[c] \in {"validated", "deactivated", "inserted"}
    /\ pc' = [pc EXCEPT ![c] = "idle"]
    /\ token' = [token EXCEPT ![c] = None]
    /\ proc' = IF c = Startup THEN "down" ELSE proc
    /\ UNCHANGED <<table, deletion, stopped, fetching, rendering>>

(* Any of these fails, "database is locked" for one, and is rolled back.   *)
(* In initPAT that ends the process.                                       *)
StorePATFails(c) ==
    /\ Runs(c)
    /\ pc[c] \in {"validated", "deactivated", "inserted"}
    /\ pc' = [pc EXCEPT ![c] = "idle"]
    /\ token' = [token EXCEPT ![c] = None]
    /\ writer' = IF writer = c THEN None ELSE writer
    /\ tx' = IF writer = c THEN Empty ELSE tx
    /\ proc' = IF c = Startup THEN "down" ELSE proc
    /\ UNCHANGED <<row, deletion, stopped, fetching, rendering>>

(* The answer to PUT; the refresh it asks for is the tracker's affair.     *)
Answer(c) ==
    /\ Runs(c)
    /\ pc[c] = "stored"
    /\ pc' = [pc EXCEPT ![c] = "idle"]
    /\ token' = [token EXCEPT ![c] = None]
    /\ proc' = "up"
    /\ UNCHANGED <<table, deletion, stopped, fetching, rendering>>

----------------------------------------------------------------------------
(* DELETE /api/v0/config/pat: ClearPAT, one statement, then Stop.          *)

DeletePat ==
    /\ proc = "up" /\ deletion = "none"
    /\ deletion' = "asked"
    /\ UNCHANGED <<table, proc, callers, stopped, fetching, rendering>>

ClearPAT ==
    /\ deletion = "asked" /\ writer = None
    /\ row' = Deactivated(row)
    /\ deletion' = "cleared"
    /\ Watch(None)
    /\ UNCHANGED <<tx, writer, proc, callers, stopped, fetching, page, setup, user>>

ClearPATFails ==
    /\ deletion = "asked"
    /\ deletion' = "none"
    /\ UNCHANGED <<table, proc, callers, stopped, fetching, rendering>>

StopTracker ==
    /\ deletion = "cleared"
    /\ deletion' = "none"
    /\ stopped' = TRUE
    /\ UNCHANGED <<table, proc, callers, fetching, rendering>>

----------------------------------------------------------------------------
(* main and initPAT. *)

StartWithEnv(t) ==
    /\ proc = "down"
    /\ proc' = "startup"
    /\ pc' = [pc EXCEPT ![Startup] = "validated"]
    /\ token' = [token EXCEPT ![Startup] = t]
    /\ UNCHANGED <<table, deletion, stopped, fetching, rendering>>

(* No or no valid PAT in the environment.  Setup mode if none is found.    *)
StartStored ==
    /\ proc = "down"
    /\ proc' = IF GetPAT = {None} THEN "up" ELSE "checking"
    /\ UNCHANGED <<table, callers, deletion, stopped, fetching, rendering>>

(* A PAT that cannot be read or validated stays.                           *)
CheckStored(refused) ==
    /\ proc = "checking"
    /\ proc' = IF refused THEN "refused" ELSE "up"
    /\ UNCHANGED <<table, callers, deletion, stopped, fetching, rendering>>

ClearRefused(done) ==
    /\ proc = "refused"
    /\ row' = IF done THEN Deactivated(row) ELSE row
    /\ proc' = "up"
    /\ UNCHANGED <<tx, writer, callers, deletion, stopped, fetching, rendering>>

(* SQLite rolls the open transaction back when the file is opened again.   *)
Crash ==
    /\ proc # "down"
    /\ proc' = "down"
    /\ tx' = Empty /\ writer' = None
    /\ pc' = Idle /\ token' = NoTokens
    /\ deletion' = "none" /\ stopped' = FALSE
    /\ loop' = "tick" /\ using' = None
    /\ page' = "none" /\ setup' = FALSE /\ user' = None /\ seen' = {}
    /\ UNCHANGED <<row, owner>>

----------------------------------------------------------------------------
(* startRefreshLoop, at the ticks that pass its gates.  A tick may still   *)
(* come after Stop.                                                        *)
LoopTickKeepsPat ==
    /\ proc = "up" /\ loop = "tick"
    /\ \E p \in GetPAT :
          /\ p # None
          /\ using' = IF using = None THEN p ELSE using
    /\ loop' = "query"
    /\ UNCHANGED <<table, proc, callers, deletion, stopped, owner, rendering>>

LoopTick ==
    /\ proc = "up" /\ loop = "tick"
    /\ \E p \in GetPAT : p # None /\ using' = p
    /\ loop' = "query"
    /\ UNCHANGED <<table, proc, callers, deletion, stopped, owner, rendering>>

(* The list is stored, or GitHub or the database fails.                    *)
StoreList ==
    /\ proc = "up" /\ loop = "query"
    /\ owner' = using
    /\ loop' = "tick"
    /\ UNCHANGED <<table, proc, callers, deletion, stopped, using, rendering>>

QueryFails ==
    /\ proc = "up" /\ loop = "query"
    /\ loop' = "tick"
    /\ UNCHANGED <<table, proc, callers, deletion, stopped, using, owner, rendering>>

LoopEnds ==
    /\ proc = "up" /\ loop = "tick" /\ stopped
    /\ loop' = "ended"
    /\ UNCHANGED <<table, proc, callers, deletion, stopped, using, owner, rendering>>

----------------------------------------------------------------------------
(* GET / reads the PAT twice: to tell whether there is one, and for its    *)
(* user name.  When that fails it takes it for missing.                    *)
GetPage ==
    /\ proc = "up" /\ page = "none"
    /\ page' = "listed"
    /\ seen' = GetPAT
    /\ UNCHANGED <<table, proc, callers, deletion, stopped, fetching, setup, user>>

CheckSetupMode ==
    /\ page = "listed"
    /\ page' = "checked"
    /\ \E p \in GetPAT : setup' = (p = None)
    /\ UNCHANGED <<table, proc, callers, deletion, stopped, fetching, user, seen>>

CheckSetupModeFails ==
    /\ page = "listed"
    /\ page' = "checked"
    /\ setup' = TRUE
    /\ seen' = seen \cup {None}
    /\ UNCHANGED <<table, proc, callers, deletion, stopped, fetching, user>>

GetCurrentUsername ==
    /\ page = "checked"
    /\ page' = "shown"
    /\ user' \in GetPAT
    /\ UNCHANGED <<table, proc, callers, deletion, stopped, fetching, setup, seen>>

GetCurrentUsernameFails ==
    /\ page = "checked"
    /\ page' = "shown"
    /\ user' = None
    /\ seen' = seen \cup {None}
    /\ UNCHANGED <<table, proc, callers, deletion, stopped, fetching, setup>>

PageDone ==
    /\ page = "shown"
    /\ page' = "none" /\ setup' = FALSE /\ user' = None /\ seen' = {}
    /\ UNCHANGED <<table, proc, callers, deletion, stopped, fetching>>

----------------------------------------------------------------------------
Next ==
    \/ \E c \in Callers :
          \/ DeactivateAllPATs(c)
          \/ InsertPAT(c)
          \/ Commit(c)
          \/ StorePATFails(c)
          \/ Answer(c)
          \/ \E t \in Tokens : PutPat(c, t)
    \/ DeletePat
    \/ ClearPAT
    \/ ClearPATFails
    \/ StopTracker
    \/ \E t \in Tokens : StartWithEnv(t)
    \/ StartStored
    \/ \E b \in BOOLEAN : CheckStored(b) \/ ClearRefused(b)
    \/ Crash
    \/ LoopTick
    \/ StoreList
    \/ QueryFails
    \/ LoopEnds
    \/ GetPage
    \/ CheckSetupMode
    \/ CheckSetupModeFails
    \/ GetCurrentUsername
    \/ GetCurrentUsernameFails
    \/ PageDone

Spec == Init /\ [][Next]_patVars

(* The loop ticks again and again (PollingGoesOn of module Daemon) and     *)
(* GitHub answers well if asked again and again.                           *)
FairSpec == Spec /\ WF_patVars(LoopTick) /\ SF_patVars(StoreList)

----------------------------------------------------------------------------
(* There is one PAT at most, whoever stores and clears them at once: no    *)
(* reader has to choose, and none that was replaced is used.               *)
AtMostOneActive == \A t, u \in Active(row) : t = u

(* The rows, transactions, failures and crashes implement a register: a    *)
(* PAT is replaced at once, kept when storing its successor fails, and     *)
(* cleared only when asked.                                                *)
Register == INSTANCE PatRegister WITH
    current <- IF Active(row) = {} THEN None ELSE CHOOSE t \in Active(row) : TRUE,
    offered <- token,
    answered <- {c \in Callers : pc[c] = "stored"},
    clearing <- deletion = "asked" \/ proc = "refused"

ImplementsRegister == Register!Spec

(* A page is shown in setup mode, or for no user, only if there was no PAT *)
(* when its request came, it was cleared since or reading it failed, and   *)
(* never for a user whose PAT was gone before: nobody notices a PAT being  *)
(* replaced, whichever of the two reads falls into that.                   *)
PageKnowsItsUser ==
    page = "shown" => /\ user \in seen
                      /\ setup => None \in seen
                      /\ ~setup => seen \cap Tokens # {}

(* Once a PAT stays, so does its list: the one of the PAT before is        *)
(* replaced, also when a query with that PAT was under way.                *)
NewPatTakesOver ==
    \A t \in Tokens :
        <>[](proc = "up" /\ ~stopped /\ GetPAT = {t}) => <>[](owner = t)

----------------------------------------------------------------------------
(* The parts that make the invariants inductive: what an open transaction  *)
(* is about to commit, what has been seen at each step of the page, and    *)
(* that nothing else runs while the process starts.                        *)

TransactionInOrder ==
    \A c \in Callers :
        /\ pc[c] = "deactivated" => Active(tx) = {}
        /\ pc[c] = "inserted" => Active(tx) = {token[c]}

PageInOrder ==
    /\ page \in {"listed", "checked"} => GetPAT \subseteq seen
    /\ page \in {"checked", "shown"} =>
         /\ setup => None \in seen
         /\ ~setup => seen \cap Tokens # {}
    /\ page = "shown" => user \in seen

StartsAlone ==
    /\ proc # "up" => deletion = "none" /\ page = "none"
    /\ proc # "startup" => pc[Startup] = "idle"

PatInv ==
    /\ TypeOK
    /\ AtMostOneActive
    /\ TransactionInOrder
    /\ PageInOrder
    /\ StartsAlone
=============================================================================
