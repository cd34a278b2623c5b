------------------------------ MODULE Pipeline ------------------------------
(***************************************************************************)
(* One poll from GitHub to what is shown: people talk (Conversation), elly *)
(* asks (GithubCalls), reads the answer (Threads), stores the rows, and    *)
(* shows them by the page or the API (Ranking).                            *)
(*                                                                         *)
(* GitHub's failures do not depend on what was said, and the order of the  *)
(* list not on how the points came about: both are told apart only while   *)
(* nothing has been said about one of the pull requests.                   *)
(***************************************************************************)
EXTENDS Ranking, GithubCalls, Conversation

CONSTANTS GoodAnswer, QuietNode
ASSUME QuietAssumption == QuietNode \in Nodes
ASSUME GoodAnswerAssumption ==
    GoodAnswer \in Answers /\ LoopVerdict(GoodAnswer) = "succeeded"
      /\ GoodAnswer.errors = "none"

pipeVars == <<rankVars, callVars, talkVars>>

PipeInit == Init /\ CallsInit /\ TalkInit

Talk ==
    /\ call = "none"
    /\ TalkNext
    /\ UNCHANGED <<rankVars, callVars>>

NothingSaid == events = 0 /\ node = QuietNode

Request ==
    /\ \/ NothingSaid /\ CallsNext
       \/ ~NothingSaid /\ (Start("query") \/ QueryAnswered(GoodAnswer))
    /\ UNCHANGED <<rankVars, talkVars>>

(* When the row that is replaced may have been buried at: with the date of *)
(* an earlier answer, or of one whose date could not be read.              *)
BuriedDates ==
    {d \in {ZeroTime} \cup {n.updatedAt : n \in Nodes} : d <= node.updatedAt}

(* StoreRepoPrs, of a pull request whose row was buried with this date.    *)
CarriedOverAnyDate(pr, date) == [pr EXCEPT !.buried = TRUE]
CarriedOver(pr, date) == [pr EXCEPT !.buried = pr.updated <= date]

(* Its row was not marked, or the marks could not be read, or it was.      *)
Rows(pr) == {pr} \cup {CarriedOver(pr, date) : date \in BuriedDates}

(* An answer with errors, other than RATE_LIMITED, and no data is a list   *)
(* without pull requests; one behind the first 100 is not in the list.     *)
AnsweredLists ==
    IF query.errors # "none" THEN {<<>>}
    ELSE {<<>>} \cup {<<row>> : row \in Rows(ViewPr(node, User))}
           \cup IF NothingSaid /\ query = GoodAnswer
                THEN BoundedSeq(Samples, MaxPrs) ELSE {}

Read ==
    /\ call = "query" /\ verdict = "succeeded"
    /\ \E prs \in AnsweredLists : Store(prs)
    /\ UNCHANGED <<callVars, talkVars>>

ShowList ==
    /\ GetPage \/ (\E n \in MinPoints : GetPrs(n)) \/ SwapDown \/ NextElement \/ Show
    /\ UNCHANGED <<callVars, talkVars>>

PipeNext == Talk \/ Request \/ Read \/ ShowList \/ (Done /\ UNCHANGED pipeVars)

PipeSpec == PipeInit /\ [][PipeNext]_pipeVars

----------------------------------------------------------------------------
(* What somebody wrote on the user's own pull request, in a thread that is *)
(* open, reaches the status bar: whatever else is said, and though the     *)
(* pull request was buried before, the count of those with at least one    *)
(* point has it (contrib/elly-i3blocks asks for minPoints=1) until the     *)
(* user replies or reacts.  It has to be among those GitHub answers, and   *)
(* one that was buried stays so when its date cannot be read.              *)
CalledToOwnPr ==
    OwnPr /\ \E k \in 1..ThreadLimit :
                LET t == Nth(k)
                IN  /\ ~t.hidden /\ t.comments # <<>>
                    /\ t.comments[Len(t.comments)].by # User
                    /\ ~UserReactedToComment(t.comments[Len(t.comments)], User)

TurnReachesTheBar ==
    /\ Shown("api") /\ minimum = 1 /\ CalledToOwnPr
    /\ stored # <<>> /\ (node.readable \/ ~stored[1].buried)
    => Len(ranked) = 1
=============================================================================
