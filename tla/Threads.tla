------------------------------- MODULE Threads -------------------------------
(***************************************************************************)
(* How an answered pull request is read: queryGithub and actionableThreads *)
(* of internal/github/github.go.  People are told apart by their logins,   *)
(* comments by who wrote them and who reacted.                             *)
(***************************************************************************)
EXTENDS Points, FiniteSets, Sequences, SequencesExt

CONSTANTS
    Bots,                       \* ignoredLastPrCommenters
    ThreadLimit, CommentLimit,  \* the query asks for the first 15 and 30,
    ReactionLimit,              \* for the first 7 to each of them,
    PrCommentLimit,             \* and for the last 5
    ZeroTime                    \* time.Time{}, the year 1

ASSUME BotsAssumption == Bots \subseteq People
ASSUME LimitsAssumption ==
    /\ ThreadLimit \in Nat \ {0} /\ CommentLimit \in Nat \ {0}
    /\ ReactionLimit \in Nat \ {0} /\ PrCommentLimit \in Nat \ {0}
ASSUME ZeroTimeAssumption == ZeroTime \in Int /\ ZeroTime < Now

(* reactions: who reacted, in that order, once for each kind of reaction.  *)
Comment == [by : People, reactions : Seq(People)]

(* hidden: collapsed, outdated or resolved. *)
Thread == [hidden : BOOLEAN, comments : Seq(Comment)]

(* A pull request as GitHub has it.  approved: one of the reviews that are *)
(* asked for approves it.                                                  *)
Node == [author : People, comments : Seq(People),
         reviewDecision : ReviewStatus, approved : BOOLEAN,
         isDraft : BOOLEAN, reviewRequests : Nat, changed : Nat,
         updatedAt : Int, readable : BOOLEAN,
         threads : Seq(Thread)]

FirstOf(n, s) == SubSeq(s, 1, IF Len(s) < n THEN Len(s) ELSE n)
LastOf(n, s) == SubSeq(s, IF Len(s) < n THEN 1 ELSE Len(s) - n + 1, Len(s))

(* The query text: what of it is answered. *)
AnsweredThread(t) ==
    LET first == FirstOf(CommentLimit, t.comments)
    IN  [t EXCEPT !.comments = [m \in DOMAIN first |->
            [first[m] EXCEPT !.reactions = FirstOf(ReactionLimit, @)]]]
AnsweredThreads(node) ==
    LET first == FirstOf(ThreadLimit, node.threads)
    IN  [k \in DOMAIN first |-> AnsweredThread(first[k])]
AnsweredComments(node) == LastOf(PrCommentLimit, node.comments)

----------------------------------------------------------------------------
UserReactedToComment(c, username) == username \in ToSet(c.reactions)
SomeoneElseReactedToComment(c, username) == ToSet(c.reactions) \ {username} # {}

(* The rules of actionableThreads, in their order, with ownPr.             *)
ThreadVerdictReactionFirst(t, ownPr, me) ==
    IF t.hidden \/ t.comments = <<>> THEN "nothing"
    ELSE LET last == t.comments[Len(t.comments)]
         IN  IF UserReactedToComment(last, me) THEN "nothing"
             ELSE IF ownPr THEN IF last.by = me THEN "nothing" ELSE "actionable"
             ELSE IF last.by = me THEN "waiting"
             ELSE IF t.comments[1].by = me THEN "actionable" ELSE "nothing"

ThreadVerdictAnyStarter(t, ownPr, me) ==
    IF t.hidden \/ t.comments = <<>> THEN "nothing"
    ELSE LET last == t.comments[Len(t.comments)]
             iCommentedLast == last.by = me
             iReacted == UserReactedToComment(last, me)
             theyReacted == SomeoneElseReactedToComment(last, me)
         IN  CASE ~iCommentedLast /\ ~iReacted -> "actionable"
               [] iCommentedLast /\ ownPr /\ theyReacted -> "actionable"
               [] iCommentedLast /\ ~ownPr -> "waiting"
               [] OTHER -> "nothing"

ThreadVerdict(t, ownPr, me) ==
    IF t.hidden \/ t.comments = <<>> THEN "nothing"
    ELSE LET last == t.comments[Len(t.comments)]
             iCommentedLast == last.by = me
             iReacted == UserReactedToComment(last, me)
             theyReacted == SomeoneElseReactedToComment(last, me)
             iStarted == t.comments[1].by = me
         IN  CASE ownPr /\ ~iCommentedLast /\ ~iReacted -> "actionable"
               [] ownPr /\ iCommentedLast /\ theyReacted -> "actionable"
               [] ~ownPr /\ iCommentedLast -> "waiting"
               [] iStarted /\ ~iCommentedLast /\ ~iReacted -> "actionable"
               [] OTHER -> "nothing"

(* actionableThreads counts each thread at most once.                      *)
ThreadsWith(node, verdict, me) ==
    {k \in DOMAIN AnsweredThreads(node) :
        ThreadVerdict(AnsweredThreads(node)[k], node.author = me, me) = verdict}
CountThreads(node, verdict, me) == Cardinality(ThreadsWith(node, verdict, me))

----------------------------------------------------------------------------
LastPrCommenterOfAll(comments) ==
    IF comments = <<>> THEN NoOne ELSE comments[Len(comments)]

(* The loop overwrites what it found before.                               *)
LastPrCommenter(comments) ==
    LET others == {k \in DOMAIN comments : comments[k] \notin Bots}
    IN  IF others = {} THEN NoOne
        ELSE comments[CHOOSE k \in others : \A l \in others : l <= k]

(* An approval counts where GitHub came to no decision.                    *)
ViewPr(node, me) ==
    [author |-> node.author,
     lastCommenter |-> LastPrCommenter(AnsweredComments(node)),
     reviewStatus |-> IF node.reviewDecision = "" /\ node.approved
                      THEN "APPROVED" ELSE node.reviewDecision,
     isDraft |-> node.isDraft,
     threadsActionable |-> CountThreads(node, "actionable", me),
     threadsWaiting |-> CountThreads(node, "waiting", me),
     changed |-> node.changed,
     reviewers |-> node.reviewRequests,
     updated |-> IF node.readable THEN node.updatedAt ELSE ZeroTime,
     buried |-> FALSE]
=============================================================================
