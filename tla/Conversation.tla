---------------------------- MODULE Conversation ----------------------------
(***************************************************************************)
(* What people do to one pull request between two polls, and what Threads  *)
(* and Points make of it.  The actions are GitHub's, not the program's.    *)
(***************************************************************************)
EXTENDS Threads

CONSTANTS
    Nodes,      \* the pull request before anybody said anything
    Talkers,    \* who takes part in review threads
    MaxEvents,  \* bounds on how much is said: in all, in how many threads,
    MaxThreads, MaxComments  \* and in each

ASSUME NodesAssumption ==
    Nodes \subseteq {n \in Node : /\ n.threads = <<>> /\ n.comments = <<>>
                                  /\ n.updatedAt < Now}
ASSUME TalkersAssumption == Talkers \subseteq People
ASSUME EventsAssumption ==
    MaxEvents \in Nat /\ MaxThreads \in Nat /\ MaxComments \in Nat

VARIABLES node, events

talkVars == <<node, events>>

TalkInit == node \in Nodes /\ events = 0

Event == events < MaxEvents /\ events' = events + 1

Says(p) == [by |-> p, reactions |-> <<>>]

(* Everything is said today.  GitHub renews a pull request's date with     *)
(* every comment; whether it does with a reaction, or when a thread is     *)
(* shut, makes no difference once a comment has renewed it.                *)

StartThread(p) ==
    /\ Event
    /\ Len(node.threads) < MaxThreads
    /\ node' = [node EXCEPT !.updatedAt = Now, !.threads =
                    Append(@, [hidden |-> FALSE, comments |-> <<Says(p)>>])]

Reply(p, k) ==
    /\ Event
    /\ Len(node.threads[k].comments) < MaxComments
    /\ node' = [node EXCEPT !.updatedAt = Now,
                            !.threads[k].comments = Append(@, Says(p))]

React(p, k, m) ==
    /\ Event
    /\ node' = [node EXCEPT !.threads[k].comments[m].reactions = Append(@, p)]

(* Resolved or reopened, outdated, collapsed or expanded. *)
Toggle(k) ==
    /\ Event
    /\ node' = [node EXCEPT !.threads[k].hidden = ~@]

CommentOnPr(p) ==
    /\ Event
    /\ node' = [node EXCEPT !.updatedAt = Now, !.comments = Append(@, p)]

TalkInThreads(p) ==
    \/ StartThread(p)
    \/ \E k \in DOMAIN node.threads :
          \/ Reply(p, k)
          \/ \E m \in DOMAIN node.threads[k].comments : React(p, k, m)

TalkNext ==
    \/ \E p \in Talkers : TalkInThreads(p)
    \/ \E k \in DOMAIN node.threads : Toggle(k)
    \/ \E p \in (Talkers \cup Bots) \ {NoOne} : CommentOnPr(p)

TalkSpec == TalkInit /\ [][TalkNext]_talkVars

----------------------------------------------------------------------------
Pr1 == ViewPr(node, User)
OwnPr == node.author = User

(* The k-th thread as it is answered; none yet is one without comments.    *)
Nth(k) ==
    IF k <= Len(node.threads) THEN AnsweredThread(node.threads[k])
    ELSE [hidden |-> FALSE, comments |-> <<>>]

MineAt(k, m) == m \in DOMAIN Nth(k).comments /\ Nth(k).comments[m].by = User

TurnOf(k) ==
    INSTANCE Turn WITH
        Limit <- CommentLimit,
        ReactionLimit <- ReactionLimit,
        noticed <- IF Nth(k).comments = <<>> THEN 0
                   ELSE Len(Nth(k).comments[Len(Nth(k).comments)].reactions),
        own <- OwnPr,
        started <- MineAt(k, 1),
        last <- MineAt(k, Len(Nth(k).comments)),
        length <- Len(Nth(k).comments),
        turn <- ThreadVerdict([Nth(k) EXCEPT !.hidden = FALSE], OwnPr, User),
        open <- ~Nth(k).hidden,
        told <- ThreadVerdict(Nth(k), OwnPr, User)

(* The rules of actionableThreads, which look at the list of comments,     *)
(* tell whose turn it is as people take their turns: nothing said before   *)
(* the last comment, in any order and by anyone, makes a difference but    *)
(* who spoke first.  A thread longer than the query asks for stands still  *)
(* at the last comment that was asked for, and a comment with more         *)
(* reactions at the last of those.                                         *)
TakesTurns(k) == UNCHANGED TurnOf(k)!turnVars \/ TurnOf(k)!Next
ThreadsFollowTurns ==
    /\ \A k \in 1..ThreadLimit : TurnOf(k)!Init
    /\ [][\A k \in 1..ThreadLimit : TakesTurns(k)]_talkVars

(* What the disabled fuzz test of github_test.go asks of one thread holds  *)
(* of several: on another's pull request the user is never called to       *)
(* threads without a comment of theirs; on their own, to a thread with     *)
(* somebody else's last word and no reaction, and to none with their own.  *)
HasComment(t, p) == \E m \in DOMAIN t.comments : t.comments[m].by = p
LastBy(t, p) == t.comments # <<>> /\ t.comments[Len(t.comments)].by = p
FuzzedPromises ==
    LET seen == AnsweredThreads(node)
        open == {t \in ToSet(seen) : ~t.hidden /\ t.comments # <<>>}
        unmoved == {t \in open : t.comments[Len(t.comments)].reactions = <<>>}
    IN  /\ (~OwnPr /\ \A t \in open : ~HasComment(t, User))
              => Pr1.threadsActionable = 0
        /\ (OwnPr /\ \E t \in unmoved : ~LastBy(t, User))
              => Pr1.threadsActionable > 0
        /\ (OwnPr /\ \A t \in open : t \in unmoved /\ LastBy(t, User))
              => Pr1.threadsActionable = 0
        /\ Pr1.threadsActionable + Pr1.threadsWaiting <= Cardinality(
              {k \in DOMAIN seen : seen[k] \in open})

Score(pr) == StandardPrPoints(pr, User, Now)

(* The points for being short, where threads have points too: 80 for an    *)
(* actionable one, less 10 for one that waits and 70 for an old draft, is  *)
(* no points at all, and only then is the size looked at.                  *)
SizeMeetsThreads(pr) ==
    /\ pr.author # User /\ pr.threadsActionable > 0
    /\ ThreadPoints(pr) + OtherPoints(pr, Now) = 0

(* The comment renews the date of someone else's draft that nobody touched *)
(* for five days: it is an old one no more.                                *)
Revives(old, new) ==
    /\ old.author # User /\ old.isDraft
    /\ old.updated < Now - 5 /\ ~(new.updated < Now - 5)

(* "points" represents "actions to take" (points.go): when the user takes  *)
(* one, by commenting or reacting anywhere, the pull request gets no more  *)
(* points for it, and none for what a bot comments; but for the 60 that an *)
(* old draft gets back with its date.  This is of points only: the date    *)
(* also tells who comes first of those with as many, and ends a burial.    *)
ActingNeverRaises ==
    [][ /\ \/ TalkInThreads(User)
           \/ \E p \in {User} \cup Bots : CommentOnPr(p)
        /\ ~SizeMeetsThreads(Pr1')
        => Score(Pr1') <= Score(Pr1) + If(Revives(Pr1, Pr1'), 60)]_talkVars
=============================================================================
