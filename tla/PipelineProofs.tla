--------------------------- MODULE PipelineProofs ---------------------------
(***************************************************************************)
(* Proofs about GithubCalls, and about what Pipeline makes of the three    *)
(* components: it takes the steps of GithubCalls and of Conversation, and  *)
(* those of Ranking for any lists, so that what is proved of each of them  *)
(* holds of the whole; and what somebody says reaches the status bar.      *)
(***************************************************************************)
EXTENDS Pipeline, RankingProofs, ConversationProofs

----------------------------------------------------------------------------
(* The verdicts main.go draws from GitHub's answers.  They rest on what    *)
(* errors.Is can find: QueryGithub wraps no sentinel but ErrRateLimited,   *)
(* because graphqlRequest only names the others (%v).                      *)

LEMMA QueryWraps ==
    ASSUME NEW a \in Answers
    PROVE  /\ QueryGithub(a).wraps \subseteq {"ErrRateLimited"}
           /\ QueryGithub(a).ok \in BOOLEAN
           /\ ~QueryGithub(a).ok /\ "ErrRateLimited" \in QueryGithub(a).wraps
                <=> /\ a.sent
                    /\ a.body # "garbage"
                    /\ a.errors = "RATE_LIMITED"
                    /\ a.retry
<1>1. a.sent \in BOOLEAN /\ a.retry \in BOOLEAN
  BY DEF Answers
<1>2. CASE ~a.sent
  BY <1>2 DEF QueryGithub, GraphqlRequest, Naming
<1>3. CASE a.sent /\ a.body = "garbage"
  BY <1>3 DEF QueryGithub, GraphqlRequest, Naming
<1>4. CASE a.sent /\ a.body # "garbage" /\ a.errors = "RATE_LIMITED"
  BY <1>1, <1>4 DEF QueryGithub, GraphqlRequest, Naming, Wrapping
<1>5. CASE a.sent /\ a.body # "garbage" /\ a.errors # "RATE_LIMITED"
  <2>1. GraphqlRequest(a) \in {Naming({"ErrGithubServer"}), Naming({"ErrClient"}), Ok}
    BY <1>5 DEF GraphqlRequest
  <2>2. CASE GraphqlRequest(a) = Ok
    BY <1>5, <2>2 DEF QueryGithub, Wrapping, Ok
  <2>3. CASE GraphqlRequest(a) # Ok
    <3>1. QueryGithub(a).ok = FALSE /\ QueryGithub(a).wraps = {}
      BY <2>1, <2>3 DEF QueryGithub, Naming
    <3> QED BY <1>5, <3>1
  <2> QED BY <2>2, <2>3
<1> QED BY <1>1, <1>2, <1>3, <1>4, <1>5

LEMMA UserNameWraps ==
    ASSUME NEW a \in Answers
    PROVE  ~UsernameFromPat(a).ok /\ "ErrInvalidToken" \in UsernameFromPat(a).wraps
             <=> Denied(a)
<1>1. a.sent \in BOOLEAN
  BY DEF Answers
<1>2. CASE Denied(a)
  BY <1>2 DEF UsernameFromPat, Wrapping, Denied
<1>3. CASE ~Denied(a)
  BY <1>1, <1>3 DEF UsernameFromPat, Wrapping, Ok, Denied
<1> QED BY <1>2, <1>3

LEMMA LimitVerdict ==
    ASSUME NEW a \in Answers
    PROVE  LoopVerdict(a) = "rateLimited"
             <=> a.sent /\ a.body # "garbage" /\ a.errors = "RATE_LIMITED" /\ a.retry
<1>1. LoopVerdict(a) = "rateLimited"
        <=> ~QueryGithub(a).ok /\ "ErrRateLimited" \in QueryGithub(a).wraps
  BY QueryWraps DEF LoopVerdict, Is
<1> QED BY <1>1, QueryWraps

LEMMA ClearedVerdict ==
    ASSUME NEW a \in Answers, NEW b \in Answers
    PROVE  PatVerdict(a, b) = "cleared" <=> Denied(a)
<1>1. PatVerdict(a, b) = "cleared"
        <=> ~ValidatePAT(a, b).ok /\ "ErrInvalidToken" \in ValidatePAT(a, b).wraps
  BY DEF PatVerdict, Is
<1>2. CASE ~UsernameFromPat(a).ok
  <2>1. ValidatePAT(a, b) = UsernameFromPat(a)
    BY <1>2 DEF ValidatePAT
  <2> QED BY <1>1, <1>2, <2>1, UserNameWraps
<1>3. CASE UsernameFromPat(a).ok
  <2>1. ~Is(QueryGithub(b), "ErrClient")
    BY QueryWraps DEF Is
  <2>2. ValidatePAT(a, b) = QueryGithub(b) \/ ValidatePAT(a, b) = Ok
    BY <1>3, <2>1 DEF ValidatePAT
  <2> QED BY <1>1, <1>3, <2>2, QueryWraps, UserNameWraps DEF Ok
<1> QED BY <1>2, <1>3

(* A verdict about a PAT is only drawn once its first request is answered, *)
(* the one about a query from that query.                                  *)
CallsInv ==
    /\ user \in Answers \cup {NoAnswer} /\ query \in Answers \cup {NoAnswer}
    /\ OnlyDeniedIsCleared
    /\ call = "query" /\ query # NoAnswer => verdict = LoopVerdict(query)
    /\ call # "validate" => user = NoAnswer
    /\ call = "none" => query = NoAnswer /\ Open

LEMMA CallsInvariant == CallsSpec => []CallsInv
<1>1. CallsInit => CallsInv
  BY DEF CallsInit, CallsInv, OnlyDeniedIsCleared, Open
<1>2. CallsInv /\ [CallsNext]_callVars => CallsInv'
  <2> SUFFICES ASSUME CallsInv, [CallsNext]_callVars
               PROVE  CallsInv'
    OBVIOUS
  <2> USE DEF CallsInv, OnlyDeniedIsCleared
  <2>1. ASSUME NEW c \in {"query", "validate"}, Start(c)
        PROVE  CallsInv'
    BY <2>1 DEF Start, Open
  <2>2. ASSUME NEW a \in Answers, UserAnswered(a)
        PROVE  CallsInv'
    <3>1. ~Open' => (verdict' = "cleared" <=> Denied(a))
      BY <2>2, ClearedVerdict DEF UserAnswered, Open
    <3> QED BY <2>2, <3>1 DEF UserAnswered
  <2>3. ASSUME NEW a \in Answers, QueryAnswered(a)
        PROVE  CallsInv'
    <3>1. CASE call = "query"
      <4>1. verdict' = LoopVerdict(a) /\ verdict' # "cleared"
        BY <2>3, <3>1 DEF QueryAnswered, LoopVerdict
      <4> QED BY <2>3, <3>1, <4>1, NoAnswerAssumption DEF QueryAnswered
    <3>2. CASE call = "validate"
      <4>1. user \in Answers /\ verdict' = PatVerdict(user, a)
        BY <2>3, <3>2 DEF QueryAnswered
      <4>2. verdict' = "cleared" <=> Denied(user)
        BY <4>1, ClearedVerdict
      <4> QED BY <2>3, <3>2, <4>2 DEF QueryAnswered
    <3> QED BY <2>3, <3>1, <3>2 DEF QueryAnswered
  <2>4. CASE UNCHANGED callVars
    BY <2>4 DEF callVars, Open
  <2> QED BY <2>1, <2>2, <2>3, <2>4 DEF CallsNext, Finished
<1> QED BY <1>1, <1>2, PTL DEF CallsSpec

(* A stored PAT is cleared exactly when GitHub answers 401 or 403 to the   *)
(* request for the user's name, for all answers to both requests: a 403    *)
(* that tells of a rate limit clears it too, no other failure does.        *)
THEOREM OutagesKeepThePat == CallsSpec => []OnlyDeniedIsCleared
  BY CallsInvariant, PTL DEF CallsInv

(* The loop takes exactly those answers for a rate limit that are one and  *)
(* say when to come back, whatever status they have.                       *)
THEOREM RateLimitsAreRecognised == CallsSpec => []RateLimitIsRecognised
<1>1. CallsInv => RateLimitIsRecognised
  BY LimitVerdict DEF CallsInv, RateLimitIsRecognised
<1> QED BY <1>1, CallsInvariant, PTL

----------------------------------------------------------------------------
(* The steps of the whole are steps of its parts.                          *)

LEMMA AsksAndTalks == [PipeNext]_pipeVars => [CallsNext]_callVars /\ [TalkNext]_talkVars
<1> SUFFICES ASSUME [PipeNext]_pipeVars
             PROVE  [CallsNext]_callVars /\ [TalkNext]_talkVars
  OBVIOUS
<1>1. CASE Talk
  BY <1>1 DEF Talk
<1>2. CASE Request
  BY <1>2, GoodAnswerAssumption DEF Request, CallsNext
<1>3. CASE Read \/ ShowList \/ UNCHANGED pipeVars
  BY <1>3 DEF Read, ShowList, pipeVars
<1> QED BY <1>1, <1>2, <1>3 DEF PipeNext

(* Of whatever it asks GitHub and whatever is answered, the whole draws    *)
(* the verdicts of GithubCalls.                                            *)
THEOREM PipelineAsksGithub == PipeSpec => CallsSpec
  BY AsksAndTalks, PTL DEF PipeSpec, PipeInit, CallsSpec

(* What is said between two polls is a conversation.                       *)
THEOREM PipelineListensToPeople == PipeSpec => TalkSpec
  BY AsksAndTalks, PTL DEF PipeSpec, PipeInit, TalkSpec

LEMMA RowOfPr ==
    ASSUME Pr1 \in Pr, NEW row \in Rows(Pr1)
    PROVE  /\ row \in Pr /\ row.author = Pr1.author
           /\ row.threadsActionable = Pr1.threadsActionable
<1>1. CASE row = Pr1
  BY <1>1
<1>2. ASSUME NEW date \in BuriedDates, row = CarriedOver(Pr1, date)
      PROVE  /\ row \in Pr /\ row.author = Pr1.author
             /\ row.threadsActionable = Pr1.threadsActionable
  <2> DEFINE b == Pr1.updated <= date
  <2>1. b \in BOOLEAN /\ row = [Pr1 EXCEPT !.buried = b]
    BY <1>2 DEF CarriedOver
  <2> HIDE DEF b
  <2> QED BY <2>1 DEF Pr
<1> QED BY <1>1, <1>2 DEF Rows

(* A list that is read is one of pull requests, whatever was answered.     *)
LEMMA AnsweredListsOfPrs ==
    ASSUME TalkInv, NEW prs \in AnsweredLists
    PROVE  prs \in Seq(Pr) /\ Len(prs) <= MaxPrs
<1>1. CASE prs = <<>>
  BY <1>1, MaxPrsAssumption, EmptySeq
<1>2. ASSUME NEW row \in Rows(Pr1), prs = <<row>>
      PROVE  prs \in Seq(Pr) /\ Len(prs) <= MaxPrs
  <2>1. row \in Pr
    BY ViewedPr, RowOfPr DEF Views
  <2> QED BY <1>2, <2>1, MaxPrsAssumption
<1>3. CASE prs \in BoundedSeq(Samples, MaxPrs)
  BY <1>3, SamplesAreLists
<1> QED BY <1>1, <1>2, <1>3 DEF AnsweredLists, Pr1

LEMMA Ranks == TalkInv /\ [PipeNext]_pipeVars => RankStep
<1> SUFFICES ASSUME TalkInv, [PipeNext]_pipeVars PROVE RankStep
  OBVIOUS
<1>1. CASE Talk \/ Request \/ UNCHANGED pipeVars
  BY <1>1 DEF Talk, Request, pipeVars, RankStep
<1>2. CASE Read
  BY <1>2, AnsweredListsOfPrs DEF Read, RankStep
<1>3. CASE ShowList
  BY <1>3 DEF ShowList, RankStep
<1> QED BY <1>1, <1>2, <1>3 DEF PipeNext

LEMMA PipelineRanks == PipeSpec => [](RankInv /\ CallsInv /\ TalkInv)
<1>1. PipeInit => RankInv
  BY ListInit, PageInit DEF PipeInit, RankInv
<1>2. RankInv /\ TalkInv /\ [PipeNext]_pipeVars => RankInv'
  BY Ranks, ListStep, PageStep DEF RankInv
<1>3. PipeSpec => []TalkInv
  BY PipelineListensToPeople, TalkInvariant, PTL
<1>4. PipeSpec => []CallsInv
  BY PipelineAsksGithub, CallsInvariant, PTL
<1>5. PipeSpec => []RankInv
  BY <1>1, <1>2, <1>3, PTL DEF PipeSpec
<1> QED BY <1>3, <1>4, <1>5, PTL

(* However the points came about, and whatever GitHub answered: the list   *)
(* that is shown keeps what is promised of every list.                     *)
THEOREM PipelineShowsRankedLists ==
    PipeSpec => [](/\ TypeOK /\ PageIsRanked
                   /\ BuriedAtTheBottom /\ BuriedIsNotCounted /\ ApiHasTheWorthy)
<1>1. RankInv => /\ TypeOK /\ PageIsRanked
                 /\ BuriedAtTheBottom /\ BuriedIsNotCounted /\ ApiHasTheWorthy
  BY RankTypes, RankedOnPage, BuriedAtBottom, BuriedNotCounted, ApiHasAll
<1> QED BY <1>1, PipelineRanks, PTL

(* The promises of the other parts hold of the whole: of PATs and rate     *)
(* limits, of whose turn it is in a thread, and of acting on one.          *)
THEOREM PipelineKeepsThePromises ==
    PipeSpec => /\ [](OnlyDeniedIsCleared /\ RateLimitIsRecognised /\ FuzzedPromises)
                /\ ThreadsFollowTurns /\ ActingNeverRaises
  BY PipelineAsksGithub, OutagesKeepThePat, RateLimitsAreRecognised,
     PipelineListensToPeople, FuzzTestHolds, RulesTellTheTurn, ActingDoesNotRaise, PTL

----------------------------------------------------------------------------
(* From what somebody says to the status bar. *)

(* Once something was said, only the good answer is given, and what is     *)
(* stored is what it says and the mark the row had before; nobody says     *)
(* anything between the two.                                               *)
SaidInv ==
    /\ phase # "empty" => call = "query"
    /\ call = "query" /\ query = NoAnswer => Open
    /\ NothingSaid \/ call = "none" \/
         /\ call = "query" /\ query \in {NoAnswer, GoodAnswer}
         /\ phase # "empty" => \/ stored = <<>>
                               \/ \E row \in Rows(Pr1) : stored = <<Stored(row)>>

LEMMA SaidStarts == PipeInit => SaidInv
  BY DEF PipeInit, Init, CallsInit, SaidInv

LEMMA SaidRequest ==
    ASSUME SaidInv, CallsInv, Request
    PROVE  SaidInv'
<1>1. UNCHANGED <<stored, phase, node, events>>
  BY DEF Request, rankVars, talkVars
<1>2. NothingSaid' = NothingSaid /\ Rows(Pr1)' = Rows(Pr1)
  BY <1>1 DEF NothingSaid, Pr1, Rows, BuriedDates
<1>3. ASSUME NEW c, Start(c)
      PROVE  /\ phase = "empty" /\ call' = c
             /\ query' = NoAnswer /\ Open'
  BY <1>3 DEF Start, SaidInv, CallsInv, Open
<1>4. CASE NothingSaid
  <2>1. ASSUME NEW c, Start(c) PROVE SaidInv'
    BY <1>1, <1>2, <1>3, <1>4, <2>1 DEF SaidInv
  <2>2. ASSUME NEW a \in Answers, UserAnswered(a) PROVE SaidInv'
    BY <1>1, <1>2, <1>4, <2>2 DEF UserAnswered, SaidInv
  <2>3. ASSUME NEW a \in Answers, QueryAnswered(a) PROVE SaidInv'
    BY <1>1, <1>2, <1>4, <2>3, NoAnswerAssumption DEF QueryAnswered, SaidInv
  <2>4. CASE Finished
    BY <1>1, <1>2, <1>4, <2>4 DEF Finished, callVars, SaidInv, Open
  <2> QED BY <1>4, <2>1, <2>2, <2>3, <2>4 DEF Request, CallsNext
<1>5. CASE ~NothingSaid
  <2>1. CASE Start("query")
    BY <1>1, <1>3, <2>1 DEF SaidInv
  <2>2. CASE QueryAnswered(GoodAnswer)
    BY <1>1, <1>2, <1>5, <2>2, GoodAnswerAssumption, NoAnswerAssumption
    DEF QueryAnswered, SaidInv
  <2> QED BY <1>5, <2>1, <2>2 DEF Request
<1> QED BY <1>4, <1>5

LEMMA SaidRead ==
    ASSUME SaidInv, Read
    PROVE  SaidInv'
<1>1. /\ call = "query" /\ verdict = "succeeded" /\ UNCHANGED <<call, query, verdict>>
      /\ UNCHANGED <<node, events>>
  BY DEF Read, callVars, talkVars
<1>2. query # NoAnswer
  BY <1>1 DEF SaidInv, Open
<1>3. CASE NothingSaid
  BY <1>1, <1>3 DEF SaidInv, NothingSaid, Open
<1>4. CASE ~NothingSaid
  <2>1. query.errors = "none"
    BY <1>1, <1>2, <1>4, GoodAnswerAssumption DEF SaidInv
  <2>2. AnsweredLists = {<<>>} \cup {<<row>> : row \in Rows(Pr1)}
    BY <1>4, <2>1 DEF AnsweredLists, Pr1
  <2>3. Store(<<>>) \/ \E row \in Rows(Pr1) : Store(<<row>>)
    BY <2>2 DEF Read
  <2>4. stored' = <<>> \/ \E row \in Rows(Pr1) : stored' = <<Stored(row)>>
    <3>1. Store(<<>>) => stored' = <<>>
      BY DEF Store
    <3>2. ASSUME NEW row \in Rows(Pr1), Store(<<row>>)
          PROVE  stored' = <<Stored(row)>>
      BY <3>2 DEF Store
    <3> QED BY <2>3, <3>1, <3>2
  <2>5. UNCHANGED Rows(Pr1)
    BY <1>1 DEF Rows, BuriedDates, Pr1
  <2> QED BY <1>1, <1>2, <1>4, <2>4, <2>5 DEF SaidInv
<1> QED BY <1>3, <1>4

LEMMA SaidStep == SaidInv /\ CallsInv /\ TalkInv /\ [PipeNext]_pipeVars => SaidInv'
<1> SUFFICES ASSUME SaidInv, CallsInv, TalkInv, [PipeNext]_pipeVars PROVE SaidInv'
  OBVIOUS
<1>1. CASE Talk
  BY <1>1 DEF Talk, rankVars, callVars, SaidInv, Open
<1>2. CASE ShowList
  <2>1. UNCHANGED <<stored, call, query, verdict, node, events>>
    BY <1>2 DEF ShowList, callVars, talkVars, GetPage, GetPrs, StartSort,
                SwapDown, NextElement, Show
  <2>2. phase # "empty"
    BY <1>2 DEF ShowList, GetPage, GetPrs, SwapDown, NextElement, Show
  <2>3. UNCHANGED Rows(Pr1)
    BY <2>1 DEF Rows, BuriedDates, Pr1
  <2> QED BY <2>1, <2>2, <2>3 DEF SaidInv, NothingSaid, Open
<1>3. CASE UNCHANGED pipeVars
  <2>1. UNCHANGED Rows(Pr1)
    BY <1>3 DEF pipeVars, talkVars, Rows, BuriedDates, Pr1
  <2> QED BY <1>3, <2>1 DEF pipeVars, rankVars, callVars, talkVars, SaidInv,
                            NothingSaid, Open
<1> QED BY <1>1, <1>2, <1>3, SaidRequest, SaidRead DEF PipeNext

(* Who is called to a thread of their own pull request finds one there.    *)
LEMMA CalledIsActionable ==
    ASSUME TalkInv, CalledToOwnPr
    PROVE  OwnPr /\ Pr1.threadsActionable > 0
<1>1. PICK k \in 1..ThreadLimit :
            /\ ~Nth(k).hidden /\ Nth(k).comments # <<>>
            /\ Nth(k).comments[Len(Nth(k).comments)].by # User
            /\ User \notin ToSet(Reactions(Nth(k)))
  BY DEF CalledToOwnPr, Reactions, UserReactedToComment
<1>2. Nth(k) \in Thread /\ OwnPr
  BY NthIsThread DEF CalledToOwnPr
<1>3. Len(Nth(k).comments) # 0 /\ ~LastMine(Nth(k))
  BY <1>1, <1>2, CommentsOfThread DEF LastMine
<1>4. Rule(OwnPr, FirstMine(Nth(k)), LastMine(Nth(k)), Reactions(Nth(k))) = "actionable"
  BY <1>1, <1>2, <1>3 DEF Rule
<1>5. Verdict(k) = "actionable"
  BY <1>1, <1>2, <1>3, <1>4, VerdictByParts DEF Verdict, OwnPr
<1> QED BY <1>2, <1>5, ViewedPr DEF Views

(* An actionable thread outweighs all that lowers a pull request of the    *)
(* user's own: a thread that waits and being a draft.                      *)
LEMMA ActionableIsWorthy ==
    ASSUME NEW pr \in Pr, pr.author = User, pr.threadsActionable > 0, ~pr.buried
    PROVE  Total(pr) >= 1
<1>1. ThreadPoints(pr) \in {70, 80}
  BY DEF ThreadPoints, If
<1>2. OwnPoints(pr, User, Now) \in -10..131
  BY UserAssumption, OwnPointsRange
<1>3. Total(pr) = UnburiedPoints(pr, User, Now) - 0
  BY DEF Total, StandardPrPoints, If
<1>4. UnburiedPoints(pr, User, Now) = ThreadPoints(pr) + OwnPoints(pr, User, Now)
  BY DEF UnburiedPoints
<1> QED BY <1>1, <1>2, <1>3, <1>4

LEMMA CalledReaches ==
    RankInv /\ CallsInv /\ TalkInv /\ SaidInv => TurnReachesTheBar
<1> SUFFICES ASSUME RankInv, CallsInv, TalkInv, SaidInv,
                    Shown("api"), minimum = 1, CalledToOwnPr, stored # <<>>,
                    node.readable \/ ~stored[1].buried
             PROVE  Len(ranked) = 1
  BY DEF TurnReachesTheBar
<1>1. OwnPr /\ Pr1.threadsActionable > 0 /\ Pr1 \in Pr
  BY CalledIsActionable, ViewedPr DEF Views
<1>2. ~NothingSaid
  <2>1. SUFFICES ASSUME node \in Nodes PROVE FALSE
    BY QuietAssumption DEF NothingSaid
  <2>2. node.threads = <<>>
    BY <2>1, NodesAssumption
  <2>3. \A k \in 1..ThreadLimit : Nth(k).comments = <<>>
    BY <2>2, LimitsAssumption DEF Nth
  <2> QED BY <2>3 DEF CalledToOwnPr
<1>3. PICK row \in Rows(Pr1) : stored = <<Stored(row)>>
  BY <1>2 DEF SaidInv, Shown
<1>4. ~row.buried
  <2>1. CASE ~node.readable
    <3>1. Stored(row).buried = row.buried
      <4>1. row \in Pr
        BY <1>1, RowOfPr
      <4> QED BY <4>1 DEF Stored, Pr
    <3> QED BY <1>3, <2>1, <3>1
  <2>2. CASE node.readable
    <3>1. node.threads # <<>>
      BY LimitsAssumption DEF CalledToOwnPr, Nth
    <3>2. node.updatedAt = Now /\ node.updatedAt \in Int
      BY <3>1 DEF TalkInv, Node
    <3>3. Pr1.updated = Now /\ Pr1.buried = FALSE
      BY <2>2, <3>2 DEF Pr1, ViewPr
    <3>4. ASSUME NEW date \in BuriedDates PROVE date \in Int /\ date < Now
      BY <3>4, NodesAssumption, ZeroTimeAssumption DEF BuriedDates, Node
    <3>5. ASSUME NEW date \in BuriedDates PROVE CarriedOver(Pr1, date).buried = FALSE
      <4>1. ~(Now <= date)
        BY <3>4, UserAssumption
      <4> QED BY <1>1, <3>3, <4>1 DEF CarriedOver, Pr
    <3> QED BY <3>3, <3>5 DEF Rows
  <2> QED BY <2>1, <2>2
<1>5. /\ Stored(row) \in Pr /\ Stored(row).author = User
      /\ Stored(row).threadsActionable > 0 /\ ~Stored(row).buried
  <2>1. /\ row \in Pr /\ row.author = Pr1.author
        /\ row.threadsActionable = Pr1.threadsActionable
    BY <1>1, RowOfPr
  <2>2. Pr1.author = User
    BY <1>1 DEF OwnPr, Pr1, ViewPr
  <2> QED BY <1>1, <1>4, <2>1, <2>2, StoredIsPr DEF Stored, Pr
<1>8. Total(Stored(row)) >= 1
  BY <1>5, ActionableIsWorthy
<1>6. Worthy = {1}
  BY <1>3, <1>8 DEF Worthy
<1>7. Len(ranked) = Cardinality(Worthy)
  BY DEF RankInv, ListInv, Shown
<1> QED BY <1>6, <1>7, FS_Singleton

(* What somebody wrote on the user's own pull request is counted in the    *)
(* status bar until the user answers, whatever else was said, however much *)
(* the query asks for, and though the pull request was buried before: what *)
(* is said renews its date, which ends the burial.  Where GitHub's date    *)
(* cannot be read it does not.                                             *)
THEOREM TurnsReachTheBar == PipeSpec => []TurnReachesTheBar
  BY SaidStarts, SaidStep, CalledReaches, PipelineRanks, PTL DEF PipeSpec
=============================================================================
