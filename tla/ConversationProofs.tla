------------------------- MODULE ConversationProofs -------------------------
(***************************************************************************)
(* Proof that the rules of actionableThreads tell whose turn it is: every  *)
(* step of a conversation is a step of Turn, or none, in every thread that *)
(* is asked for.  The proof reduces a thread to five of its parts (how     *)
(* many comments are looked at, who wrote the first and the last, who      *)
(* reacted to the last, and whether it is hidden).                         *)
(***************************************************************************)
EXTENDS Conversation, SequenceTheorems, FiniteSetTheorems, TLAPS

FirstMine(t) == 1 \in DOMAIN t.comments /\ t.comments[1].by = User
LastMine(t) == Len(t.comments) \in DOMAIN t.comments
             /\ t.comments[Len(t.comments)].by = User
Reactions(t) == t.comments[Len(t.comments)].reactions
Opened(t) == [t EXCEPT !.hidden = FALSE]

(* The rules, by the parts of a thread that is open and not empty.         *)
Rule(own, started, last, reactions) ==
    IF last
    THEN IF ~own THEN "waiting"
         ELSE IF ToSet(reactions) \ {User} # {} THEN "actionable" ELSE "nothing"
    ELSE IF (own \/ started) /\ User \notin ToSet(reactions) THEN "actionable"
         ELSE "nothing"

LEMMA CommentsOfThread ==
    ASSUME NEW t \in Thread
    PROVE  /\ t.hidden \in BOOLEAN /\ t.comments \in Seq(Comment)
           /\ Len(t.comments) \in Nat
           /\ DOMAIN t.comments = 1..Len(t.comments)
           /\ \A m \in 1..Len(t.comments) : t.comments[m] \in Comment
           /\ t.comments = <<>> <=> Len(t.comments) = 0
           /\ Opened(t).comments = t.comments /\ Opened(t).hidden = FALSE
<1>1. t.hidden \in BOOLEAN /\ t.comments \in Seq(Comment)
  BY DEF Thread
<1>2. /\ Len(t.comments) \in Nat
      /\ DOMAIN t.comments = 1..Len(t.comments)
      /\ \A m \in 1..Len(t.comments) : t.comments[m] \in Comment
  BY <1>1, LenProperties, ElementOfSeq
<1>3. t.comments = <<>> <=> Len(t.comments) = 0
  BY <1>1, EmptySeq
<1>4. Opened(t).comments = t.comments /\ Opened(t).hidden = FALSE
  BY DEF Thread, Opened
<1> QED BY <1>1, <1>2, <1>3, <1>4

LEMMA VerdictByParts ==
    ASSUME NEW t \in Thread, NEW own \in BOOLEAN
    PROVE  /\ ThreadVerdict(Opened(t), own, User)
                = IF Len(t.comments) = 0 THEN "nothing"
                  ELSE Rule(own, FirstMine(t), LastMine(t), Reactions(t))
           /\ ThreadVerdict(t, own, User)
                = IF ~t.hidden THEN ThreadVerdict(Opened(t), own, User) ELSE "nothing"
<1> USE CommentsOfThread
<1>1. CASE Len(t.comments) = 0
  BY <1>1 DEF ThreadVerdict
<1>2. CASE Len(t.comments) # 0
  <2> DEFINE n == Len(t.comments)
             cs == t.comments
  <2>1. 1 \in 1..n /\ n \in 1..n
    BY <1>2
  <2>2. /\ FirstMine(t) <=> cs[1].by = User
        /\ LastMine(t) <=> cs[n].by = User
    BY <2>1 DEF FirstMine, LastMine
  <2>3. Opened(t).comments = cs /\ Opened(t).hidden = FALSE
    OBVIOUS
  <2>4. ThreadVerdict(Opened(t), own, User)
          = Rule(own, FirstMine(t), LastMine(t), Reactions(t))
    BY <1>2, <2>2, <2>3
    DEF ThreadVerdict, Rule, Reactions, UserReactedToComment,
        SomeoneElseReactedToComment
  <2>5. ThreadVerdict(t, own, User)
          = IF ~t.hidden THEN ThreadVerdict(Opened(t), own, User) ELSE "nothing"
    BY <1>2, <2>3 DEF ThreadVerdict
  <2> QED BY <1>2, <2>4, <2>5
<1> QED BY <1>1, <1>2

LEMMA FirstOfProperties ==
    ASSUME NEW S, NEW s \in Seq(S), NEW n \in Nat
    PROVE  /\ FirstOf(n, s) \in Seq(S)
           /\ Len(FirstOf(n, s)) = IF Len(s) < n THEN Len(s) ELSE n
           /\ \A m \in 1..Len(FirstOf(n, s)) : FirstOf(n, s)[m] = s[m]
<1> DEFINE last == IF Len(s) < n THEN Len(s) ELSE n
<1>1. last \in Nat /\ last <= Len(s) /\ \A m \in 1..last : s[m] \in S
  BY LenProperties, ElementOfSeq
<1>2. /\ SubSeq(s, 1, last) \in Seq(S)
      /\ Len(SubSeq(s, 1, last)) = IF 1 <= last THEN last - 1 + 1 ELSE 0
      /\ \A m \in 1..(last - 1 + 1) : SubSeq(s, 1, last)[m] = s[1 + m - 1]
  <2> HIDE DEF last
  <2> QED BY <1>1, SubSeqProperties
<1>3. FirstOf(n, s) = SubSeq(s, 1, last)
  BY DEF FirstOf
<1> HIDE DEF last
<1>4. Len(SubSeq(s, 1, last)) = last
  BY <1>1, <1>2
<1>5. \A m \in 1..last : SubSeq(s, 1, last)[m] = s[m]
  <2> TAKE m \in 1..last
  <2>1. m \in 1..(last - 1 + 1) /\ 1 + m - 1 = m
    BY <1>1
  <2> QED BY <1>2, <2>1
<1> QED BY <1>2, <1>3, <1>4, <1>5 DEF last

LEMMA FunctionIsSeq ==
    ASSUME NEW S, NEW n \in Nat, NEW f \in [1..n -> S]
    PROVE  f \in Seq(S) /\ Len(f) = n
<1>1. f \in Seq(S)
  BY SeqDef
<1>2. Len(f) \in Nat /\ DOMAIN f = 1..Len(f) /\ DOMAIN f = 1..n
  BY <1>1, LenProperties
<1>3. Len(f) = n
  BY <1>2
<1> QED BY <1>1, <1>3

(* One more at the end is seen where there is room for it.                 *)
LEMMA FirstOfAppend ==
    ASSUME NEW S, NEW s \in Seq(S), NEW p \in S, NEW n \in Nat
    PROVE  FirstOf(n, Append(s, p))
             = IF Len(s) < n THEN Append(FirstOf(n, s), p) ELSE FirstOf(n, s)
<1> DEFINE a == Append(s, p)
           f == FirstOf(n, s)
           g == FirstOf(n, a)
           h == IF Len(s) < n THEN Append(f, p) ELSE f
<1>1. /\ a \in Seq(S) /\ Len(a) = Len(s) + 1 /\ Len(s) \in Nat
      /\ \A m \in 1..Len(s) : a[m] = s[m]
      /\ a[Len(s) + 1] = p
  BY LenProperties, AppendProperties
<1> HIDE DEF a
<1>2. /\ f \in Seq(S) /\ Len(f) = IF Len(s) < n THEN Len(s) ELSE n
      /\ \A m \in 1..Len(f) : f[m] = s[m]
  BY FirstOfProperties
<1>3. /\ g \in Seq(S) /\ Len(g) = IF Len(a) < n THEN Len(a) ELSE n
      /\ \A m \in 1..Len(g) : g[m] = a[m]
  BY <1>1, FirstOfProperties
<1> HIDE DEF f, g
<1>4. /\ Append(f, p) \in Seq(S) /\ Len(Append(f, p)) = Len(f) + 1
      /\ \A m \in 1..Len(f) : Append(f, p)[m] = f[m]
      /\ Append(f, p)[Len(f) + 1] = p
  BY <1>2, AppendProperties
<1>5. CASE Len(s) < n
  <2>1. Len(g) = Len(s) + 1 /\ Len(f) = Len(s)
    BY <1>1, <1>2, <1>3, <1>5
  <2>2. \A m \in 1..Len(g) : g[m] = Append(f, p)[m]
    BY <1>1, <1>2, <1>3, <1>4, <2>1
  <2>3. g = Append(f, p)
    BY <1>3, <1>4, <2>1, <2>2, SeqEqual
  <2> QED BY <1>5, <2>3 DEF f, g, a
<1>6. CASE ~(Len(s) < n)
  <2>1. Len(g) = n /\ Len(f) = n /\ n <= Len(s)
    BY <1>1, <1>2, <1>3, <1>6
  <2>2. \A m \in 1..Len(g) : g[m] = f[m]
    BY <1>1, <1>2, <1>3, <2>1
  <2>3. g = f
    BY <1>2, <1>3, <2>1, <2>2, SeqEqual
  <2> QED BY <1>6, <2>3 DEF f, g, a
<1> QED BY <1>5, <1>6

LEMMA ToSetAppend ==
    ASSUME NEW S, NEW s \in Seq(S), NEW p \in S
    PROVE  ToSet(Append(s, p)) = ToSet(s) \cup {p}
<1>1. /\ Len(s) \in Nat /\ DOMAIN s = 1..Len(s)
      /\ DOMAIN Append(s, p) = 1..(Len(s) + 1)
      /\ \A m \in 1..Len(s) : Append(s, p)[m] = s[m]
      /\ Append(s, p)[Len(s) + 1] = p
  BY LenProperties, AppendProperties
<1>2. 1..(Len(s) + 1) = (1..Len(s)) \cup {Len(s) + 1}
  BY <1>1
<1> QED BY <1>1, <1>2 DEF ToSet

AnsweredComment(c) == [c EXCEPT !.reactions = FirstOf(ReactionLimit, @)]

LEMMA AnsweredOne ==
    ASSUME NEW c \in Comment
    PROVE  /\ AnsweredComment(c) \in Comment
           /\ AnsweredComment(c).by = c.by
           /\ AnsweredComment(c).reactions = FirstOf(ReactionLimit, c.reactions)
<1>1. c.reactions \in Seq(People) /\ ReactionLimit \in Nat
  BY LimitsAssumption DEF Comment
<1>2. FirstOf(ReactionLimit, c.reactions) \in Seq(People)
  BY <1>1, FirstOfProperties
<1> QED BY <1>2 DEF AnsweredComment, Comment

LEMMA AnsweredSays ==
    ASSUME NEW p \in People
    PROVE  /\ Says(p) \in Comment /\ AnsweredComment(Says(p)).by = p
           /\ Len(AnsweredComment(Says(p)).reactions) = 0
           /\ AnsweredComment(Says(p)).reactions = <<>>
<1> DEFINE rs == Says(p).reactions
<1>1. Says(p) \in Comment /\ Says(p).by = p /\ rs \in Seq(People) /\ Len(rs) = 0
  BY EmptySeq DEF Says, Comment
<1> HIDE DEF rs
<1>2. ReactionLimit \in Nat /\ 0 < ReactionLimit
  BY LimitsAssumption
<1>3. FirstOf(ReactionLimit, rs) \in Seq(People) /\ Len(FirstOf(ReactionLimit, rs)) = 0
  BY <1>1, <1>2, FirstOfProperties
<1>4. FirstOf(ReactionLimit, rs) = <<>>
  BY <1>3, EmptySeq
<1> QED BY <1>1, <1>3, <1>4, AnsweredOne DEF rs

LEMMA Answered ==
    ASSUME NEW t \in Thread
    PROVE  /\ AnsweredThread(t) \in Thread
           /\ AnsweredThread(t).hidden = t.hidden
           /\ Len(AnsweredThread(t).comments)
                = IF Len(t.comments) < CommentLimit THEN Len(t.comments)
                  ELSE CommentLimit
           /\ \A m \in 1..Len(AnsweredThread(t).comments) :
                 AnsweredThread(t).comments[m] = AnsweredComment(t.comments[m])
<1> DEFINE cs == FirstOf(CommentLimit, t.comments)
           as == [m \in DOMAIN cs |-> [cs[m] EXCEPT !.reactions = FirstOf(ReactionLimit, @)]]
<1>1. t.comments \in Seq(Comment) /\ CommentLimit \in Nat
  BY LimitsAssumption DEF Thread
<1>2. AnsweredThread(t) = [hidden |-> t.hidden, comments |-> as]
  BY DEF AnsweredThread, Thread
<1>3. /\ cs \in Seq(Comment)
      /\ Len(cs) = IF Len(t.comments) < CommentLimit THEN Len(t.comments)
                   ELSE CommentLimit
      /\ \A m \in 1..Len(cs) : cs[m] = t.comments[m]
  BY <1>1, FirstOfProperties
<1> HIDE DEF cs
<1>4. /\ Len(cs) \in Nat /\ DOMAIN cs = 1..Len(cs)
      /\ \A m \in 1..Len(cs) : cs[m] \in Comment
  BY <1>3, LenProperties, ElementOfSeq
<1>5. \A m \in 1..Len(cs) : as[m] = AnsweredComment(cs[m]) /\ as[m] \in Comment
  BY <1>4, AnsweredOne DEF AnsweredComment
<1>6. as \in Seq(Comment) /\ Len(as) = Len(cs)
  <2>1. as \in [1..Len(cs) -> Comment]
    BY <1>4, <1>5
  <2> HIDE DEF as
  <2> QED BY <1>4, <2>1, FunctionIsSeq
<1> HIDE DEF as
<1>7. AnsweredThread(t) \in Thread
  <2>1. t.hidden \in BOOLEAN /\ as \in Seq(Comment)
    BY <1>6 DEF Thread
  <2>2. [hidden |-> t.hidden, comments |-> as] \in Thread
    BY <2>1 DEF Thread
  <2> QED BY <1>2, <2>2, Zenon
<1>8. AnsweredThread(t).hidden = t.hidden /\ AnsweredThread(t).comments = as
  BY <1>2
<1> QED BY <1>3, <1>5, <1>6, <1>7, <1>8

----------------------------------------------------------------------------
(* The ways a thread can change, and the step of Turn each is.             *)
Known(k) == /\ OwnPr \in BOOLEAN /\ OwnPr' = OwnPr
            /\ Nth(k) \in Thread /\ Nth(k)' \in Thread

Parts(t) == <<Len(t.comments), FirstMine(t), LastMine(t), t.hidden>>

Grows(t, u, p) ==
    /\ Len(t.comments) < CommentLimit /\ Len(u.comments) = Len(t.comments) + 1
    /\ u.hidden = t.hidden
    /\ Len(t.comments) > 0 => u.comments[1].by = t.comments[1].by
    /\ u.comments[Len(u.comments)] = AnsweredComment(Says(p))

Reacted(t, u, p) ==
    /\ Len(t.comments) > 0 /\ Parts(u) = Parts(t)
    /\ Len(Reactions(t)) < ReactionLimit
    /\ Reactions(u) = Append(Reactions(t), p)

Toggled(t, u) ==
    /\ Len(t.comments) > 0 /\ u.comments = t.comments /\ u.hidden = ~t.hidden

Same(t, u) ==
    Parts(u) = Parts(t) /\ (Len(t.comments) > 0 => Reactions(u) = Reactions(t))

LEMMA ReactionsOfThread ==
    ASSUME NEW t \in Thread, Len(t.comments) > 0
    PROVE  /\ t.comments # <<>>
           /\ Reactions(t) \in Seq(People) /\ Len(Reactions(t)) \in Nat
<1>1. t.comments[Len(t.comments)] \in Comment /\ t.comments # <<>>
  <2>1. /\ Len(t.comments) \in Nat /\ t.comments \in Seq(Comment)
        /\ t.comments = <<>> <=> Len(t.comments) = 0
    BY CommentsOfThread
  <2>2. Len(t.comments) \in 1..Len(t.comments)
    BY <2>1
  <2>3. t.comments[Len(t.comments)] \in Comment
    BY <2>1, <2>2, ElementOfSeq
  <2> QED BY <2>1, <2>3
<1> QED BY <1>1, LenProperties DEF Comment, Reactions

(* What p does to it by talking. *)
Moves(t, u, p) == Same(t, u) \/ Grows(t, u, p) \/ Reacted(t, u, p)

LEMMA TurnVars ==
    ASSUME NEW k, Known(k)
    PROVE  /\ MineAt(k, 1) = FirstMine(Nth(k))
           /\ MineAt(k, Len(Nth(k).comments)) = LastMine(Nth(k))
           /\ MineAt(k, 1)' = FirstMine(Nth(k)')
           /\ MineAt(k, Len(Nth(k).comments))' = LastMine(Nth(k)')
  BY DEF MineAt, FirstMine, LastMine

(* How many reactions Turn takes notice of. *)
Noticed(t) == IF t.comments = <<>> THEN 0 ELSE Len(t.comments[Len(t.comments)].reactions)

LEMMA GrowingVerdict ==
    ASSUME NEW t \in Thread, NEW u \in Thread, NEW own \in BOOLEAN,
           NEW p \in People, Grows(t, u, p)
    PROVE  /\ LastMine(u) = (p = User)
           /\ Noticed(u) = 0
           /\ FirstMine(u) = (FirstMine(t) \/ (Len(t.comments) = 0 /\ p = User))
           /\ ThreadVerdict(Opened(u), own, User)
                = IF p = User THEN IF own THEN "nothing" ELSE "waiting"
                  ELSE IF own \/ FirstMine(t) THEN "actionable" ELSE "nothing"
<1> DEFINE n == Len(t.comments)
<1>1. /\ n \in Nat /\ Len(u.comments) = n + 1
      /\ n > 0 => u.comments[1].by = t.comments[1].by
      /\ u.comments[n + 1] = AnsweredComment(Says(p))
      /\ u.comments[n + 1].by = p
      /\ DOMAIN t.comments = 1..n /\ DOMAIN u.comments = 1..(n + 1)
  BY CommentsOfThread, AnsweredSays DEF Grows
<1>2. LastMine(u) = (p = User)
  BY <1>1 DEF LastMine
<1>3. FirstMine(u) = (FirstMine(t) \/ (n = 0 /\ p = User))
  <2>1. CASE n = 0
    BY <1>1, <2>1 DEF FirstMine
  <2>2. CASE n > 0
    BY <1>1, <2>2 DEF FirstMine
  <2> QED BY <1>1, <2>1, <2>2
<1>4. Reactions(u) = <<>> /\ ToSet(Reactions(u)) = {} /\ Noticed(u) = 0
  <2>1. Reactions(u) = <<>> /\ Len(Reactions(u)) = 0
    BY <1>1, AnsweredSays DEF Reactions
  <2>2. ToSet(<<>>) = {}
    BY DEF ToSet
  <2>3. Noticed(u) = 0
    BY <2>1 DEF Noticed, Reactions
  <2> QED BY <2>1, <2>2, <2>3
<1>5. ThreadVerdict(Opened(u), own, User)
        = Rule(own, FirstMine(u), LastMine(u), Reactions(u))
  BY <1>1, VerdictByParts
<1>6. CASE p = User
  BY <1>2, <1>4, <1>5, <1>6, <1>3 DEF Rule
<1>7. CASE p # User
  BY <1>2, <1>3, <1>4, <1>5, <1>7 DEF Rule
<1> QED BY <1>2, <1>3, <1>4, <1>6, <1>7

LEMMA ReactedVerdict ==
    ASSUME NEW t \in Thread, NEW u \in Thread, NEW own \in BOOLEAN,
           NEW p \in People, Reacted(t, u, p)
    PROVE  ThreadVerdict(Opened(u), own, User)
             = IF p = User
               THEN IF LastMine(t) THEN ThreadVerdict(Opened(t), own, User)
                    ELSE "nothing"
               ELSE IF own /\ LastMine(t) THEN "actionable"
                    ELSE ThreadVerdict(Opened(t), own, User)
<1>1. /\ Len(t.comments) > 0 /\ Len(u.comments) = Len(t.comments)
      /\ Len(t.comments) \in Nat
      /\ FirstMine(u) = FirstMine(t) /\ LastMine(u) = LastMine(t)
      /\ ToSet(Reactions(u)) = ToSet(Reactions(t)) \cup {p}
  BY CommentsOfThread, ReactionsOfThread, ToSetAppend DEF Reacted, Parts
<1>2. ThreadVerdict(Opened(t), own, User)
        = Rule(own, FirstMine(t), LastMine(t), Reactions(t))
  BY <1>1, VerdictByParts
<1>3. ThreadVerdict(Opened(u), own, User)
        = Rule(own, FirstMine(u), LastMine(u), Reactions(u))
  <2>1. Len(u.comments) # 0
    BY <1>1
  <2> QED BY <2>1, VerdictByParts
<1>4. CASE LastMine(t)
  BY <1>1, <1>2, <1>3, <1>4 DEF Rule
<1>5. CASE ~LastMine(t)
  BY <1>1, <1>2, <1>3, <1>5 DEF Rule
<1> QED BY <1>4, <1>5

LEMMA SameVerdict ==
    ASSUME NEW t \in Thread, NEW u \in Thread, NEW own \in BOOLEAN,
           Len(u.comments) = Len(t.comments),
           FirstMine(u) = FirstMine(t), LastMine(u) = LastMine(t),
           Len(t.comments) > 0 => Reactions(u) = Reactions(t)
    PROVE  ThreadVerdict(Opened(u), own, User) = ThreadVerdict(Opened(t), own, User)
<1>1. Len(t.comments) \in Nat
  BY CommentsOfThread
<1>2. CASE Len(t.comments) = 0
  BY <1>2, VerdictByParts
<1>3. CASE Len(t.comments) > 0
  <2>1. ThreadVerdict(Opened(t), own, User)
          = Rule(own, FirstMine(t), LastMine(t), Reactions(t))
    BY <1>3, VerdictByParts
  <2>2. ThreadVerdict(Opened(u), own, User)
          = Rule(own, FirstMine(u), LastMine(u), Reactions(u))
    BY <1>3, VerdictByParts
  <2> QED BY <1>3, <2>1, <2>2 DEF Rule
<1> QED BY <1>1, <1>2, <1>3

LEMMA ToldVerdict ==
    ASSUME NEW k, Known(k)
    PROVE  ThreadVerdict(Nth(k), OwnPr, User)'
             = IF ~Nth(k)'.hidden
               THEN ThreadVerdict([Nth(k) EXCEPT !.hidden = FALSE], OwnPr, User)'
               ELSE "nothing"
  BY VerdictByParts DEF Known, Opened

LEMMA GrowingTakesTurns ==
    ASSUME NEW k, NEW p \in People, Known(k), Grows(Nth(k), Nth(k)', p)
    PROVE  TurnOf(k)!Next
<1>1. /\ LastMine(Nth(k)') = (p = User) /\ Noticed(Nth(k)') = 0
      /\ FirstMine(Nth(k)')
           = (FirstMine(Nth(k)) \/ (Len(Nth(k).comments) = 0 /\ p = User))
      /\ ThreadVerdict([Nth(k)' EXCEPT !.hidden = FALSE], OwnPr', User)
           = IF p = User THEN IF OwnPr THEN "nothing" ELSE "waiting"
             ELSE IF OwnPr \/ FirstMine(Nth(k)) THEN "actionable" ELSE "nothing"
  BY GrowingVerdict DEF Known, Opened
<1>2. /\ Len(Nth(k).comments) < CommentLimit
      /\ Len(Nth(k)'.comments) = Len(Nth(k).comments) + 1
      /\ Nth(k)'.hidden = Nth(k).hidden
  BY DEF Grows
<1>3. CASE p = User
  <2>1. TurnOf(k)!MyComment
    BY <1>1, <1>2, <1>3, TurnVars, ToldVerdict
    DEF TurnOf!MyComment, TurnOf!Tell, Known, Noticed
  <2> QED BY <2>1 DEF TurnOf!Next
<1>4. CASE p # User
  <2>1. FirstMine(Nth(k)') = FirstMine(Nth(k))
    BY <1>1, <1>4 DEF FirstMine
  <2>2. TurnOf(k)!TheirComment
    BY <1>1, <1>2, <1>4, <2>1, TurnVars, ToldVerdict
    DEF TurnOf!TheirComment, TurnOf!Tell, Known, Noticed
  <2> QED BY <2>2 DEF TurnOf!Next
<1> QED BY <1>3, <1>4

LEMMA ReactingTakesTurns ==
    ASSUME NEW k, NEW p \in People, Known(k), Reacted(Nth(k), Nth(k)', p)
    PROVE  TurnOf(k)!Next
<1>1. ThreadVerdict([Nth(k)' EXCEPT !.hidden = FALSE], OwnPr', User)
        = IF p = User
          THEN IF LastMine(Nth(k))
               THEN ThreadVerdict([Nth(k) EXCEPT !.hidden = FALSE], OwnPr, User)
               ELSE "nothing"
          ELSE IF OwnPr /\ LastMine(Nth(k)) THEN "actionable"
               ELSE ThreadVerdict([Nth(k) EXCEPT !.hidden = FALSE], OwnPr, User)
  BY ReactedVerdict DEF Known, Opened
<1>2. /\ Len(Nth(k).comments) > 0
      /\ Len(Nth(k)'.comments) = Len(Nth(k).comments)
      /\ Nth(k)'.hidden = Nth(k).hidden
      /\ FirstMine(Nth(k)') = FirstMine(Nth(k))
      /\ LastMine(Nth(k)') = LastMine(Nth(k))
      /\ Noticed(Nth(k)) < ReactionLimit /\ Noticed(Nth(k)') = Noticed(Nth(k)) + 1
  <2>1. /\ Len(Nth(k).comments) > 0 /\ Parts(Nth(k)') = Parts(Nth(k))
        /\ Len(Reactions(Nth(k))) < ReactionLimit
        /\ Reactions(Nth(k)') = Append(Reactions(Nth(k)), p)
    BY DEF Reacted
  <2>2. Len(Nth(k)'.comments) > 0
    BY <2>1 DEF Parts
  <2>3. /\ Noticed(Nth(k)) = Len(Reactions(Nth(k)))
        /\ Noticed(Nth(k)') = Len(Reactions(Nth(k)'))
    BY <2>1, <2>2, ReactionsOfThread DEF Known, Noticed, Reactions
  <2>4. Len(Reactions(Nth(k)')) = Len(Reactions(Nth(k))) + 1
    BY <2>1, ReactionsOfThread, AppendProperties DEF Known
  <2> QED BY <2>1, <2>3, <2>4 DEF Parts
<1>3. CASE p = User
  <2>1. TurnOf(k)!MyReaction
    BY <1>1, <1>2, <1>3, TurnVars, ToldVerdict
    DEF TurnOf!MyReaction, TurnOf!Notice, TurnOf!Tell, Known, Noticed
  <2> QED BY <2>1 DEF TurnOf!Next
<1>4. CASE p # User
  <2>1. TurnOf(k)!TheirReaction
    BY <1>1, <1>2, <1>4, TurnVars, ToldVerdict
    DEF TurnOf!TheirReaction, TurnOf!Notice, TurnOf!Tell, Known, Noticed
  <2> QED BY <2>1 DEF TurnOf!Next
<1> QED BY <1>3, <1>4

LEMMA TogglingTakesTurns ==
    ASSUME NEW k, Known(k), Toggled(Nth(k), Nth(k)')
    PROVE  TurnOf(k)!Next
<1>1. /\ Len(Nth(k).comments) > 0
      /\ Len(Nth(k)'.comments) = Len(Nth(k).comments)
      /\ Nth(k)'.hidden = ~Nth(k).hidden
      /\ FirstMine(Nth(k)') = FirstMine(Nth(k))
      /\ LastMine(Nth(k)') = LastMine(Nth(k))
      /\ Reactions(Nth(k)') = Reactions(Nth(k))
      /\ Noticed(Nth(k)') = Noticed(Nth(k))
  BY DEF Toggled, FirstMine, LastMine, Reactions, Noticed
<1>2. ThreadVerdict([Nth(k)' EXCEPT !.hidden = FALSE], OwnPr', User)
        = ThreadVerdict([Nth(k) EXCEPT !.hidden = FALSE], OwnPr, User)
  BY <1>1, SameVerdict DEF Known, Opened
<1>3. TurnOf(k)!OpenOrShut
  BY <1>1, <1>2, TurnVars, ToldVerdict, CommentsOfThread
  DEF TurnOf!OpenOrShut, TurnOf!Tell, Known, Noticed
<1> QED BY <1>3 DEF TurnOf!Next

LEMMA SameTakesNoTurn ==
    ASSUME NEW k, Known(k), Same(Nth(k), Nth(k)')
    PROVE  UNCHANGED TurnOf(k)!turnVars
<1>1. /\ Len(Nth(k)'.comments) = Len(Nth(k).comments)
      /\ Nth(k)'.hidden = Nth(k).hidden
      /\ FirstMine(Nth(k)') = FirstMine(Nth(k))
      /\ LastMine(Nth(k)') = LastMine(Nth(k))
      /\ Len(Nth(k).comments) > 0 => Reactions(Nth(k)') = Reactions(Nth(k))
      /\ Noticed(Nth(k)') = Noticed(Nth(k))
  <2>1. /\ Parts(Nth(k)') = Parts(Nth(k))
        /\ Len(Nth(k).comments) > 0 => Reactions(Nth(k)') = Reactions(Nth(k))
    BY DEF Same
  <2>2. /\ Nth(k).comments = <<>> <=> Len(Nth(k).comments) = 0
        /\ Nth(k)'.comments = <<>> <=> Len(Nth(k)'.comments) = 0
        /\ Len(Nth(k).comments) \in Nat
    BY CommentsOfThread DEF Known
  <2> QED BY <2>1, <2>2 DEF Parts, Noticed, Reactions
<1>2. ThreadVerdict([Nth(k)' EXCEPT !.hidden = FALSE], OwnPr', User)
        = ThreadVerdict([Nth(k) EXCEPT !.hidden = FALSE], OwnPr, User)
  BY <1>1, SameVerdict DEF Known, Opened
<1>3. ThreadVerdict(Nth(k)', OwnPr', User) = ThreadVerdict(Nth(k), OwnPr, User)
  BY <1>1, <1>2, VerdictByParts DEF Known, Opened
<1> QED BY <1>1, <1>2, <1>3, TurnVars DEF TurnOf!turnVars, Known, Noticed
----------------------------------------------------------------------------
(* Every thread has a comment, GitHub has no others; and who comments      *)
(* renews the date.                                                        *)
TalkInv ==
    /\ node \in Node /\ node.updatedAt <= Now
    /\ \A j \in DOMAIN node.threads : Len(node.threads[j].comments) > 0
    /\ node.threads # <<>> => node.updatedAt = Now

LEMMA NodeParts ==
    ASSUME TalkInv
    PROVE  /\ node.threads \in Seq(Thread) /\ Len(node.threads) \in Nat
           /\ DOMAIN node.threads = 1..Len(node.threads)
           /\ \A j \in 1..Len(node.threads) : node.threads[j] \in Thread
<1>1. node.threads \in Seq(Thread)
  BY DEF TalkInv, Node
<1> QED BY <1>1, LenProperties, ElementOfSeq

LEMMA NthIsThread ==
    ASSUME TalkInv, NEW k \in 1..ThreadLimit
    PROVE  Nth(k) \in Thread
<1>1. k \in Nat /\ k >= 1
  BY LimitsAssumption
<1>2. CASE k <= Len(node.threads)
  <2>1. node.threads[k] \in Thread
    BY <1>1, <1>2, NodeParts
  <2> QED BY <1>2, <2>1, Answered DEF Nth
<1>3. CASE ~(k <= Len(node.threads))
  BY <1>3, EmptySeq DEF Nth, Thread
<1> QED BY <1>2, <1>3

LEMMA OneThreadChanges ==
    ASSUME TalkInv, NEW j \in DOMAIN node.threads, NEW t \in Thread,
           Len(t.comments) > 0, NEW d \in {Now, node.updatedAt},
           node' = [node EXCEPT !.updatedAt = d, !.threads[j] = t]
    PROVE  /\ TalkInv'
           /\ \A k \in 1..ThreadLimit :
                 /\ Known(k)
                 /\ k = j => /\ Nth(k) = AnsweredThread(node.threads[k])
                             /\ Nth(k)' = AnsweredThread(t)
                 /\ k # j => Nth(k)' = Nth(k)
<1>1. /\ j \in 1..Len(node.threads) /\ Len(node.threads) \in Nat
      /\ node.threads \in Seq(Thread)
  BY NodeParts
<1> DEFINE ts == [node.threads EXCEPT ![j] = t]
<1>2. /\ ts \in Seq(Thread) /\ Len(ts) = Len(node.threads)
      /\ \A k \in 1..Len(node.threads) : ts[k] = IF k = j THEN t ELSE node.threads[k]
  BY <1>1, ExceptSeq
<1>3. node' = [node EXCEPT !.updatedAt = d, !.threads = ts]
  BY DEF TalkInv, Node
<1> HIDE DEF ts
<1>4. /\ node' \in Node /\ node'.threads = ts /\ node'.author = node.author
      /\ node'.updatedAt = Now
  <2>1. node.threads # <<>> /\ d = Now /\ d \in Int
    BY <1>1, EmptySeq, UserAssumption DEF TalkInv
  <2> QED BY <1>2, <1>3, <2>1 DEF TalkInv, Node
<1>5. DOMAIN ts = 1..Len(node.threads) /\ DOMAIN node.threads = 1..Len(node.threads)
  BY <1>1, <1>2, LenProperties
<1>6. TalkInv'
  BY <1>2, <1>4, <1>5, UserAssumption DEF TalkInv
<1>7. ASSUME NEW k \in 1..ThreadLimit
      PROVE  /\ Known(k)
             /\ k = j => /\ Nth(k) = AnsweredThread(node.threads[k])
                         /\ Nth(k)' = AnsweredThread(t)
             /\ k # j => Nth(k)' = Nth(k)
  <2>1. k \in Nat /\ k >= 1
    BY LimitsAssumption
  <2>2. k = j => k <= Len(node.threads)
    BY <1>1
  <2>3. k <= Len(node.threads) => ts[k] = IF k = j THEN t ELSE node.threads[k]
    BY <1>1, <1>2, <2>1
  <2>4. Nth(k)' = IF k <= Len(ts) THEN AnsweredThread(ts[k])
                  ELSE [hidden |-> FALSE, comments |-> <<>>]
    BY <1>4 DEF Nth
  <2>5. /\ k = j => Nth(k)' = AnsweredThread(t)
        /\ k # j => Nth(k)' = Nth(k)
    BY <1>2, <2>2, <2>3, <2>4 DEF Nth
  <2>6. Nth(k) \in Thread
    BY NthIsThread
  <2>7. Nth(k)' \in Thread
    BY <2>5, <2>6, Answered
  <2> QED BY <1>4, <2>2, <2>5, <2>6, <2>7 DEF Known, OwnPr, Nth
<1> QED BY <1>6, <1>7

Turns == \A k \in 1..ThreadLimit : TakesTurns(k)

(* What p may do to all the threads that are asked for. *)
Talks(p) == \A k \in 1..ThreadLimit : Known(k) /\ Moves(Nth(k), Nth(k)', p)

LEMMA NoChange ==
    ASSUME NEW k, NEW p, Known(k), Nth(k)' = Nth(k)
    PROVE  Known(k) /\ Moves(Nth(k), Nth(k)', p)
  BY DEF Moves, Same

LEMMA TalkingTakesTurns ==
    ASSUME NEW p \in People, Talks(p)
    PROVE  Turns
<1> SUFFICES ASSUME NEW k \in 1..ThreadLimit PROVE TakesTurns(k)
  BY DEF Turns
<1>1. Known(k) /\ Moves(Nth(k), Nth(k)', p)
  BY DEF Talks
<1> QED BY <1>1, SameTakesNoTurn, GrowingTakesTurns, ReactingTakesTurns
        DEF Moves, TakesTurns

LEMMA StartStep ==
    ASSUME TalkInv, NEW p \in People, StartThread(p)
    PROVE  TalkInv' /\ Talks(p)
<1> DEFINE t == [hidden |-> FALSE, comments |-> <<Says(p)>>]
           n == Len(node.threads)
           ts == Append(node.threads, t)
<1>1. Says(p) \in Comment
  BY AnsweredSays
<1>2. t \in Thread /\ Len(t.comments) = 1 /\ t.comments[1] = Says(p)
  BY <1>1 DEF Thread
<1>3. n \in Nat /\ node.threads \in Seq(Thread)
  BY NodeParts
<1>4. node' = [node EXCEPT !.updatedAt = Now, !.threads = ts]
  BY DEF StartThread, TalkInv, Node
<1> HIDE DEF t
<1>5. /\ ts \in Seq(Thread) /\ Len(ts) = n + 1
      /\ \A k \in 1..n : ts[k] = node.threads[k]
      /\ ts[n + 1] = t
  BY <1>2, <1>3, AppendProperties
<1> HIDE DEF ts
<1>6. /\ node' \in Node /\ node'.threads = ts /\ node'.author = node.author
      /\ node'.updatedAt = Now
  BY <1>4, <1>5, UserAssumption DEF TalkInv, Node
<1>7. TalkInv'
  <2>1. DOMAIN ts = 1..(n + 1) /\ DOMAIN node.threads = 1..n
    BY <1>3, <1>5, LenProperties
  <2>2. ASSUME NEW j \in 1..(n + 1) PROVE Len(ts[j].comments) > 0
    <3>1. CASE j \in 1..n
      BY <1>5, <2>1, <3>1 DEF TalkInv
    <3>2. CASE j = n + 1
      BY <1>2, <1>5, <3>2
    <3> QED BY <1>3, <3>1, <3>2
  <2> QED BY <1>6, <2>1, <2>2, UserAssumption DEF TalkInv
<1>8. ASSUME NEW k \in 1..ThreadLimit
      PROVE  Known(k) /\ Moves(Nth(k), Nth(k)', p)
  <2>1. k \in Nat /\ k >= 1
    BY LimitsAssumption
  <2>2. Nth(k)' = IF k <= n + 1 THEN AnsweredThread(ts[k])
                  ELSE [hidden |-> FALSE, comments |-> <<>>]
    BY <1>5, <1>6 DEF Nth
  <2>3. Nth(k) \in Thread
    BY NthIsThread
  <2>4. CASE k # n + 1
    <3>1. Nth(k)' = Nth(k)
      BY <1>3, <1>5, <2>1, <2>2, <2>4 DEF Nth
    <3> QED BY <1>6, <2>3, <3>1, NoChange DEF Known, OwnPr
  <2>5. CASE k = n + 1
    <3>1. Nth(k)' = AnsweredThread(t)
      BY <1>3, <1>5, <2>2, <2>5
    <3>2. /\ Nth(k)' \in Thread /\ Nth(k)'.hidden = FALSE
          /\ Len(Nth(k)'.comments) = 1
          /\ Nth(k)'.comments[1] = AnsweredComment(Says(p))
      <4>1. AnsweredThread(t).hidden = FALSE
        BY <1>2, Answered DEF t
      <4>2. Len(AnsweredThread(t).comments) = 1
        <5>1. Len(AnsweredThread(t).comments)
                = IF 1 < CommentLimit THEN 1 ELSE CommentLimit
          BY <1>2, Answered
        <5> QED BY <5>1, LimitsAssumption
      <4> QED BY <1>2, <3>1, <4>1, <4>2, Answered
    <3>3. Nth(k) = [hidden |-> FALSE, comments |-> <<>>]
      BY <1>3, <2>5 DEF Nth
    <3>4. Grows(Nth(k), Nth(k)', p)
      <4>1. Len(Nth(k).comments) = 0 /\ Nth(k).hidden = FALSE
        BY <3>3, EmptySeq
      <4>2. CommentLimit \in Nat /\ 0 < CommentLimit
        BY LimitsAssumption
      <4>3. Nth(k)'.comments[Len(Nth(k)'.comments)] = AnsweredComment(Says(p))
        BY <3>2
      <4>4. /\ Len(Nth(k).comments) < CommentLimit
            /\ Len(Nth(k)'.comments) = Len(Nth(k).comments) + 1
            /\ ~(Len(Nth(k).comments) > 0)
        BY <3>2, <4>1, <4>2
      <4>5. Nth(k)'.hidden = Nth(k).hidden
        BY <3>2, <4>1
      <4> QED BY <4>3, <4>4, <4>5 DEF Grows
    <3>5. Known(k)
      BY <1>6, <2>3, <3>2 DEF Known, OwnPr
    <3> QED BY <3>4, <3>5 DEF Moves
  <2> QED BY <2>4, <2>5
<1> QED BY <1>7, <1>8 DEF Talks

LEMMA ReplyStep ==
    ASSUME TalkInv, NEW p \in People, NEW j \in DOMAIN node.threads, Reply(p, j)
    PROVE  TalkInv' /\ Talks(p)
<1> DEFINE old == node.threads[j]
           new == [old EXCEPT !.comments = Append(@, Says(p))]
           n == Len(old.comments)
<1>1. old \in Thread /\ n \in Nat /\ old.comments \in Seq(Comment)
  BY NodeParts, CommentsOfThread
<1>2. node' = [node EXCEPT !.updatedAt = Now, !.threads[j] = new]
  BY DEF Reply
<1>3. Says(p) \in Comment
  BY AnsweredSays
<1>4. /\ Append(old.comments, Says(p)) \in Seq(Comment)
      /\ Len(Append(old.comments, Says(p))) = n + 1
      /\ \A m \in 1..n : Append(old.comments, Says(p))[m] = old.comments[m]
      /\ Append(old.comments, Says(p))[n + 1] = Says(p)
  BY <1>1, <1>3, AppendProperties
<1>5. /\ new \in Thread /\ new.hidden = old.hidden
      /\ new.comments = Append(old.comments, Says(p))
  BY <1>1, <1>4 DEF Thread
<1>6. n > 0
  BY DEF TalkInv
<1> HIDE DEF old, new
<1>7. TalkInv' /\ \A k \in 1..ThreadLimit :
                    /\ Known(k)
                    /\ k = j => /\ Nth(k) = AnsweredThread(old)
                                /\ Nth(k)' = AnsweredThread(new)
                    /\ k # j => Nth(k)' = Nth(k)
  <2>1. Len(new.comments) > 0
    BY <1>1, <1>4, <1>5
  <2> QED BY <1>2, <1>5, <2>1, OneThreadChanges DEF old
<1>8. ASSUME NEW k \in 1..ThreadLimit, k = j
      PROVE  Known(k) /\ Moves(Nth(k), Nth(k)', p)
  <2> DEFINE t == AnsweredThread(old)
             u == AnsweredThread(new)
  <2>1. Known(k) /\ Nth(k) = t /\ Nth(k)' = u
    BY <1>7, <1>8
  <2>2. /\ t.hidden = u.hidden
        /\ Len(t.comments) = IF n < CommentLimit THEN n ELSE CommentLimit
        /\ Len(u.comments) = IF n + 1 < CommentLimit THEN n + 1 ELSE CommentLimit
        /\ \A m \in 1..Len(t.comments) : t.comments[m] = AnsweredComment(old.comments[m])
        /\ \A m \in 1..Len(u.comments) : u.comments[m] = AnsweredComment(new.comments[m])
    BY <1>1, <1>4, <1>5, Answered
  <2>3. CommentLimit \in Nat /\ CommentLimit > 0
    BY LimitsAssumption
  <2> HIDE DEF t, u
  <2>4. \A m \in 1..n : m <= Len(t.comments) => u.comments[m] = t.comments[m]
    BY <1>1, <1>4, <1>5, <2>2, <2>3
  <2>5. CASE n < CommentLimit
    <3>1. Len(t.comments) = n /\ Len(u.comments) = n + 1
      BY <1>1, <2>2, <2>3, <2>5
    <3>2. u.comments[n + 1] = AnsweredComment(Says(p))
      BY <1>1, <1>4, <1>5, <2>2, <3>1
    <3>3. u.comments[1] = t.comments[1]
      BY <1>1, <1>6, <2>4, <3>1
    <3>4. Grows(t, u, p)
      BY <2>2, <2>5, <3>1, <3>2, <3>3 DEF Grows
    <3> QED BY <2>1, <3>4 DEF Moves
  <2>6. CASE ~(n < CommentLimit)
    <3>1. /\ Len(t.comments) = CommentLimit /\ Len(u.comments) = CommentLimit
          /\ CommentLimit \in 1..n /\ 1 \in 1..n
      BY <1>1, <2>2, <2>3, <2>6
    <3>2. /\ u.comments[1] = t.comments[1]
          /\ u.comments[CommentLimit] = t.comments[CommentLimit]
      BY <2>3, <2>4, <3>1
    <3>3. DOMAIN t.comments = DOMAIN u.comments
      BY <1>1, <1>5, <3>1, Answered, CommentsOfThread DEF t, u
    <3>4. Same(t, u)
      BY <2>2, <3>1, <3>2, <3>3 DEF Same, Parts, FirstMine, LastMine, Reactions
    <3> QED BY <2>1, <3>4 DEF Moves
  <2> QED BY <2>5, <2>6
<1>9. ASSUME NEW k \in 1..ThreadLimit, k # j
      PROVE  Known(k) /\ Moves(Nth(k), Nth(k)', p)
  BY <1>7, <1>9, NoChange
<1> QED BY <1>7, <1>8, <1>9 DEF Talks

LEMMA ReactStep ==
    ASSUME TalkInv, NEW p \in People, NEW j \in DOMAIN node.threads,
           NEW m \in DOMAIN node.threads[j].comments, React(p, j, m)
    PROVE  TalkInv' /\ Talks(p)
<1> DEFINE old == node.threads[j]
           c == [old.comments[m] EXCEPT !.reactions = Append(@, p)]
           cs == [old.comments EXCEPT ![m] = c]
           new == [old EXCEPT !.comments = cs]
           n == Len(old.comments)
<1>1. /\ old \in Thread /\ n \in Nat /\ old.comments \in Seq(Comment)
      /\ m \in 1..n /\ old.comments[m] \in Comment
  BY NodeParts, CommentsOfThread
<1>2. node' = [node EXCEPT !.updatedAt = node.updatedAt, !.threads[j] = new]
  BY DEF React, TalkInv, Node
<1>3. /\ c \in Comment /\ c.by = old.comments[m].by
      /\ c.reactions = Append(old.comments[m].reactions, p)
      /\ old.comments[m].reactions \in Seq(People)
  BY <1>1, AppendProperties DEF Comment
<1> HIDE DEF c
<1>4. /\ cs \in Seq(Comment) /\ Len(cs) = n
      /\ \A i \in 1..n : cs[i] = IF i = m THEN c ELSE old.comments[i]
  BY <1>1, <1>3, ExceptSeq
<1> HIDE DEF cs
<1>5. new \in Thread /\ new.hidden = old.hidden /\ new.comments = cs
  BY <1>1, <1>4 DEF Thread
<1> HIDE DEF old, new
<1>6. TalkInv' /\ \A k \in 1..ThreadLimit :
                    /\ Known(k)
                    /\ k = j => /\ Nth(k) = AnsweredThread(old)
                                /\ Nth(k)' = AnsweredThread(new)
                    /\ k # j => Nth(k)' = Nth(k)
  <2>1. Len(new.comments) > 0
    BY <1>1, <1>4, <1>5
  <2> QED BY <1>2, <1>5, <2>1, OneThreadChanges DEF old
<1>7. ASSUME NEW k \in 1..ThreadLimit, k = j
      PROVE  Known(k) /\ Moves(Nth(k), Nth(k)', p)
  <2> DEFINE t == AnsweredThread(old)
             u == AnsweredThread(new)
             l == IF n < CommentLimit THEN n ELSE CommentLimit
  <2>1. Known(k) /\ Nth(k) = t /\ Nth(k)' = u
    BY <1>6, <1>7
  <2>2. /\ t.hidden = u.hidden /\ Len(t.comments) = l /\ Len(u.comments) = l
        /\ \A i \in 1..l : t.comments[i] = AnsweredComment(old.comments[i])
        /\ \A i \in 1..l : u.comments[i] = AnsweredComment(cs[i])
    BY <1>1, <1>4, <1>5, Answered
  <2>3. l \in Nat /\ l > 0 /\ l <= n
    BY <1>1, LimitsAssumption
  <2>4. DOMAIN t.comments = 1..l /\ DOMAIN u.comments = 1..l
    BY <1>1, <1>5, <2>2, Answered, CommentsOfThread
  <2> HIDE DEF t, u, l
  <2>5. \A i \in 1..l : u.comments[i] = IF i = m THEN AnsweredComment(c)
                                       ELSE t.comments[i]
    BY <1>1, <1>4, <2>2, <2>3
  <2>6. \A i \in 1..l : u.comments[i].by = t.comments[i].by
    <3>1. m \in 1..l => t.comments[m].by = AnsweredComment(c).by
      BY <1>1, <1>3, <2>2, AnsweredOne
    <3> QED BY <2>5, <3>1
  <2>7. Parts(u) = Parts(t)
    <3>1. FirstMine(u) = FirstMine(t)
      BY <2>3, <2>4, <2>6 DEF FirstMine
    <3>2. LastMine(u) = LastMine(t)
      BY <2>2, <2>3, <2>4, <2>6 DEF LastMine
    <3> QED BY <2>2, <3>1, <3>2 DEF Parts
  <2>8. CASE m = l
    <3> DEFINE rs == old.comments[m].reactions
    <3>1. /\ Reactions(t) = FirstOf(ReactionLimit, rs)
          /\ Reactions(u) = FirstOf(ReactionLimit, Append(rs, p))
      <4>1. l \in 1..l
        BY <2>3
      <4>2. t.comments[l] = AnsweredComment(old.comments[m])
        BY <2>2, <2>8, <4>1
      <4>3. u.comments[l] = AnsweredComment(c)
        BY <2>5, <2>8, <4>1
      <4>4. /\ AnsweredComment(old.comments[m]).reactions = FirstOf(ReactionLimit, rs)
            /\ AnsweredComment(c).reactions = FirstOf(ReactionLimit, Append(rs, p))
        BY <1>1, <1>3, AnsweredOne
      <4> QED BY <2>2, <4>2, <4>3, <4>4 DEF Reactions
    <3>2. /\ rs \in Seq(People) /\ ReactionLimit \in Nat
          /\ Len(Reactions(t)) = IF Len(rs) < ReactionLimit THEN Len(rs)
                                 ELSE ReactionLimit
          /\ Len(rs) \in Nat
      BY <1>3, <3>1, LimitsAssumption, FirstOfProperties, LenProperties
    <3> HIDE DEF rs
    <3>3. CASE Len(rs) < ReactionLimit
      <4>1. Reactions(u) = Append(Reactions(t), p)
        BY <3>1, <3>2, <3>3, FirstOfAppend
      <4>2. Reacted(t, u, p)
        BY <2>2, <2>3, <2>7, <3>2, <3>3, <4>1 DEF Reacted
      <4> QED BY <2>1, <4>2 DEF Moves
    <3>4. CASE ~(Len(rs) < ReactionLimit)
      <4>1. Reactions(u) = Reactions(t)
        BY <3>1, <3>2, <3>4, FirstOfAppend
      <4> QED BY <2>1, <2>7, <4>1 DEF Moves, Same
    <3> QED BY <3>3, <3>4
  <2>9. CASE m # l
    <3>1. Reactions(u) = Reactions(t)
      BY <2>2, <2>3, <2>5, <2>9 DEF Reactions
    <3>2. Same(t, u)
      BY <2>7, <3>1 DEF Same
    <3> QED BY <2>1, <3>2 DEF Moves
  <2> QED BY <2>8, <2>9
<1>8. ASSUME NEW k \in 1..ThreadLimit, k # j
      PROVE  Known(k) /\ Moves(Nth(k), Nth(k)', p)
  BY <1>6, <1>8, NoChange
<1> QED BY <1>6, <1>7, <1>8 DEF Talks

LEMMA ToggleStep ==
    ASSUME TalkInv, NEW j \in DOMAIN node.threads, Toggle(j)
    PROVE  TalkInv' /\ Turns
<1> DEFINE old == node.threads[j]
           new == [old EXCEPT !.hidden = ~@]
<1>1. old \in Thread /\ Len(old.comments) > 0
  BY NodeParts DEF TalkInv
<1>2. node' = [node EXCEPT !.updatedAt = node.updatedAt, !.threads[j] = new]
  BY DEF Toggle, TalkInv, Node
<1>3. new \in Thread /\ new.hidden = ~old.hidden /\ new.comments = old.comments
  BY <1>1 DEF Thread
<1> HIDE DEF old, new
<1>4. TalkInv' /\ \A k \in 1..ThreadLimit :
                    /\ Known(k)
                    /\ k = j => /\ Nth(k) = AnsweredThread(old)
                                /\ Nth(k)' = AnsweredThread(new)
                    /\ k # j => Nth(k)' = Nth(k)
  <2>1. Len(new.comments) > 0
    BY <1>1, <1>3
  <2> QED BY <1>2, <1>3, <2>1, OneThreadChanges DEF old
<1>5. Toggled(AnsweredThread(old), AnsweredThread(new))
  <2>1. AnsweredThread(new).comments = AnsweredThread(old).comments
    BY <1>1, <1>3 DEF AnsweredThread, Thread
  <2>2. AnsweredThread(new).hidden = ~AnsweredThread(old).hidden
    BY <1>1, <1>3, Answered
  <2>3. Len(AnsweredThread(old).comments) > 0
    BY <1>1, Answered, CommentsOfThread, LimitsAssumption
  <2> QED BY <2>1, <2>2, <2>3 DEF Toggled
<1>6. ASSUME NEW k \in 1..ThreadLimit
      PROVE  TakesTurns(k)
  <2>1. CASE k = j
    BY <1>4, <1>5, <2>1, TogglingTakesTurns DEF TakesTurns
  <2>2. CASE k # j
    BY <1>4, <2>2, SameTakesNoTurn DEF Same, TakesTurns
  <2> QED BY <2>1, <2>2
<1> QED BY <1>4, <1>6 DEF Turns

LEMMA QuietStep ==
    ASSUME TalkInv, node' \in Node, node'.threads = node.threads,
           node'.author = node.author, node'.updatedAt = Now, NEW p
    PROVE  /\ TalkInv' /\ Talks(p)
           /\ \A k \in 1..ThreadLimit : Nth(k)' = Nth(k)
<1>1. TalkInv'
  BY UserAssumption DEF TalkInv
<1>2. ASSUME NEW k \in 1..ThreadLimit
      PROVE  /\ Known(k) /\ Moves(Nth(k), Nth(k)', p)
             /\ Nth(k)' = Nth(k)
  <2>1. Nth(k)' = Nth(k) /\ OwnPr' = OwnPr
    BY DEF Nth, OwnPr
  <2>2. Known(k)
    BY <2>1, NthIsThread DEF Known, OwnPr
  <2> QED BY <2>1, <2>2, NoChange
<1> QED BY <1>1, <1>2 DEF Talks

LEMMA TalkStep ==
    ASSUME TalkInv, NEW p \in People, TalkInThreads(p)
    PROVE  TalkInv' /\ Talks(p)
  BY StartStep, ReplyStep, ReactStep DEF TalkInThreads

LEMMA CommentStep ==
    ASSUME TalkInv, NEW p \in People, CommentOnPr(p)
    PROVE  /\ TalkInv' /\ Talks(p)
           /\ \A k \in 1..ThreadLimit : Nth(k)' = Nth(k)
           /\ node' = [node EXCEPT !.updatedAt = Now,
                                   !.comments = Append(node.comments, p)]
           /\ node'.comments = Append(node.comments, p) /\ node'.updatedAt = Now
<1>1. node.comments \in Seq(People)
  BY DEF TalkInv, Node
<1>2. Append(node.comments, p) \in Seq(People)
  BY <1>1, AppendProperties
<1>3. /\ node' = [node EXCEPT !.updatedAt = Now,
                              !.comments = Append(node.comments, p)]
      /\ node' \in Node /\ node'.threads = node.threads
      /\ node'.author = node.author /\ node'.updatedAt = Now
      /\ node'.comments = Append(node.comments, p)
  BY <1>2, UserAssumption DEF CommentOnPr, TalkInv, Node
<1> QED BY <1>3, QuietStep

LEMMA TalkStarts == TalkInit => TalkInv /\ \A k \in 1..ThreadLimit : TurnOf(k)!Init
<1> SUFFICES ASSUME TalkInit
             PROVE  TalkInv /\ \A k \in 1..ThreadLimit : TurnOf(k)!Init
  OBVIOUS
<1>1. node \in Node /\ node.threads = <<>> /\ node.updatedAt < Now
  BY NodesAssumption DEF TalkInit
<1>2. TalkInv
  BY <1>1, EmptySeq, UserAssumption DEF TalkInv, Node
<1>3. ASSUME NEW k \in 1..ThreadLimit PROVE TurnOf(k)!Init
  <2>1. Nth(k) = [hidden |-> FALSE, comments |-> <<>>]
    BY <1>1, EmptySeq DEF Nth
  <2>2. Len(Nth(k).comments) = 0 /\ Nth(k).comments = <<>> /\ ~Nth(k).hidden
    BY <2>1, EmptySeq
  <2>3. \A i : MineAt(k, i) = FALSE
    BY <2>2, EmptySeq DEF MineAt
  <2>4. /\ ThreadVerdict(Nth(k), OwnPr, User) = "nothing"
        /\ ThreadVerdict([Nth(k) EXCEPT !.hidden = FALSE], OwnPr, User) = "nothing"
    BY <2>1 DEF ThreadVerdict
  <2> QED BY <2>1, <2>2, <2>3, <2>4 DEF TurnOf!Init, OwnPr
<1> QED BY <1>2, <1>3

LEMMA TalkKeeps == TalkInv /\ [TalkNext]_talkVars => TalkInv' /\ [Turns]_talkVars
<1> SUFFICES ASSUME TalkInv, [TalkNext]_talkVars
             PROVE  TalkInv' /\ [Turns]_talkVars
  OBVIOUS
<1>1. ASSUME NEW p \in Talkers, TalkInThreads(p)
      PROVE  TalkInv' /\ Turns
  BY <1>1, TalkersAssumption, TalkStep, TalkingTakesTurns
<1>2. ASSUME NEW j \in DOMAIN node.threads, Toggle(j)
      PROVE  TalkInv' /\ Turns
  BY <1>2, ToggleStep
<1>3. ASSUME NEW p \in (Talkers \cup Bots) \ {NoOne}, CommentOnPr(p)
      PROVE  TalkInv' /\ Turns
  BY <1>3, TalkersAssumption, BotsAssumption, CommentStep, TalkingTakesTurns
<1>4. CASE UNCHANGED talkVars
  BY <1>4 DEF talkVars, TalkInv
<1> QED BY <1>1, <1>2, <1>3, <1>4 DEF TalkNext

LEMMA TalkInvariant == TalkSpec => []TalkInv
  BY TalkStarts, TalkKeeps, PTL DEF TalkSpec

(* Of every number of people, threads and comments, and for all limits of  *)
(* the query: the rules of actionableThreads tell whose turn it is.        *)
THEOREM RulesTellTheTurn == TalkSpec => ThreadsFollowTurns
  BY TalkStarts, TalkKeeps, PTL DEF TalkSpec, ThreadsFollowTurns, Turns

----------------------------------------------------------------------------
(* How many threads there are with a verdict. *)

Seen == IF Len(node.threads) < ThreadLimit THEN Len(node.threads) ELSE ThreadLimit
Verdict(k) == ThreadVerdict(Nth(k), OwnPr, User)
With(verdict) == {k \in 1..Seen : Verdict(k) = verdict}

LEMMA SeenThreads ==
    ASSUME TalkInv
    PROVE  /\ Seen \in 0..ThreadLimit
           /\ DOMAIN AnsweredThreads(node) = 1..Seen
           /\ \A k \in 1..Seen : /\ AnsweredThreads(node)[k] = Nth(k)
                                 /\ Nth(k) \in Thread
                                 /\ Len(Nth(k).comments) > 0
<1>1. node.threads \in Seq(Thread) /\ ThreadLimit \in Nat /\ Len(node.threads) \in Nat
  BY NodeParts, LimitsAssumption
<1>2. /\ Len(FirstOf(ThreadLimit, node.threads)) = Seen
      /\ FirstOf(ThreadLimit, node.threads) \in Seq(Thread)
      /\ \A k \in 1..Seen : FirstOf(ThreadLimit, node.threads)[k] = node.threads[k]
  BY <1>1, FirstOfProperties DEF Seen
<1>3. DOMAIN FirstOf(ThreadLimit, node.threads) = 1..Seen
  BY <1>2, LenProperties
<1>4. Seen \in 0..ThreadLimit /\ Seen <= Len(node.threads)
  BY <1>1 DEF Seen
<1>5. ASSUME NEW k \in 1..Seen
      PROVE  /\ AnsweredThreads(node)[k] = Nth(k)
             /\ Nth(k) \in Thread /\ Len(Nth(k).comments) > 0
  <2>1. k \in 1..Len(node.threads) /\ k \in 1..ThreadLimit
    BY <1>1, <1>4
  <2>2. Nth(k) = AnsweredThread(node.threads[k])
    BY <1>1, <2>1 DEF Nth
  <2>3. AnsweredThreads(node)[k] = Nth(k)
    BY <1>2, <1>3, <2>2 DEF AnsweredThreads
  <2>4. node.threads[k] \in Thread /\ Len(node.threads[k].comments) > 0
    BY <2>1, NodeParts DEF TalkInv
  <2>5. Len(node.threads[k].comments) \in Nat
    BY <2>4, CommentsOfThread
  <2>6. Len(Nth(k).comments) > 0
    BY <2>2, <2>4, <2>5, Answered, LimitsAssumption
  <2> QED BY <2>1, <2>3, <2>6, NthIsThread
<1> QED BY <1>3, <1>4, <1>5 DEF AnsweredThreads

LEMMA CountedThreads ==
    ASSUME TalkInv, NEW verdict
    PROVE  /\ ThreadsWith(node, verdict, User) = With(verdict)
           /\ IsFiniteSet(With(verdict))
           /\ CountThreads(node, verdict, User) \in Nat
           /\ CountThreads(node, verdict, User) = Cardinality(With(verdict))
           /\ CountThreads(node, verdict, User) > 0 <=> With(verdict) # {}
<1>1. ThreadsWith(node, verdict, User) = With(verdict)
  BY SeenThreads DEF ThreadsWith, With, Verdict, OwnPr
<1>2. IsFiniteSet(With(verdict))
  <2>1. IsFiniteSet(1..Seen) /\ With(verdict) \subseteq 1..Seen
    BY SeenThreads, FS_Interval DEF With
  <2> QED BY <2>1, FS_Subset
<1>3. Cardinality(With(verdict)) \in Nat
  BY <1>2, FS_CardinalityType
<1>4. Cardinality(With(verdict)) = 0 <=> With(verdict) = {}
  BY <1>2, FS_EmptySet
<1> QED BY <1>1, <1>2, <1>3, <1>4 DEF CountThreads

(* A thread that is not there yet has no verdict.                          *)
LEMMA WithVerdict ==
    ASSUME TalkInv, NEW verdict, verdict # "nothing"
    PROVE  With(verdict) # {} <=> \E k \in 1..ThreadLimit : Verdict(k) = verdict
<1>1. Seen \in 0..ThreadLimit /\ ThreadLimit \in Nat
  BY SeenThreads, LimitsAssumption
<1>2. ASSUME NEW k \in 1..ThreadLimit, k \notin 1..Seen
      PROVE  Verdict(k) = "nothing"
  <2>1. k > Len(node.threads)
    BY <1>1, <1>2, NodeParts DEF Seen
  <2>2. Nth(k) = [hidden |-> FALSE, comments |-> <<>>]
    BY <2>1, NodeParts DEF Nth
  <2> QED BY <2>2 DEF Verdict, ThreadVerdict
<1> QED BY <1>1, <1>2 DEF With

(* The verdict of an open thread is told by the rules for it.              *)
LEMMA RuledVerdict ==
    ASSUME TalkInv, NEW k \in 1..Seen
    PROVE  Verdict(k) = IF Nth(k).hidden THEN "nothing"
                        ELSE Rule(OwnPr, FirstMine(Nth(k)), LastMine(Nth(k)),
                                  Reactions(Nth(k)))
<1>1. Nth(k) \in Thread /\ Len(Nth(k).comments) > 0 /\ OwnPr \in BOOLEAN
  BY SeenThreads DEF OwnPr
<1>2. Len(Nth(k).comments) # 0
  BY <1>1
<1> QED BY <1>1, <1>2, VerdictByParts DEF Verdict

LEMMA ViewedCounts ==
    ASSUME TalkInv
    PROVE  /\ Pr1.threadsActionable \in Nat /\ Pr1.threadsWaiting \in Nat
           /\ Pr1.threadsActionable = Cardinality(With("actionable"))
           /\ Pr1.threadsWaiting = Cardinality(With("waiting"))
           /\ Pr1.threadsActionable > 0 <=> With("actionable") # {}
           /\ Pr1.threadsWaiting > 0 <=> With("waiting") # {}
  BY CountedThreads DEF Pr1, ViewPr

LEMMA Fuzzed == TalkInv => FuzzedPromises
<1> SUFFICES ASSUME TalkInv PROVE FuzzedPromises
  OBVIOUS
<1> DEFINE seen == AnsweredThreads(node)
           open == {t \in ToSet(seen) : ~t.hidden /\ t.comments # <<>>}
           unmoved == {t \in open : t.comments[Len(t.comments)].reactions = <<>>}
           openAt == {k \in DOMAIN seen : seen[k] \in open}
<1>1. /\ DOMAIN seen = 1..Seen
      /\ \A k \in 1..Seen : /\ seen[k] = Nth(k) /\ Nth(k) \in Thread
                            /\ Len(Nth(k).comments) > 0
  BY SeenThreads
<1>2. \A k \in 1..Seen :
         /\ Len(Nth(k).comments) \in 1..Len(Nth(k).comments)
         /\ 1 \in 1..Len(Nth(k).comments)
         /\ DOMAIN Nth(k).comments = 1..Len(Nth(k).comments)
         /\ Nth(k).comments # <<>>
  BY <1>1, CommentsOfThread
<1>3. \A k \in 1..Seen : Nth(k) \in open <=> ~Nth(k).hidden
  BY <1>1, <1>2 DEF ToSet
<1>4. \A t \in open : \E k \in 1..Seen : t = Nth(k) /\ ~Nth(k).hidden
  BY <1>1 DEF ToSet
<1>5. \A k \in 1..Seen :
         /\ FirstMine(Nth(k)) => HasComment(Nth(k), User)
         /\ LastMine(Nth(k)) <=> LastBy(Nth(k), User)
         /\ Nth(k) \in unmoved <=> Nth(k) \in open /\ Reactions(Nth(k)) = <<>>
  BY <1>2 DEF FirstMine, LastMine, HasComment, LastBy, Reactions
<1>12. ToSet(<<>>) = {}
  BY DEF ToSet
<1> HIDE DEF seen, open, unmoved
<1>6. unmoved \subseteq open
  BY DEF unmoved
<1>7. (~OwnPr /\ \A t \in open : ~HasComment(t, User)) => With("actionable") = {}
  <2> SUFFICES ASSUME ~OwnPr, \A t \in open : ~HasComment(t, User),
                      NEW k \in 1..Seen, Verdict(k) = "actionable"
               PROVE  FALSE
    BY DEF With
  <2>1. ~Nth(k).hidden /\ FirstMine(Nth(k))
    BY RuledVerdict DEF Rule
  <2> QED BY <1>3, <1>5, <2>1
<1>8. (OwnPr /\ \E t \in unmoved : ~LastBy(t, User)) => With("actionable") # {}
  <2> SUFFICES ASSUME OwnPr, NEW t \in unmoved, ~LastBy(t, User)
               PROVE  With("actionable") # {}
    OBVIOUS
  <2>1. PICK k \in 1..Seen : t = Nth(k) /\ ~Nth(k).hidden
    BY <1>4, <1>6
  <2>2. ~LastMine(Nth(k)) /\ ToSet(Reactions(Nth(k))) = {}
    BY <1>5, <1>12, <2>1
  <2>3. Verdict(k) = "actionable"
    BY <2>1, <2>2, RuledVerdict DEF Rule
  <2> QED BY <2>3 DEF With
<1>9. (OwnPr /\ \A t \in open : t \in unmoved /\ LastBy(t, User))
         => With("actionable") = {}
  <2> SUFFICES ASSUME OwnPr, \A t \in open : t \in unmoved /\ LastBy(t, User),
                      NEW k \in 1..Seen, Verdict(k) = "actionable"
               PROVE  FALSE
    BY DEF With
  <2>1. ~Nth(k).hidden
    BY RuledVerdict
  <2>2. LastMine(Nth(k)) /\ ToSet(Reactions(Nth(k))) = {}
    BY <1>3, <1>5, <1>12, <2>1
  <2> QED BY <2>1, <2>2, RuledVerdict DEF Rule
<1>10. Cardinality(With("actionable")) + Cardinality(With("waiting"))
         <= Cardinality(openAt)
  <2> DEFINE a == With("actionable")
             w == With("waiting")
  <2>1. IsFiniteSet(a) /\ IsFiniteSet(w)
    BY CountedThreads
  <2>2. a \cap w = {}
    BY DEF With
  <2>3. a \cup w \subseteq openAt
    <3> SUFFICES ASSUME NEW k \in a \cup w PROVE k \in openAt
      OBVIOUS
    <3>1. k \in 1..Seen /\ Verdict(k) # "nothing"
      BY DEF With
    <3>2. ~Nth(k).hidden
      BY <3>1, RuledVerdict
    <3> QED BY <1>1, <1>3, <3>1, <3>2
  <2>4. IsFiniteSet(openAt)
    <3>1. openAt \subseteq 1..Seen /\ IsFiniteSet(1..Seen)
      BY <1>1, SeenThreads, FS_Interval
    <3> QED BY <3>1, FS_Subset
  <2> HIDE DEF a, w, openAt
  <2>5. /\ IsFiniteSet(a \cup w)
        /\ Cardinality(a \cup w)
             = Cardinality(a) + Cardinality(w) - Cardinality(a \cap w)
    BY <2>1, FS_Union
  <2>6. Cardinality(a \cap w) = 0
    BY <2>2, FS_EmptySet
  <2>7. Cardinality(a \cup w) <= Cardinality(openAt)
    BY <2>3, <2>4, FS_Subset
  <2>8. Cardinality(a) \in Nat /\ Cardinality(w) \in Nat
    BY <2>1, FS_CardinalityType
  <2>9. Cardinality(a) + Cardinality(w) <= Cardinality(openAt)
    BY <2>5, <2>6, <2>7, <2>8
  <2> QED BY <2>9 DEF a, w
<1>11. With("actionable") = {} => Pr1.threadsActionable = 0
  BY ViewedCounts
<1> QED BY <1>7, <1>8, <1>9, <1>10, <1>11, ViewedCounts
        DEF FuzzedPromises, seen, open, unmoved

(* What the disabled fuzz test asks of one thread holds of any number of   *)
(* them, of any length, whoever takes part and whatever is asked for.      *)
THEOREM FuzzTestHolds == TalkSpec => []FuzzedPromises
  BY TalkInvariant, Fuzzed, PTL

----------------------------------------------------------------------------
(* Who commented last, of those the query asks for and who are no bots. *)

LEMMA GreatestExists ==
    ASSUME NEW n \in Nat, NEW T, T \subseteq 1..n, T # {}
    PROVE  \E k \in T : \A l \in T : l <= k
<1> DEFINE R == {n - k : k \in T}
<1>1. R \subseteq Nat /\ R # {}
  <2>1. \A k \in T : k \in 1..n /\ n - k \in Nat
    OBVIOUS
  <2> QED BY <2>1, Zenon
<1>2. PICK x \in R : \A y \in R : ~(<<y, x>> \in OpToRel(<, Nat))
  <2> HIDE DEF R
  <2> QED BY <1>1, NatLessThanWellFounded, WFMin
<1>3. \A y \in R : ~(y < x)
  BY <1>1, <1>2 DEF OpToRel
<1>4. PICK k \in T : x = n - k
  OBVIOUS
<1>5. \A l \in T : ~(n - l < n - k)
  BY <1>3, <1>4
<1> QED BY <1>5

LEMMA LastOther ==
    ASSUME NEW s \in Seq(People), NEW k \in 1..Len(s), s[k] \notin Bots,
           \A l \in 1..Len(s) : l > k => s[l] \in Bots
    PROVE  LastPrCommenter(s) = s[k]
<1> DEFINE others == {l \in DOMAIN s : s[l] \notin Bots}
<1>1. DOMAIN s = 1..Len(s) /\ Len(s) \in Nat
  BY LenProperties
<1>2. k \in others /\ \A l \in others : l \in Nat /\ l <= k
  BY <1>1
<1>3. (CHOOSE m \in others : \A l \in others : l <= m) = k
  <2> DEFINE m == CHOOSE m \in others : \A l \in others : l <= m
  <2> HIDE DEF others
  <2>1. m \in others /\ \A l \in others : l <= m
    BY <1>2
  <2> HIDE DEF m
  <2>2. m = k
    BY <1>2, <2>1
  <2> QED BY <2>2 DEF m
<1> QED BY <1>2, <1>3 DEF LastPrCommenter

LEMMA LastOthers ==
    ASSUME NEW s \in Seq(People)
    PROVE  /\ LastPrCommenter(s) \in People
           /\ \/ LastPrCommenter(s) = NoOne
              \/ \E k \in 1..Len(s) :
                    /\ s[k] \notin Bots /\ LastPrCommenter(s) = s[k]
                    /\ \A l \in 1..Len(s) : l > k => s[l] \in Bots
<1> DEFINE others == {l \in DOMAIN s : s[l] \notin Bots}
<1>1. /\ DOMAIN s = 1..Len(s) /\ Len(s) \in Nat
      /\ \A l \in 1..Len(s) : s[l] \in People
  BY LenProperties, ElementOfSeq
<1>2. CASE others = {}
  BY <1>2, NoOneAssumption DEF LastPrCommenter
<1>3. CASE others # {}
  <2>1. others \subseteq 1..Len(s)
    BY <1>1
  <2>2. PICK k \in others : \A l \in others : l <= k
    <3> HIDE DEF others
    <3> QED BY <1>1, <1>3, <2>1, GreatestExists
  <2>3. k \in 1..Len(s) /\ s[k] \notin Bots
    BY <1>1
  <2>4. \A l \in 1..Len(s) : l > k => s[l] \in Bots
    BY <1>1, <2>2
  <2>5. LastPrCommenter(s) = s[k]
    BY <2>3, <2>4, LastOther
  <2> QED BY <1>1, <2>3, <2>4, <2>5
<1> QED BY <1>2, <1>3

LEMMA LastOfProperties ==
    ASSUME NEW S, NEW s \in Seq(S), NEW n \in Nat \ {0}
    PROVE  LET from == IF Len(s) < n THEN 0 ELSE Len(s) - n
           IN  /\ LastOf(n, s) \in Seq(S)
               /\ Len(LastOf(n, s)) = Len(s) - from
               /\ \A m \in 1..(Len(s) - from) : LastOf(n, s)[m] = s[from + m]
<1> DEFINE from == IF Len(s) < n THEN 0 ELSE Len(s) - n
<1>1. /\ Len(s) \in Nat /\ from \in 0..Len(s)
      /\ from + 1 = IF Len(s) < n THEN 1 ELSE Len(s) - n + 1
  BY LenProperties
<1>2. LastOf(n, s) = SubSeq(s, from + 1, Len(s))
  BY <1>1 DEF LastOf
<1> HIDE DEF from
<1>3. \A m \in (from + 1)..Len(s) : s[m] \in S
  BY <1>1, ElementOfSeq
<1>4. /\ SubSeq(s, from + 1, Len(s)) \in Seq(S)
      /\ Len(SubSeq(s, from + 1, Len(s)))
           = IF from + 1 <= Len(s) THEN Len(s) - (from + 1) + 1 ELSE 0
      /\ \A m \in 1..(Len(s) - (from + 1) + 1) :
            SubSeq(s, from + 1, Len(s))[m] = s[from + 1 + m - 1]
  BY <1>1, <1>3, SubSeqProperties
<1>5. Len(s) - (from + 1) + 1 = Len(s) - from
  BY <1>1
<1>6. \A m \in 1..(Len(s) - from) : from + 1 + m - 1 = from + m
  BY <1>1
<1>7. Len(LastOf(n, s)) = Len(s) - from
  BY <1>1, <1>2, <1>4
<1>8. \A m \in 1..(Len(s) - from) : LastOf(n, s)[m] = s[from + m]
  BY <1>2, <1>4, <1>5, <1>6
<1> QED BY <1>2, <1>4, <1>7, <1>8 DEF from

(* A bot's comment can only push somebody's out of what is asked for.      *)
LEMMA BotComments ==
    ASSUME NEW s \in Seq(People), NEW p \in Bots
    PROVE  LET after == LastPrCommenter(LastOf(PrCommentLimit, Append(s, p)))
           IN  \/ after = NoOne
               \/ after = LastPrCommenter(LastOf(PrCommentLimit, s))
<1> DEFINE n == PrCommentLimit
           t == Append(s, p)
           old == LastOf(n, s)
           new == LastOf(n, t)
           fromS == IF Len(s) < n THEN 0 ELSE Len(s) - n
           fromT == IF Len(t) < n THEN 0 ELSE Len(t) - n
<1>1. Len(s) \in Nat /\ n \in Nat \ {0}
  BY LenProperties, LimitsAssumption
<1>2. /\ t \in Seq(People) /\ Len(t) = Len(s) + 1
      /\ \A m \in 1..Len(s) : t[m] = s[m]
      /\ t[Len(s) + 1] = p
  BY BotsAssumption, AppendProperties
<1>3. /\ old \in Seq(People) /\ Len(old) = Len(s) - fromS
      /\ \A m \in 1..(Len(s) - fromS) : old[m] = s[fromS + m]
  BY <1>1, LastOfProperties
<1> HIDE DEF t
<1>4. /\ new \in Seq(People) /\ Len(new) = Len(t) - fromT
      /\ \A m \in 1..(Len(t) - fromT) : new[m] = t[fromT + m]
  <2>1. t \in Seq(People) /\ n \in Nat \ {0}
    BY <1>1, <1>2
  <2> QED BY <2>1, LastOfProperties
<1>5. /\ fromS \in Nat /\ fromT \in Nat /\ fromS <= Len(s)
      /\ fromS <= fromT /\ fromT <= Len(s)
  BY <1>1, <1>2
<1> HIDE DEF old, new, fromS, fromT
<1>6. CASE LastPrCommenter(new) # NoOne
  <2>1. PICK k \in 1..Len(new) :
              /\ new[k] \notin Bots /\ LastPrCommenter(new) = new[k]
              /\ \A l \in 1..Len(new) : l > k => new[l] \in Bots
    BY <1>4, <1>6, LastOthers
  <2> DEFINE x == fromT + k
  <2>2. x \in 1..Len(t) /\ new[k] = t[x]
    BY <1>1, <1>2, <1>4, <1>5
  <2>3. x # Len(s) + 1
    BY <1>2, <2>1, <2>2
  <2>4. x \in 1..Len(s) /\ new[k] = s[x]
    BY <1>1, <1>2, <2>2, <2>3
  <2>5. x - fromS \in 1..Len(old) /\ old[x - fromS] = s[x]
    BY <1>1, <1>2, <1>3, <1>4, <1>5, <2>4
  <2>6. ASSUME NEW l \in 1..Len(old), l > x - fromS
        PROVE  old[l] \in Bots
    <3>1. fromS + l \in 1..Len(s) /\ old[l] = s[fromS + l]
      BY <1>1, <1>3, <1>5
    <3>2. fromS + l - fromT \in 1..Len(new) /\ fromS + l - fromT > k
      BY <1>1, <1>2, <1>4, <1>5, <2>6, <3>1
    <3>3. new[fromS + l - fromT] = t[fromS + l]
      BY <1>1, <1>2, <1>4, <1>5, <3>1, <3>2
    <3> QED BY <1>2, <2>1, <3>1, <3>2, <3>3
  <2> HIDE DEF x
  <2>7. LastPrCommenter(old) = old[x - fromS]
    BY <1>3, <2>1, <2>4, <2>5, <2>6, LastOther
  <2> QED BY <2>1, <2>4, <2>5, <2>7 DEF old, new, t
<1> QED BY <1>6 DEF new, t

LEMMA SomebodyComments ==
    ASSUME NEW s \in Seq(People), NEW p \in People \ Bots
    PROVE  LastPrCommenter(LastOf(PrCommentLimit, Append(s, p))) = p
<1> DEFINE n == PrCommentLimit
           t == Append(s, p)
           new == LastOf(n, t)
           from == IF Len(t) < n THEN 0 ELSE Len(t) - n
<1>1. Len(s) \in Nat /\ n \in Nat \ {0}
  BY LenProperties, LimitsAssumption
<1>2. t \in Seq(People) /\ Len(t) = Len(s) + 1 /\ t[Len(s) + 1] = p
  BY AppendProperties
<1> HIDE DEF t
<1>3. /\ new \in Seq(People) /\ Len(new) = Len(t) - from
      /\ \A m \in 1..(Len(t) - from) : new[m] = t[from + m]
  BY <1>1, <1>2, LastOfProperties
<1>4. from \in Nat /\ from < Len(t)
  BY <1>1, <1>2
<1> HIDE DEF new, from
<1>5. Len(new) \in 1..Len(new) /\ new[Len(new)] = p
  <2>1. Len(new) \in 1..Len(new) /\ from + Len(new) = Len(s) + 1
    BY <1>1, <1>2, <1>3, <1>4
  <2> QED BY <1>2, <1>3, <2>1
<1>6. LastPrCommenter(new) = new[Len(new)]
  BY <1>3, <1>5, LastOther
<1> QED BY <1>5, <1>6 DEF new, t

----------------------------------------------------------------------------
(* What acting does to the points. *)

Views ==
    /\ Pr1 \in Pr
    /\ Pr1.threadsActionable > 0
         <=> \E k \in 1..ThreadLimit : Verdict(k) = "actionable"
    /\ Pr1.threadsWaiting > 0 <=> \E k \in 1..ThreadLimit : Verdict(k) = "waiting"

LEMMA ViewedPr == TalkInv => Views
<1> SUFFICES ASSUME TalkInv PROVE Views
  OBVIOUS
<1>1. node \in Node
  BY DEF TalkInv
<1>2. LastPrCommenter(AnsweredComments(node)) \in People
  <2>1. node.comments \in Seq(People) /\ PrCommentLimit \in Nat \ {0}
    BY <1>1, LimitsAssumption DEF Node
  <2>2. LastOf(PrCommentLimit, node.comments) \in Seq(People)
    BY <2>1, LastOfProperties
  <2> QED BY <2>2, LastOthers DEF AnsweredComments
<1>3. /\ CountThreads(node, "actionable", User) \in Nat
      /\ CountThreads(node, "waiting", User) \in Nat
  BY CountedThreads
<1>4. Pr1 \in Pr
  BY <1>1, <1>2, <1>3, ZeroTimeAssumption DEF Pr1, ViewPr, Pr, Node, ReviewStatus
<1> QED BY <1>4, ViewedCounts, WithVerdict DEF Views

(* The user's own move ends their turn and starts nobody else's.           *)
LEMMA MyMove ==
    ASSUME NEW k, Known(k), Moves(Nth(k), Nth(k)', User)
    PROVE  /\ Verdict(k)' = "actionable" => Verdict(k) = "actionable"
           /\ Verdict(k) = "waiting" => Verdict(k)' = "waiting"
<1> DEFINE t == Nth(k)
           u == Nth(k)'
           own == OwnPr
<1>1. /\ t \in Thread /\ u \in Thread /\ own \in BOOLEAN
      /\ Verdict(k) = ThreadVerdict(t, own, User)
      /\ Verdict(k)' = ThreadVerdict(u, own, User)
  BY DEF Known, Verdict
<1>2. /\ ThreadVerdict(t, own, User)
           = IF ~t.hidden THEN ThreadVerdict(Opened(t), own, User) ELSE "nothing"
      /\ ThreadVerdict(u, own, User)
           = IF ~u.hidden THEN ThreadVerdict(Opened(u), own, User) ELSE "nothing"
      /\ ThreadVerdict(Opened(t), own, User)
           = IF Len(t.comments) = 0 THEN "nothing"
             ELSE Rule(own, FirstMine(t), LastMine(t), Reactions(t))
  BY <1>1, VerdictByParts
<1> HIDE DEF t, u, own
<1>3. CASE Same(t, u)
  <2>1. ThreadVerdict(Opened(u), own, User) = ThreadVerdict(Opened(t), own, User)
    BY <1>1, <1>3, SameVerdict DEF Same, Parts
  <2> QED BY <1>1, <1>2, <1>3, <2>1 DEF Same, Parts
<1>4. CASE Grows(t, u, User)
  <2>1. ThreadVerdict(Opened(u), own, User) = IF own THEN "nothing" ELSE "waiting"
    BY <1>1, <1>4, UserAssumption, GrowingVerdict
  <2>2. ThreadVerdict(Opened(t), own, User) = "waiting" => ~own
    BY <1>2 DEF Rule
  <2> QED BY <1>1, <1>2, <1>4, <2>1, <2>2 DEF Grows
<1>5. CASE Reacted(t, u, User)
  <2>1. ThreadVerdict(Opened(u), own, User)
          = IF LastMine(t) THEN ThreadVerdict(Opened(t), own, User) ELSE "nothing"
    BY <1>1, <1>5, UserAssumption, ReactedVerdict
  <2>2. ThreadVerdict(Opened(t), own, User) = "waiting" => LastMine(t)
    BY <1>2 DEF Rule
  <2> QED BY <1>1, <1>2, <1>5, <2>1, <2>2 DEF Reacted, Parts
<1> QED BY <1>3, <1>4, <1>5 DEF Moves, t, u

(* Points for less to do are no more, unless the size comes in or an old   *)
(* draft is one no more.                                                   *)
LEMMA LessToDo ==
    ASSUME NEW p \in Pr, NEW q \in Pr, ~p.buried, ~q.buried,
           q.author = p.author, q.reviewStatus = p.reviewStatus,
           q.isDraft = p.isDraft, q.changed = p.changed,
           q.reviewers = p.reviewers, q.updated \in {p.updated, Now},
           q.threadsActionable > 0 => p.threadsActionable > 0,
           p.threadsWaiting > 0 => q.threadsWaiting > 0,
           q.lastCommenter # NoOne /\ q.lastCommenter # User
             => p.lastCommenter # NoOne /\ p.lastCommenter # User,
           ~SizeMeetsThreads(q)
    PROVE  Score(q) <= Score(p) + If(Revives(p, q), 60)
<1> DEFINE tp == ThreadPoints(p)
           tq == ThreadPoints(q)
           op == OtherPoints(p, Now)
           oq == OtherPoints(q, Now)
           back == If(Revives(p, q), 60)
           size == SizePoints(p.changed)
<1>1. Score(p) = UnburiedPoints(p, User, Now) - 0
      /\ Score(q) = UnburiedPoints(q, User, Now) - 0
  BY DEF Score, StandardPrPoints, If
<1>2. /\ tp = (IF p.threadsActionable > 0 THEN 80 ELSE 0)
                 - (IF p.threadsWaiting > 0 THEN 10 ELSE 0)
      /\ tq = (IF q.threadsActionable > 0 THEN 80 ELSE 0)
                 - (IF q.threadsWaiting > 0 THEN 10 ELSE 0)
  BY DEF ThreadPoints, If
<1>3. tp \in -10..80 /\ tq \in -10..80 /\ tq <= tp
  <2>1. tp \in {0, 80, -10, 70} /\ tq \in {0, 80, -10, 70}
    BY <1>2
  <2> QED BY <1>2, <2>1
<1>4. CASE p.author = User
  <2> DEFINE mp == OwnPoints(p, User, Now)
             mq == OwnPoints(q, User, Now)
  <2>1. mp \in Int /\ mq \in Int /\ mq <= mp
    <3> DEFINE a == If(p.reviewStatus = "APPROVED", 100)
                      + If(p.reviewStatus = "CHANGES_REQUESTED", 50)
               lp == If(p.lastCommenter # NoOne /\ p.lastCommenter # User, 10)
               lq == If(q.lastCommenter # NoOne /\ q.lastCommenter # User, 10)
               d == If(p.isDraft, 10)
               r == If(p.reviewers = 0, 10)
               ep == If(p.updated < Now - 14, 11)
               eq == If(q.updated < Now - 14, 11)
    <3>1. mp = a + lp - d + r + ep /\ mq = a + lq - d + r + eq
      BY DEF OwnPoints
    <3>2. a \in {0, 50, 100, 150} /\ d \in {0, 10} /\ r \in {0, 10}
      BY DEF If
    <3>4. ep \in {0, 11} /\ eq \in {0, 11} /\ eq <= ep
      BY UserAssumption DEF If
    <3>3. lp \in {0, 10} /\ lq \in {0, 10} /\ lq <= lp
      BY DEF If
    <3> HIDE DEF a, lp, lq, d, r, ep, eq, mp, mq
    <3> QED BY <3>1, <3>2, <3>3, <3>4
  <2>2. q.author = User
    BY <1>4
  <2>3. UnburiedPoints(p, User, Now) = tp + mp
    BY <1>4 DEF UnburiedPoints
  <2>4. UnburiedPoints(q, User, Now) = tq + mq
    BY <2>2 DEF UnburiedPoints
  <2>5. back = 0
    BY <1>4 DEF Revives, If
  <2> HIDE DEF mp, mq, tp, tq, back
  <2> QED BY <1>1, <1>3, <2>1, <2>3, <2>4, <2>5 DEF back
<1>5. CASE p.author # User
  <2>1. back \in {0, 60} /\ oq = op + back /\ (back = 60 => oq <= -10)
    <3> DEFINE rp == If(p.reviewStatus = "APPROVED", 100)
               cp == If(p.reviewStatus = "CHANGES_REQUESTED", 100)
               dp == If(p.isDraft, IF p.updated < Now - 5 THEN 70 ELSE 10)
               dq == If(q.isDraft, IF q.updated < Now - 5 THEN 70 ELSE 10)
    <3>1. op = 0 - rp - cp - dp /\ oq = 0 - rp - cp - dq
      BY DEF OtherPoints
    <3>2. rp \in {0, 100} /\ cp \in {0, 100} /\ dp \in {0, 10, 70} /\ dq \in {0, 10, 70}
      BY DEF If
    <3>3. back \in {0, 60} /\ dp = dq + back /\ (back = 60 => dq = 10)
      <4>1. ~(Now < Now - 5)
        BY UserAssumption
      <4>2. CASE Revives(p, q)
        BY <4>1, <4>2 DEF Revives, If
      <4>3. CASE ~Revives(p, q)
        BY <1>5, <4>1, <4>3 DEF Revives, If
      <4> QED BY <4>2, <4>3
    <3> HIDE DEF rp, cp, dp, dq, back, op, oq
    <3> QED BY <3>1, <3>2, <3>3
  <2>2. /\ UnburiedPoints(p, User, Now)
             = IF tp + op = 0 THEN size ELSE tp + op
        /\ UnburiedPoints(q, User, Now)
             = IF tq + oq = 0 THEN size ELSE tq + oq
    BY <1>5 DEF UnburiedPoints
  <2>3. op \in -170..0 /\ oq \in -170..0 /\ size \in 10..50
    <3>1. /\ If(p.isDraft, IF p.updated < Now - 5 THEN 70 ELSE 10) \in {0, 10, 70}
          /\ If(q.isDraft, IF q.updated < Now - 5 THEN 70 ELSE 10) \in {0, 10, 70}
      BY DEF If
    <3>2. If(p.reviewStatus = "APPROVED", 100)
            + If(p.reviewStatus = "CHANGES_REQUESTED", 100) \in {0, 100}
      BY DEF If
    <3>3. p.changed \in Nat
      BY DEF Pr
    <3>4. size \in 10..50
      BY <3>3 DEF SizePoints
    <3>5. op \in -170..0
      BY <3>1, <3>2 DEF OtherPoints, If
    <3>6. oq \in -170..0
      BY <3>1, <3>2 DEF OtherPoints, If
    <3> QED BY <3>4, <3>5, <3>6
  <2>4. tq + oq = 0 => ~(q.threadsActionable > 0)
    BY <1>5 DEF SizeMeetsThreads
  <2> HIDE DEF tp, tq, op, oq, back, size
  <2>5. CASE tq + oq # 0
    BY <1>1, <1>3, <2>1, <2>2, <2>3, <2>5 DEF back
  <2>6. CASE tq + oq = 0
    <3>1. tq = 0 /\ oq = 0 /\ ~(q.threadsWaiting > 0)
      BY <1>2, <2>3, <2>4, <2>6
    <3>2. tp = 80 \/ tp = 0
      BY <1>2, <3>1
    <3>3. back = 0 /\ op = 0
      BY <2>1, <2>3, <3>1
    <3>4. Score(q) = size
      BY <1>1, <2>2, <2>3, <2>6
    <3>5. Score(p) = IF tp = 0 THEN size ELSE 80
      BY <1>1, <2>2, <2>3, <3>2, <3>3
    <3> QED BY <2>3, <3>3, <3>4, <3>5 DEF back
  <2> QED BY <2>5, <2>6
<1> QED BY <1>4, <1>5

LEMMA OnlyThreads ==
    ASSUME TalkInv, NEW p, TalkInThreads(p)
    PROVE  \/ \E threads : node' = [node EXCEPT !.updatedAt = Now,
                                               !.threads = threads]
           \/ \E threads : node' = [node EXCEPT !.updatedAt = node.updatedAt,
                                               !.threads = threads]
<1>1. ASSUME StartThread(p)
      PROVE  \E threads : node' = [node EXCEPT !.updatedAt = Now, !.threads = threads]
  BY <1>1 DEF StartThread, TalkInv, Node
<1>2. ASSUME NEW k \in DOMAIN node.threads, Reply(p, k)
      PROVE  \E threads : node' = [node EXCEPT !.updatedAt = Now, !.threads = threads]
  BY <1>2 DEF Reply, TalkInv, Node
<1>3. ASSUME NEW k \in DOMAIN node.threads,
             NEW m \in DOMAIN node.threads[k].comments, React(p, k, m)
      PROVE  \E threads : node' = [node EXCEPT !.updatedAt = node.updatedAt,
                                              !.threads = threads]
  BY <1>3 DEF React, TalkInv, Node
<1> QED BY <1>1, <1>2, <1>3, Zenon DEF TalkInThreads

LEMMA ActingStep ==
    ASSUME TalkInv, ~SizeMeetsThreads(Pr1'),
           \/ TalkInThreads(User)
           \/ \E p \in {User} \cup Bots : CommentOnPr(p)
    PROVE  Score(Pr1') <= Score(Pr1) + If(Revives(Pr1, Pr1'), 60)
<1>1. Views
  BY ViewedPr
<1>2. CASE TalkInThreads(User)
  <2>1. TalkInv' /\ Talks(User)
    BY <1>2, UserAssumption, TalkStep
  <2>2. Views'
    BY <2>1, ViewedPr, PTL
  <2>3. /\ Pr1'.threadsActionable > 0 => Pr1.threadsActionable > 0
        /\ Pr1.threadsWaiting > 0 => Pr1'.threadsWaiting > 0
    BY <1>1, <2>1, <2>2, MyMove DEF Views, Talks
  <2>4. /\ Pr1'.lastCommenter = Pr1.lastCommenter /\ Pr1'.author = Pr1.author
        /\ Pr1'.reviewStatus = Pr1.reviewStatus /\ Pr1'.isDraft = Pr1.isDraft
        /\ Pr1'.changed = Pr1.changed /\ Pr1'.reviewers = Pr1.reviewers
        /\ Pr1'.updated \in {Pr1.updated, Now} /\ ~Pr1'.buried /\ ~Pr1.buried
    <3>1. \/ \E threads : node' = [node EXCEPT !.updatedAt = Now,
                                              !.threads = threads]
          \/ \E threads : node' = [node EXCEPT !.updatedAt = node.updatedAt,
                                              !.threads = threads]
      BY <1>2, UserAssumption, OnlyThreads
    <3>2. /\ node'.author = node.author /\ node'.comments = node.comments
          /\ node'.reviewDecision = node.reviewDecision
          /\ node'.approved = node.approved /\ node'.isDraft = node.isDraft
          /\ node'.reviewRequests = node.reviewRequests
          /\ node'.changed = node.changed /\ node'.readable = node.readable
          /\ node'.updatedAt \in {node.updatedAt, Now}
      BY <3>1 DEF TalkInv, Node
    <3> QED BY <3>2 DEF Pr1, ViewPr, AnsweredComments
  <2> QED BY <1>1, <2>2, <2>3, <2>4, LessToDo DEF Views
<1>3. ASSUME NEW p \in {User} \cup Bots, CommentOnPr(p)
      PROVE  Score(Pr1') <= Score(Pr1) + If(Revives(Pr1, Pr1'), 60)
  <2>1. /\ TalkInv' /\ Talks(p) /\ \A k \in 1..ThreadLimit : Nth(k)' = Nth(k)
        /\ node' = [node EXCEPT !.updatedAt = Now,
                                !.comments = Append(node.comments, p)]
        /\ node'.comments = Append(node.comments, p) /\ node'.updatedAt = Now
    BY <1>3, UserAssumption, BotsAssumption, CommentStep
  <2>2. Views'
    BY <2>1, ViewedPr, PTL
  <2>3. /\ Pr1'.author = Pr1.author
        /\ Pr1'.reviewStatus = Pr1.reviewStatus /\ Pr1'.isDraft = Pr1.isDraft
        /\ Pr1'.changed = Pr1.changed /\ Pr1'.reviewers = Pr1.reviewers
        /\ Pr1'.updated \in {Pr1.updated, Now} /\ ~Pr1'.buried /\ ~Pr1.buried
        /\ OwnPr' = OwnPr
    BY <2>1 DEF Pr1, ViewPr, TalkInv, Node, OwnPr
  <2>4. \A k \in 1..ThreadLimit : Verdict(k)' = Verdict(k)
    BY <2>1, <2>3 DEF Verdict
  <2>5. /\ Pr1'.threadsActionable > 0 => Pr1.threadsActionable > 0
        /\ Pr1.threadsWaiting > 0 => Pr1'.threadsWaiting > 0
    BY <1>1, <2>2, <2>4 DEF Views
  <2>6. \/ Pr1'.lastCommenter \in {NoOne, User}
        \/ Pr1'.lastCommenter = Pr1.lastCommenter
    <3>1. node.comments \in Seq(People)
      BY DEF TalkInv, Node
    <3>2. /\ Pr1.lastCommenter
               = LastPrCommenter(LastOf(PrCommentLimit, node.comments))
          /\ Pr1'.lastCommenter
               = LastPrCommenter(LastOf(PrCommentLimit, Append(node.comments, p)))
      BY <2>1 DEF Pr1, ViewPr, AnsweredComments
    <3> QED BY <3>1, <3>2, UserAssumption, BotComments, SomebodyComments
  <2> QED BY <1>1, <2>2, <2>3, <2>5, <2>6, LessToDo DEF Views
<1> QED BY <1>2, <1>3

(* Whoever the user is, whatever was said before, and with any limits of   *)
(* the query: acting on a pull request gives it no points, but for those   *)
(* an old draft gets back with its date.                                   *)
THEOREM ActingDoesNotRaise == TalkSpec => ActingNeverRaises
<1>1. TalkInv => [ /\ \/ TalkInThreads(User)
                      \/ \E p \in {User} \cup Bots : CommentOnPr(p)
                   /\ ~SizeMeetsThreads(Pr1')
                   => Score(Pr1') <= Score(Pr1) + If(Revives(Pr1, Pr1'), 60)]_talkVars
  BY ActingStep
<1> QED BY <1>1, TalkInvariant, PTL DEF ActingNeverRaises
=============================================================================
