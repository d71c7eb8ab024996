--------------------------- MODULE PullMergeProofs ---------------------------
(***************************************************************************)
(* Proofs about PullMerge, for any callers, branches, checks, reviewers    *)
(* and reviews on a page.  Justified speaks of a call that is about to     *)
(* merge; Grounds follows each condition from the request that established *)
(* it: what a call has asked for still holds unless it has changed since.  *)
(***************************************************************************)
EXTENDS PullMerge, TLAPS

\* What each request has established for the rest of the call.
BaseGround(c) ==
    c.at \notin {"idle", "base"} /\ "retarget" \notin c.since => pull.base \notin Reserved

\* With required reviewers the head is known from AskHead on, else from AskPull on.
HeadGround(c) ==
    /\ \/ c.at \in {"reviews", "checks", "baseline", "merge"}
       \/ c.at = "pull" /\ Reviewer # {}
    /\ "push" \notin c.since
    => c.head = pull.head

ReviewGround(c) ==
    /\ c.at \in {"pull", "checks", "baseline", "merge"}
    /\ c.since \cap {"push", "review"} = {} /\ Len(reviews) <= Page
    => \A r \in Reviewer : Approves(r, pull.head, Len(reviews))

CheckGround(c) ==
    c.since \cap {"push", "check"} = {} =>
        /\ c.at = "baseline" => Shown(pull.head) = {}
        /\ c.at = "merge" =>
               IF c.delegated THEN Shown(pull.head) \cup Shown(trunk) = {}
                              ELSE Passed(pull.head)

\* Only the last request before the merge delegates.
LateGround(c) == c.at # "merge" => ~c.delegated

Grounded(c) ==
    BaseGround(c) /\ HeadGround(c) /\ ReviewGround(c) /\ CheckGround(c) /\ LateGround(c)

Grounds == \A p \in Caller : Grounded(call[p])

PullInv == TypeOK /\ Grounds

-----------------------------------------------------------------------------
(* The initial states *)

LEMMA InitGrounded == Init => PullInv
<1> SUFFICES ASSUME Init PROVE PullInv OBVIOUS
<1>1. Idle \in Call BY DEF Idle, Call
<1>2. reviews \in Seq(Review) /\ merged \in Merged \cup {None} BY DEF Init
<1>3. checks \in [Sha -> [Check -> Status]] BY DEF Init, Status
<1>4. TypeOK BY <1>1, <1>2, <1>3, MergeAssumption DEF Init, TypeOK
<1>5. \A p \in Caller : call[p].at = "idle" /\ ~call[p].delegated BY DEF Init, Idle
<1>6. Grounds
  BY <1>5 DEF Grounds, Grounded, BaseGround, HeadGround, ReviewGround, CheckGround, LateGround
<1> QED BY <1>4, <1>6 DEF PullInv

-----------------------------------------------------------------------------
(* Steps of the callers *)

\* A caller's own step, which leaves the pull request as it is.
LEMMA OwnStep ==
    ASSUME PullInv, NEW p \in Caller, NEW n \in Call, Goto(p, n), Grounded(n),
           UNCHANGED <<pull, reviews, checks, trunk, events>>,
           merged' \in Merged \cup {None}
    PROVE  PullInv'
<1>1. call' \in [Caller -> Call] BY DEF Goto, PullInv, TypeOK
<1>2. TypeOK' BY <1>1 DEF PullInv, TypeOK
<1>3. ASSUME NEW q \in Caller PROVE Grounded(call[q])'
  <2>1. call'[q] = IF q = p THEN n ELSE call[q] BY DEF Goto, PullInv, TypeOK
  <2>2. Grounded(call'[q])
    <3>1. CASE q = p BY <2>1, <3>1
    <3>2. CASE q # p BY <2>1, <3>2 DEF PullInv, Grounds
    <3> QED BY <3>1, <3>2
  <2>3. /\ \A r, s, k : Approves(r, s, k)' = Approves(r, s, k)
        /\ \A s : Shown(s)' = Shown(s) /\ Passed(s)' = Passed(s)
    BY DEF Approves, Decisive, Shown, Passed
  <2>4. BaseGround(call'[q]) => BaseGround(call[q])' BY DEF BaseGround
  <2>5. HeadGround(call'[q]) => HeadGround(call[q])' BY DEF HeadGround
  <2>6. ReviewGround(call'[q]) => ReviewGround(call[q])' BY <2>3 DEF ReviewGround
  <2>7. CheckGround(call'[q]) => CheckGround(call[q])' BY <2>3 DEF CheckGround
  <2>8. LateGround(call'[q]) => LateGround(call[q])' BY DEF LateGround
  <2> QED BY <2>2, <2>4, <2>5, <2>6, <2>7, <2>8 DEF Grounded
<1> QED BY <1>2, <1>3 DEF PullInv, Grounds

LEMMA IdleIsGrounded == Idle \in Call /\ Grounded(Idle)
BY DEF Idle, Call, Grounded, BaseGround, HeadGround, ReviewGround, CheckGround, LateGround

LEMMA StartGrounded == ASSUME PullInv, NEW p \in Caller, Start(p) PROVE PullInv'
<1> DEFINE n == [Idle EXCEPT !.at = "base"]
<1>1. n \in Call /\ n.at = "base" /\ ~n.delegated BY DEF Idle, Call
<1>2. Grounded(n)
  BY <1>1 DEF Grounded, BaseGround, HeadGround, ReviewGround, CheckGround, LateGround
<1> QED BY <1>1, <1>2, OwnStep DEF Start, PullInv, TypeOK

LEMMA RefuseGrounded == ASSUME PullInv, NEW p \in Caller, Refuse(p) PROVE PullInv'
BY OwnStep, IdleIsGrounded DEF Refuse, PullInv, TypeOK

\* The record a call goes on with after Asked.
LEMMA AskedCall ==
    ASSUME NEW c \in Call, NEW s \in {"head", "pull", "baseline", "merge"}, NEW x \in SUBSET Event
    PROVE  LET n == [c EXCEPT !.at = s, !.since = @ \ x] IN
           /\ n \in Call /\ n.at = s /\ n.head = c.head
           /\ n.delegated = c.delegated /\ n.since = c.since \ x
BY DEF Call

LEMMA AskBaseGrounded == ASSUME PullInv, NEW p \in Caller, AskBase(p) PROVE PullInv'
<1> DEFINE c == call[p]
           s == IF Reviewer = {} THEN "pull" ELSE "head"
           n == [c EXCEPT !.at = s, !.since = @ \ {"retarget"}]
<1>1. c \in Call /\ {"retarget"} \in SUBSET Event /\ s \in {"head", "pull", "baseline", "merge"}
  BY DEF PullInv, TypeOK, Event
<1>2. n \in Call /\ n.at = s /\ n.delegated = c.delegated
  <2> HIDE DEF s
  <2> QED BY <1>1 DEF Call
<1>3. Goto(p, n) BY DEF AskBase, Asked
<1> HIDE DEF n
<1>4. BaseGround(n) BY DEF BaseGround, AskBase
<1>5. HeadGround(n) BY <1>2 DEF HeadGround
<1>6. ReviewGround(n) BY <1>2 DEF ReviewGround
<1>7. CheckGround(n) BY <1>2 DEF CheckGround
<1>8. LateGround(n) BY <1>2 DEF PullInv, Grounds, Grounded, LateGround, AskBase
<1>9. Grounded(n) BY <1>4, <1>5, <1>6, <1>7, <1>8 DEF Grounded
<1> QED BY <1>2, <1>3, <1>9, OwnStep DEF AskBase, PullInv, TypeOK

LEMMA AskHeadGrounded == ASSUME PullInv, NEW p \in Caller, AskHead(p) PROVE PullInv'
<1> DEFINE c == call[p]
           n == [c EXCEPT !.at = "reviews", !.head = pull.head, !.since = @ \ {"push"}]
<1>1. c \in Call /\ pull.head \in Sha BY DEF PullInv, TypeOK
<1>2. /\ n \in Call /\ n.at = "reviews" /\ n.head = pull.head
      /\ n.since = c.since \ {"push"} /\ n.delegated = c.delegated
  BY <1>1 DEF Call
<1>3. Goto(p, n) BY DEF AskHead
<1> HIDE DEF n
<1>4. BaseGround(c) /\ LateGround(c) /\ c.at = "head" BY DEF PullInv, Grounds, Grounded, AskHead
<1>5. Grounded(n)
  BY <1>2, <1>4 DEF Grounded, BaseGround, HeadGround, ReviewGround, CheckGround, LateGround
<1> QED BY <1>2, <1>3, <1>5, OwnStep DEF AskHead, PullInv, TypeOK

LEMMA AskReviewsGrounded == ASSUME PullInv, NEW p \in Caller, AskReviews(p) PROVE PullInv'
<1> DEFINE c == call[p]
           n == [c EXCEPT !.at = "pull", !.since = @ \ {"review"}]
<1>1. c \in Call /\ {"review"} \in SUBSET Event BY DEF PullInv, TypeOK, Event
<1>2. /\ n \in Call /\ n.at = "pull" /\ n.head = c.head
      /\ n.since = c.since \ {"review"} /\ n.delegated = c.delegated
  BY <1>1, AskedCall
<1>3. Goto(p, n) BY DEF AskReviews, Asked
<1> HIDE DEF n
<1>4. c.at = "reviews" /\ BaseGround(c) /\ HeadGround(c) /\ LateGround(c)
  BY DEF PullInv, Grounds, Grounded, AskReviews
<1>5. BaseGround(n) BY <1>2, <1>4 DEF BaseGround
<1>6. HeadGround(n) BY <1>2, <1>4 DEF HeadGround
<1>7. ReviewGround(n)
  <2> SUFFICES ASSUME "push" \notin n.since, Len(reviews) <= Page, NEW r \in Reviewer
               PROVE  Approves(r, pull.head, Len(reviews))
    BY DEF ReviewGround
  <2>1. c.head = pull.head BY <1>2, <1>4 DEF HeadGround
  <2>2. OnPage = Len(reviews)
    <3>1. Len(reviews) \in Nat /\ Page \in Nat BY MergeAssumption DEF PullInv, TypeOK
    <3> QED BY <3>1 DEF OnPage
  <2> QED BY <2>1, <2>2 DEF AskReviews
<1>8. CheckGround(n) /\ LateGround(n) BY <1>2, <1>4 DEF CheckGround, LateGround
<1>9. Grounded(n) BY <1>5, <1>6, <1>7, <1>8 DEF Grounded
<1> QED BY <1>2, <1>3, <1>9, OwnStep DEF AskReviews, PullInv, TypeOK

LEMMA AskPullGrounded == ASSUME PullInv, NEW p \in Caller, AskPull(p) PROVE PullInv'
<1> DEFINE c == call[p]
           since == IF Reviewer = {} THEN c.since \ {"push"} ELSE c.since
           n == [c EXCEPT !.at = "checks", !.head = pull.head,
                          !.since = IF Reviewer = {} THEN @ \ {"push"} ELSE @]
<1>1. c \in Call /\ pull.head \in Sha BY DEF PullInv, TypeOK
<1>2. /\ n \in Call /\ n.at = "checks" /\ n.head = pull.head /\ n.since = since
      /\ n.delegated = c.delegated
  BY <1>1 DEF Call
<1>3. Goto(p, n) BY DEF AskPull
<1> HIDE DEF n
<1>4. c.at = "pull" /\ BaseGround(c) /\ ReviewGround(c) /\ LateGround(c)
  BY DEF PullInv, Grounds, Grounded, AskPull
<1>5. BaseGround(n) /\ HeadGround(n) /\ CheckGround(n) /\ LateGround(n)
  BY <1>2, <1>4 DEF BaseGround, HeadGround, CheckGround, LateGround
<1>6. ReviewGround(n)
  <2>1. CASE Reviewer = {} BY <2>1 DEF ReviewGround
  <2>2. CASE Reviewer # {} BY <2>2, <1>2, <1>4 DEF ReviewGround
  <2> QED BY <2>1, <2>2
<1>7. Grounded(n) BY <1>5, <1>6 DEF Grounded
<1> QED BY <1>2, <1>3, <1>7, OwnStep DEF AskPull, PullInv, TypeOK

\* The grounds a call keeps that has just asked for check runs.
LEMMA KeepsGrounds ==
    ASSUME NEW c, NEW n, Grounded(c), c.at \in {"checks", "baseline"},
           n.at \in {"baseline", "merge"}, n.head = c.head,
           n.since \in {c.since, c.since \ {"check"}}
    PROVE  BaseGround(n) /\ HeadGround(n) /\ ReviewGround(n)
<1>1. /\ "retarget" \in n.since <=> "retarget" \in c.since
      /\ "push" \in n.since <=> "push" \in c.since
      /\ "review" \in n.since <=> "review" \in c.since
  OBVIOUS
<1>2. BaseGround(n) BY <1>1 DEF Grounded, BaseGround
<1>3. HeadGround(n) BY <1>1 DEF Grounded, HeadGround
<1>4. ReviewGround(n)
  <2>1. n.since \cap {"push", "review"} = {} => c.since \cap {"push", "review"} = {}
    BY <1>1
  <2> QED BY <2>1 DEF Grounded, ReviewGround
<1> QED BY <1>2, <1>3, <1>4

LEMMA AskChecksGrounded == ASSUME PullInv, NEW p \in Caller, AskChecks(p) PROVE PullInv'
<1> DEFINE c == call[p]
<1>1. c \in Call /\ {"check"} \in SUBSET Event BY DEF PullInv, TypeOK, Event
<1>2. c.at = "checks" /\ Grounded(c) BY DEF PullInv, Grounds, AskChecks
<1>3. PICK s \in {"baseline", "merge"} :
          /\ Asked(p, s, {"check"})
          /\ s = "baseline" => Shown(c.head) = {}
          /\ s = "merge" => Passed(c.head)
  BY DEF AskChecks
<1> DEFINE n == [c EXCEPT !.at = s, !.since = @ \ {"check"}]
<1>4. /\ n \in Call /\ n.at = s /\ n.head = c.head
      /\ n.delegated = c.delegated /\ n.since = c.since \ {"check"}
  <2>1. s \in {"head", "pull", "baseline", "merge"} OBVIOUS
  <2> QED BY <1>1, <2>1 DEF Call
<1>5. Goto(p, n) BY <1>3 DEF Asked
<1> HIDE DEF n
<1>6. BaseGround(n) /\ HeadGround(n) /\ ReviewGround(n)
  BY <1>2, <1>4, KeepsGrounds
<1>7. ~n.delegated BY <1>2, <1>4 DEF Grounded, LateGround
<1>8. CheckGround(n) /\ LateGround(n)
  BY <1>3, <1>4, <1>6, <1>7 DEF CheckGround, HeadGround, LateGround
<1>9. Grounded(n) BY <1>6, <1>8 DEF Grounded
<1> QED BY <1>4, <1>5, <1>9, OwnStep DEF AskChecks, PullInv, TypeOK

LEMMA AskBaselineGrounded == ASSUME PullInv, NEW p \in Caller, AskBaseline(p) PROVE PullInv'
<1> DEFINE c == call[p]
           n == [c EXCEPT !.at = "merge", !.delegated = TRUE]
<1>1. c \in Call BY DEF PullInv, TypeOK
<1>2. c.at = "baseline" /\ Grounded(c) BY DEF PullInv, Grounds, AskBaseline
<1>3. /\ n \in Call /\ n.at = "merge" /\ n.head = c.head
      /\ n.delegated = TRUE /\ n.since = c.since
  BY <1>1 DEF Call
<1>4. Goto(p, n) BY DEF AskBaseline
<1> HIDE DEF n
<1>5. BaseGround(n) /\ HeadGround(n) /\ ReviewGround(n)
  BY <1>2, <1>3, KeepsGrounds
<1>6. Shown(trunk) = {} BY DEF AskBaseline
<1>7. CheckGround(n) /\ LateGround(n)
  BY <1>2, <1>3, <1>6 DEF Grounded, CheckGround, LateGround
<1>8. Grounded(n) BY <1>5, <1>7 DEF Grounded
<1> QED BY <1>3, <1>4, <1>8, OwnStep DEF AskBaseline, PullInv, TypeOK

\* The merge ends the call; the pull request itself stays as it is.
LEMMA MergeGrounded == ASSUME PullInv, NEW p \in Caller, Merge(p) PROVE PullInv'
<1>1. merged' \in Merged
  BY DEF Merge, Merged, PullInv, TypeOK, Call
<1> QED BY <1>1, IdleIsGrounded, OwnStep DEF Merge

-----------------------------------------------------------------------------
(* Steps of everybody else *)

\* Whatever happens outside is noted by every call that is under way.
LEMMA Noted ==
    ASSUME PullInv, NEW x \in Event, Happens(x)
    PROVE  /\ call' \in [Caller -> Call] /\ events' \in 0..MaxEvents
           /\ \A p \in Caller :
                 /\ call'[p].at = call[p].at /\ call'[p].head = call[p].head
                 /\ call'[p].delegated = call[p].delegated
                 /\ call[p].at # "idle" => call'[p].since = call[p].since \cup {x}
                 /\ call[p].at = "idle" => call'[p] = call[p]
<1>1. events' \in 0..MaxEvents BY MergeAssumption DEF Happens, PullInv, TypeOK
<1>2. ASSUME NEW p \in Caller
      PROVE  /\ call'[p] \in Call
             /\ call'[p].at = call[p].at /\ call'[p].head = call[p].head
             /\ call'[p].delegated = call[p].delegated
             /\ call[p].at # "idle" => call'[p].since = call[p].since \cup {x}
             /\ call[p].at = "idle" => call'[p] = call[p]
  <2> DEFINE n == [call[p] EXCEPT !.since = @ \cup {x}]
  <2>1. call[p] \in Call BY DEF PullInv, TypeOK
  <2>2. /\ n \in Call /\ n.at = call[p].at /\ n.head = call[p].head
        /\ n.delegated = call[p].delegated /\ n.since = call[p].since \cup {x}
    BY <2>1 DEF Call
  <2>3. call'[p] = IF call[p].at = "idle" THEN call[p] ELSE n BY DEF Happens
  <2> HIDE DEF n
  <2> QED BY <2>1, <2>2, <2>3
<1>3. call' = [p \in Caller |-> call'[p]] BY DEF Happens
<1>4. call' \in [Caller -> Call] BY <1>2, <1>3
<1> QED BY <1>1, <1>2, <1>4

LEMMA PushGrounded == ASSUME PullInv, Push PROVE PullInv'
<1>1. Happens("push") /\ "push" \in Event BY DEF Push, Event
<1>2. pull'.base = pull.base /\ pull' \in [head : Sha, base : Branch]
  BY DEF Push, PullInv, TypeOK
<1>3. TypeOK' BY <1>1, <1>2, Noted DEF Push, Happens, PullInv, TypeOK
<1>4. ASSUME NEW p \in Caller PROVE Grounded(call[p])'
  <2>1. Grounded(call[p]) BY DEF PullInv, Grounds
  <2>2. /\ call'[p].at = call[p].at /\ call'[p].delegated = call[p].delegated
        /\ call[p].at # "idle" => call'[p].since = call[p].since \cup {"push"}
    BY <1>1, Noted
  <2> QED
    BY <1>2, <2>1, <2>2
       DEF Grounded, BaseGround, HeadGround, ReviewGround, CheckGround, LateGround
<1> QED BY <1>3, <1>4 DEF PullInv, Grounds

LEMMA RetargetGrounded == ASSUME PullInv, Retarget PROVE PullInv'
<1>1. Happens("retarget") /\ "retarget" \in Event BY DEF Retarget, Event
<1>2. pull'.head = pull.head /\ pull' \in [head : Sha, base : Branch]
  BY DEF Retarget, PullInv, TypeOK
<1>3. TypeOK' BY <1>1, <1>2, Noted DEF Retarget, Happens, PullInv, TypeOK
<1>4. ASSUME NEW p \in Caller PROVE Grounded(call[p])'
  <2>1. Grounded(call[p]) BY DEF PullInv, Grounds
  <2>2. /\ call'[p].at = call[p].at /\ call'[p].delegated = call[p].delegated
        /\ call'[p].head = call[p].head
        /\ call[p].at # "idle" => call'[p].since = call[p].since \cup {"retarget"}
    BY <1>1, Noted
  <2>3. /\ \A r, s, k : Approves(r, s, k)' = Approves(r, s, k)
        /\ \A s : Shown(s)' = Shown(s) /\ Passed(s)' = Passed(s)
        /\ reviews' = reviews /\ trunk' = trunk
    BY DEF Retarget, Approves, Decisive, Shown, Passed
  <2>4. BaseGround(call[p])' /\ HeadGround(call[p])' /\ LateGround(call[p])'
    BY <1>2, <2>1, <2>2 DEF Grounded, BaseGround, HeadGround, LateGround
  <2>5. ReviewGround(call[p])'
    BY <1>2, <2>1, <2>2, <2>3 DEF Grounded, ReviewGround
  <2>6. CheckGround(call[p])'
    BY <1>2, <2>1, <2>2, <2>3 DEF Grounded, CheckGround
  <2> QED BY <2>4, <2>5, <2>6 DEF Grounded
<1> QED BY <1>3, <1>4 DEF PullInv, Grounds

\* A review changes nothing but what the reviews say.
LEMMA ReviewGrounded ==
    ASSUME PullInv, Happens("review"), UNCHANGED <<pull, checks, trunk>>,
           reviews' \in Seq(Review)
    PROVE  PullInv'
<1>1. "review" \in Event BY DEF Event
<1>2. TypeOK' BY <1>1, Noted DEF Happens, PullInv, TypeOK
<1>3. ASSUME NEW p \in Caller PROVE Grounded(call[p])'
  <2>1. Grounded(call[p]) BY DEF PullInv, Grounds
  <2>2. /\ call'[p].at = call[p].at /\ call'[p].delegated = call[p].delegated
        /\ call'[p].head = call[p].head
        /\ call[p].at # "idle" => call'[p].since = call[p].since \cup {"review"}
    BY <1>1, Noted
  <2>3. \A s : Shown(s)' = Shown(s) /\ Passed(s)' = Passed(s)
    BY DEF Shown, Passed
  <2>4. BaseGround(call[p])' /\ HeadGround(call[p])' /\ LateGround(call[p])'
    BY <2>1, <2>2 DEF Grounded, BaseGround, HeadGround, LateGround
  <2>5. ReviewGround(call[p])' BY <2>2 DEF ReviewGround
  <2>6. CheckGround(call[p])' BY <2>1, <2>2, <2>3 DEF Grounded, CheckGround
  <2> QED BY <2>4, <2>5, <2>6 DEF Grounded
<1> QED BY <1>2, <1>3 DEF PullInv, Grounds

\* A report of CI, or a push to the default branch, changes only checks and trunk.
LEMMA CheckGrounded ==
    ASSUME PullInv, Happens("check"), UNCHANGED <<pull, reviews>>,
           checks' \in [Sha -> [Check -> Status]], trunk' \in Sha
    PROVE  PullInv'
<1>1. "check" \in Event BY DEF Event
<1>2. TypeOK' BY <1>1, Noted DEF Happens, PullInv, TypeOK
<1>3. ASSUME NEW p \in Caller PROVE Grounded(call[p])'
  <2>1. Grounded(call[p]) BY DEF PullInv, Grounds
  <2>2. /\ call'[p].at = call[p].at /\ call'[p].delegated = call[p].delegated
        /\ call'[p].head = call[p].head
        /\ call[p].at # "idle" => call'[p].since = call[p].since \cup {"check"}
    BY <1>1, Noted
  <2>3. \A r, s, k : Approves(r, s, k)' = Approves(r, s, k)
    BY DEF Approves, Decisive
  <2>4. BaseGround(call[p])' /\ HeadGround(call[p])' /\ LateGround(call[p])'
    BY <2>1, <2>2 DEF Grounded, BaseGround, HeadGround, LateGround
  <2>5. ReviewGround(call[p])' BY <2>1, <2>2, <2>3 DEF Grounded, ReviewGround
  <2>6. CheckGround(call[p])' BY <2>2 DEF CheckGround
  <2> QED BY <2>4, <2>5, <2>6 DEF Grounded
<1> QED BY <1>2, <1>3 DEF PullInv, Grounds

LEMMA SubmitGrounded == ASSUME PullInv, SubmitReview PROVE PullInv'
<1>1. reviews' \in Seq(Review)
  BY DEF SubmitReview, Review, PullInv, TypeOK
<1> QED BY <1>1, ReviewGrounded DEF SubmitReview

LEMMA DismissGrounded == ASSUME PullInv, Dismiss PROVE PullInv'
<1>1. PICK i \in 1..Len(reviews) : reviews' = [reviews EXCEPT ![i].verdict = "dismissed"]
  BY DEF Dismiss
<1>2. reviews[i] \in Review BY DEF PullInv, TypeOK
<1>3. [reviews[i] EXCEPT !.verdict = "dismissed"] \in Review
  BY <1>2 DEF Review, Verdict
<1>4. reviews' \in Seq(Review) BY <1>1, <1>3 DEF PullInv, TypeOK
<1> QED BY <1>4, ReviewGrounded DEF Dismiss

LEMMA ReportGrounded == ASSUME PullInv, Report PROVE PullInv'
<1>1. checks' \in [Sha -> [Check -> Status]]
  BY DEF Report, Status, PullInv, TypeOK
<1> QED BY <1>1, CheckGrounded DEF Report, PullInv, TypeOK

LEMMA ReleaseGrounded == ASSUME PullInv, Release PROVE PullInv'
BY CheckGrounded DEF Release, PullInv, TypeOK

-----------------------------------------------------------------------------
(* Theorems *)

LEMMA StepGrounded == PullInv /\ [Next]_vars => PullInv'
<1> SUFFICES ASSUME PullInv, [Next]_vars PROVE PullInv' OBVIOUS
<1>1. ASSUME NEW p \in Caller, Start(p) PROVE PullInv' BY <1>1, StartGrounded
<1>2. ASSUME NEW p \in Caller, Refuse(p) PROVE PullInv' BY <1>2, RefuseGrounded
<1>3. ASSUME NEW p \in Caller, AskBase(p) PROVE PullInv' BY <1>3, AskBaseGrounded
<1>4. ASSUME NEW p \in Caller, AskHead(p) PROVE PullInv' BY <1>4, AskHeadGrounded
<1>5. ASSUME NEW p \in Caller, AskReviews(p) PROVE PullInv' BY <1>5, AskReviewsGrounded
<1>6. ASSUME NEW p \in Caller, AskPull(p) PROVE PullInv' BY <1>6, AskPullGrounded
<1>7. ASSUME NEW p \in Caller, AskChecks(p) PROVE PullInv' BY <1>7, AskChecksGrounded
<1>8. ASSUME NEW p \in Caller, AskBaseline(p) PROVE PullInv' BY <1>8, AskBaselineGrounded
<1>9. ASSUME NEW p \in Caller, Merge(p) PROVE PullInv' BY <1>9, MergeGrounded
<1>10. ASSUME Push \/ Retarget \/ SubmitReview \/ Dismiss \/ Report \/ Release PROVE PullInv'
  BY <1>10, PushGrounded, RetargetGrounded, SubmitGrounded, DismissGrounded,
     ReportGrounded, ReleaseGrounded
<1>11. CASE UNCHANGED vars
  <2>1. TypeOK' BY <1>11 DEF vars, PullInv, TypeOK
  <2>2. Grounds'
    BY <1>11 DEF vars, PullInv, Grounds, Grounded, BaseGround, HeadGround, ReviewGround,
                 CheckGround, LateGround, Approves, Decisive, Shown, Passed
  <2> QED BY <2>1, <2>2 DEF PullInv
<1> QED
  BY <1>1, <1>2, <1>3, <1>4, <1>5, <1>6, <1>7, <1>8, <1>9, <1>10, <1>11 DEF Next

\* The invariant holds throughout.
THEOREM PullSafety == Spec => []PullInv
BY InitGrounded, StepGrounded, PTL DEF Spec

\* Type correctness of the merge.
THEOREM PullTypes == Spec => []TypeOK
<1>1. PullInv => TypeOK BY DEF PullInv
<1> QED BY <1>1, PullSafety, PTL

\* A merge goes ahead only with every condition met that has not changed since
\* the call asked for it, for any number of callers, reviewers, checks and reviews.
THEOREM MergesJustified == Spec => []Justified
<1>1. ASSUME PullInv PROVE Justified
  <2> SUFFICES ASSUME NEW p \in Caller, call[p].at = "merge"
               PROVE  LET fresh(x) == x \notin call[p].since IN
                      /\ fresh("retarget") => pull.base \notin Reserved
                      /\ fresh("push") /\ fresh("review") /\ Len(reviews) <= Page
                             => \A r \in Reviewer : Approves(r, pull.head, Len(reviews))
                      /\ fresh("push") /\ fresh("check")
                             => IF call[p].delegated
                                THEN Shown(pull.head) \cup Shown(trunk) = {}
                                ELSE Passed(pull.head)
    BY DEF Justified
  <2>1. Grounded(call[p]) BY <1>1 DEF PullInv, Grounds
  <2>2. "retarget" \notin call[p].since => pull.base \notin Reserved
    BY <2>1 DEF Grounded, BaseGround
  <2>3. "push" \notin call[p].since /\ "review" \notin call[p].since /\ Len(reviews) <= Page
           => \A r \in Reviewer : Approves(r, pull.head, Len(reviews))
    BY <2>1 DEF Grounded, ReviewGround
  <2>4. "push" \notin call[p].since /\ "check" \notin call[p].since
           => IF call[p].delegated THEN Shown(pull.head) \cup Shown(trunk) = {}
                                   ELSE Passed(pull.head)
    BY <2>1 DEF Grounded, CheckGround
  <2> QED BY <2>2, <2>3, <2>4
<1> QED BY <1>1, PullSafety, PTL
=============================================================================
