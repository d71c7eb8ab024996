------------------------------ MODULE PullMerge ------------------------------
(***************************************************************************)
(* Merging a pull request through the Bridge, merge_pull_request of        *)
(* src/src/modules/github: github_actions.py asks for the base and refuses *)
(* a reserved one, github_collab.py asks for the head and its reviews,     *)
(* pulls.py asks for the head again and for its check runs, and the merge  *)
(* names no commit.  Five or six requests; between any two of them other   *)
(* callers and people push, review, retarget, and CI reports.              *)
(*                                                                         *)
(* One open pull request; a check has one run per commit, whose absence is *)
(* a state of its own.  A request that fails, or a check that does, ends   *)
(* the call and is the action Refuse.                                      *)
(***************************************************************************)
EXTENDS Naturals, Sequences

CONSTANTS
    Caller,      \* threads of the GitHub module
    Sha,         \* commits of the repository
    Branch,      \* branches a pull request may target
    Reserved,    \* GITHUB_AGENT_PROTECTED_BRANCHES
    Check,       \* GITHUB_AGENT_REQUIRED_CHECKS
    Reviewer,    \* GITHUB_AGENT_REQUIRED_REVIEWERS
    Page,        \* reviews on the one page that is read
    MaxReviews,  \* bound on reviews
    MaxEvents,   \* bound on what happens outside
    None         \* no commit, not merged

ASSUME MergeAssumption ==
    /\ Page \in Nat /\ MaxReviews \in Nat /\ MaxEvents \in Nat
    /\ None \notin Sha

VARIABLES
    pull,      \* head and base of the pull request
    merged,    \* None, or what was merged into what, and how its checks passed
    reviews,   \* its reviews, oldest first
    checks,    \* of a commit: the state of each required check
    trunk,     \* head of the default branch
    call,      \* what each caller is doing
    events     \* changes from outside so far

vars == <<pull, merged, reviews, checks, trunk, call, events>>

Verdict == {"approved", "changes_requested", "dismissed", "commented"}
Review == [by : Reviewer, verdict : Verdict, sha : Sha]
Status == {"absent", "running", "success", "failure"}

\* since: what has changed at GitHub after the call last asked for it.
Event == {"retarget", "push", "review", "check"}
Call == [at : {"idle", "base", "head", "reviews", "pull", "checks", "baseline", "merge"},
         head : Sha \cup {None}, delegated : BOOLEAN, since : SUBSET Event]

Idle == [at |-> "idle", head |-> None, delegated |-> FALSE, since |-> {}]

Goto(p, c) == call' = [call EXCEPT ![p] = c]

\* The call goes on to s, having just asked for what x names.
Asked(p, s, x) == Goto(p, [call[p] EXCEPT !.at = s, !.since = @ \ x])

Init ==
    /\ pull \in [head : Sha, base : Branch]
    /\ merged = None
    /\ reviews = <<>>
    /\ trunk \in Sha \ {pull.head}
    /\ \E ran \in SUBSET {pull.head, trunk} :   \* the others have not been pushed yet
          checks = [s \in Sha |-> [c \in Check |-> IF s \in ran THEN "success" ELSE "absent"]]
    /\ call = [p \in Caller |-> Idle]
    /\ events = 0

-----------------------------------------------------------------------------
(* GitHubActionsClient.merge_pull_request *)

Start(p) ==
    /\ call[p].at = "idle" /\ merged = None
    /\ Goto(p, [Idle EXCEPT !.at = "base"])
    /\ UNCHANGED <<pull, merged, reviews, checks, trunk, events>>

Refuse(p) ==
    /\ call[p].at # "idle"
    /\ Goto(p, Idle)
    /\ UNCHANGED <<pull, merged, reviews, checks, trunk, events>>

\* Without required reviewers, assert_required_reviews asks for nothing.
AskBase(p) ==
    /\ call[p].at = "base"
    /\ pull.base \notin Reserved
    /\ Asked(p, IF Reviewer = {} THEN "pull" ELSE "head", {"retarget"})
    /\ UNCHANGED <<pull, merged, reviews, checks, trunk, events>>

-----------------------------------------------------------------------------
(* assert_required_reviews *)

AskHead(p) ==
    /\ call[p].at = "head"
    /\ Goto(p, [call[p] EXCEPT !.at = "reviews", !.head = pull.head, !.since = @ \ {"push"}])
    /\ UNCHANGED <<pull, merged, reviews, checks, trunk, events>>

\* The verdicts of r that count among the first n reviews.
Decisive(r, n) ==
    {i \in 1..n : reviews[i].by = r /\ reviews[i].verdict # "commented"}

\* Of the first n reviews, the last of r that counts approves commit s.
Approves(r, s, n) ==
    \E i \in Decisive(r, n) :
        /\ \A j \in Decisive(r, n) : j <= i
        /\ reviews[i].verdict = "approved" /\ reviews[i].sha = s

OnPage == IF Len(reviews) < Page THEN Len(reviews) ELSE Page

\* Mutant of AskReviews: an approval of an earlier head will do.
AskReviewsStale(p) ==
    /\ call[p].at = "reviews"
    /\ \A r \in Reviewer : \E s \in Sha : Approves(r, s, OnPage)
    /\ Asked(p, "pull", {"review"})
    /\ UNCHANGED <<pull, merged, reviews, checks, trunk, events>>

AskReviews(p) ==
    /\ call[p].at = "reviews"
    /\ \A r \in Reviewer : Approves(r, call[p].head, OnPage)
    /\ Asked(p, "pull", {"review"})
    /\ UNCHANGED <<pull, merged, reviews, checks, trunk, events>>

-----------------------------------------------------------------------------
(* GitHubPullClient.merge_pull_request and assert_required_checks *)

\* Without required reviewers this is the first time the head is asked for.
AskPull(p) ==
    /\ call[p].at = "pull"
    /\ Goto(p, [call[p] EXCEPT !.at = "checks", !.head = pull.head,
                               !.since = IF Reviewer = {} THEN @ \ {"push"} ELSE @])
    /\ UNCHANGED <<pull, merged, reviews, checks, trunk, events>>

Shown(s) == {c \in Check : checks[s][c] # "absent"}

Passed(s) == \A c \in Check : checks[s][c] = "success"

\* Mutant of AskChecks: a check that has not failed yet has passed.
AskChecksSoFar(p) ==
    LET s == call[p].head IN
    /\ call[p].at = "checks"
    /\ \/ Check # {} /\ Shown(s) = {} /\ Asked(p, "baseline", {"check"})
       \/ /\ \A c \in Check : checks[s][c] \in {"running", "success"}
          /\ Asked(p, "merge", {"check"})
    /\ UNCHANGED <<pull, merged, reviews, checks, trunk, events>>

AskChecks(p) ==
    LET s == call[p].head IN
    /\ call[p].at = "checks"
    /\ \/ Check # {} /\ Shown(s) = {} /\ Asked(p, "baseline", {"check"})
       \/ Passed(s) /\ Asked(p, "merge", {"check"})
    /\ UNCHANGED <<pull, merged, reviews, checks, trunk, events>>

\* None of the names is known here: GitHub's own rules decide.
AskBaseline(p) ==
    /\ call[p].at = "baseline"
    /\ Shown(trunk) = {}
    /\ Goto(p, [call[p] EXCEPT !.at = "merge", !.delegated = TRUE])
    /\ UNCHANGED <<pull, merged, reviews, checks, trunk, events>>

\* GitHub merges whatever the head is now into whatever the base is now; the
\* answer may be lost, and the request sent again is refused.
Merge(p) ==
    /\ call[p].at = "merge"
    /\ merged = None
    /\ merged' = [head |-> pull.head, base |-> pull.base, delegated |-> call[p].delegated]
    /\ Goto(p, Idle)
    /\ UNCHANGED <<pull, reviews, checks, trunk, events>>

-----------------------------------------------------------------------------
(* Other tools, people and CI *)

Happens(x) ==
    /\ merged = None
    /\ events < MaxEvents /\ events' = events + 1
    /\ call' = [p \in Caller |-> IF call[p].at = "idle" THEN call[p]
                                 ELSE [call[p] EXCEPT !.since = @ \cup {x}]]
    /\ UNCHANGED merged

Push ==
    /\ \E s \in Sha \ {pull.head, trunk} : pull' = [pull EXCEPT !.head = s]
    /\ Happens("push")
    /\ UNCHANGED <<reviews, checks, trunk>>

Retarget ==
    /\ \E b \in Branch \ {pull.base} : pull' = [pull EXCEPT !.base = b]
    /\ Happens("retarget")
    /\ UNCHANGED <<reviews, checks, trunk>>

SubmitReview ==
    /\ Len(reviews) < MaxReviews
    /\ \E r \in Reviewer, v \in Verdict \ {"dismissed"} :
          reviews' = Append(reviews, [by |-> r, verdict |-> v, sha |-> pull.head])
    /\ Happens("review")
    /\ UNCHANGED <<pull, checks, trunk>>

Dismiss ==
    /\ \E i \in 1..Len(reviews) :
          /\ reviews[i].verdict \in {"approved", "changes_requested"}
          /\ reviews' = [reviews EXCEPT ![i].verdict = "dismissed"]
    /\ Happens("review")
    /\ UNCHANGED <<pull, checks, trunk>>

Report ==
    /\ \E s \in Sha, c \in Check :
          \E new \in IF checks[s][c] = "running" THEN {"success", "failure"} ELSE {"running"} :
              checks' = [checks EXCEPT ![s][c] = new]
    /\ Happens("check")
    /\ UNCHANGED <<pull, reviews, trunk>>

Release ==
    /\ \E s \in Sha \ {pull.head, trunk} : trunk' = s
    /\ Happens("check")
    /\ UNCHANGED <<pull, reviews, checks>>

Next ==
    \/ \E p \in Caller : \/ Start(p) \/ Refuse(p) \/ AskBase(p) \/ AskHead(p) \/ AskReviews(p)
                         \/ AskPull(p) \/ AskChecks(p) \/ AskBaseline(p) \/ Merge(p)
    \/ Push \/ Retarget \/ SubmitReview \/ Dismiss \/ Report \/ Release

Spec == Init /\ [][Next]_vars

-----------------------------------------------------------------------------
(* Properties *)

Merged == [head : Sha, base : Branch, delegated : BOOLEAN]

TypeOK ==
    /\ pull \in [head : Sha, base : Branch]
    /\ merged \in Merged \cup {None}
    /\ reviews \in Seq(Review)
    /\ checks \in [Sha -> [Check -> Status]]
    /\ trunk \in Sha
    /\ call \in [Caller -> Call]
    /\ events \in 0..MaxEvents

\* A call that is about to merge has every condition met that has not changed
\* since it asked: a base that is not reserved, and, of the head as it is now, the
\* last decisive review of every required reviewer an approval of that commit, and
\* its required checks passed or unknown to commit and default branch
\* (github_actions.py:48, github_collab.py:56-84, pulls.py:309-356).
Justified ==
    \A p \in Caller : call[p].at = "merge" =>
        LET fresh(x) == x \notin call[p].since IN
        /\ fresh("retarget") => pull.base \notin Reserved
        /\ fresh("push") /\ fresh("review") /\ Len(reviews) <= Page
               => \A r \in Reviewer : Approves(r, pull.head, Len(reviews))
        /\ fresh("push") /\ fresh("check")
               => IF call[p].delegated THEN Shown(pull.head) \cup Shown(trunk) = {}
                                       ELSE Passed(pull.head)

=============================================================================
