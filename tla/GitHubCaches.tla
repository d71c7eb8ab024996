----------------------------- MODULE GitHubCaches -----------------------------
(***************************************************************************)
(* What one client of a GitHub App keeps between its calls: the id of each *)
(* repository's installation, for ever; a token of each installation,      *)
(* until shortly before GitHub ends it; the metadata of each repository,   *)
(* for some seconds.  Calls run in threads of their own: each looks into a *)
(* cache without the lock, and again under it before it asks GitHub.       *)
(* list_repositories writes the ids without the lock.                      *)
(*                                                                         *)
(* At GitHub the App is installed, removed and installed again, under a    *)
(* new id, and repositories go from one installation to another.  Time is  *)
(* what remains of the life of each token and cache entry.                 *)
(***************************************************************************)
EXTENDS Naturals

CONSTANTS
    Thread,        \* threads with a call of this client
    Repo,          \* repositories
    Installation,  \* the ids that GitHub gives
    PageOf,        \* the page a repository is on in its installation's list
    Pages,         \* pages of such a list
    Life,          \* of a token, from when GitHub makes it
    Margin,        \* what must remain of it for a token to be used again
    Wait,          \* for how long it is counted how long a request has waited
    Ttl,           \* repository_cache_ttl_seconds
    None           \* no installation, no thread, no repository

\* GitHub's tokens live for an hour, and the margin is two minutes.  Nothing
\* bounds how long a request takes: the time-outs of http_transport.py are those
\* of single operations on a socket, in each of two attempts.
ASSUME CacheAssumption ==
    /\ Life \in Nat /\ Margin \in Nat /\ Wait \in Nat /\ Ttl \in Nat
    /\ Margin < Life /\ Margin < Wait
    /\ Pages \in Nat \ {0} /\ PageOf \in [Repo -> 1..Pages]
    /\ None \notin Installation \cup Thread \cup Repo

VARIABLES
    home,          \* at GitHub: the installation of each repository, or None
    ids,           \* _installation_ids
    tokens,        \* _tokens: what remains of each token's life
    lock,          \* the thread that holds _credential_lock, or None
    fresh,         \* _repository_cache: what remains of each entry's Ttl,
    age,           \* how long ago GitHub gave it, and
    way,           \* for how long its answer was on its way, up to Wait
    pc,            \* where each thread is
    op,            \* what it does: call, metadata, permissions, number or list
    repo,          \* for which repository
    inst,          \* the installation id in its hands
    left,          \* what remains of the life of the token in its hands
    wait,          \* the time since it took that token, then since GitHub's
                   \* answer, up to Wait
    list,          \* the progress of list_repositories
    calm           \* of a list: nothing moved and no old id was about

job == <<op, repo>>
hand == <<inst, left, wait>>
listing == <<list, calm>>
metadata == <<fresh, age, way>>
cacheVars == <<home, ids, tokens, lock, metadata, pc, job, hand, listing>>

NoList == [todo |-> {}, page |-> 0, seen |-> {}, found |-> {}]

Installed == {home[r] : r \in Repo} \ {None}

Good(i) == tokens[i] > Margin

Goto(t, p) == pc' = [pc EXCEPT ![t] = p]

Return(t) ==
    /\ Goto(t, "idle")
    /\ op' = [op EXCEPT ![t] = "none"] /\ repo' = [repo EXCEPT ![t] = None]
    /\ inst' = [inst EXCEPT ![t] = None]
    /\ left' = [left EXCEPT ![t] = 0] /\ wait' = [wait EXCEPT ![t] = 0]
    /\ list' = [list EXCEPT ![t] = NoList]
    /\ calm' = [calm EXCEPT ![t] = FALSE]

CacheInit ==
    /\ home \in [Repo -> Installation]
    /\ ids = [r \in Repo |-> None]
    /\ tokens = [i \in Installation |-> 0]
    /\ lock = None
    /\ fresh = [r \in Repo |-> 0] /\ age = [r \in Repo |-> 0]
    /\ way = [r \in Repo |-> 0]
    /\ pc = [t \in Thread |-> "idle"]
    /\ op = [t \in Thread |-> "none"] /\ repo = [t \in Thread |-> None]
    /\ inst = [t \in Thread |-> None]
    /\ left = [t \in Thread |-> 0] /\ wait = [t \in Thread |-> 0]
    /\ list = [t \in Thread |-> NoList]
    /\ calm = [t \in Thread |-> FALSE]

-----------------------------------------------------------------------------
(* What a thread begins. *)

Start(t, o, r) ==
    /\ op' = [op EXCEPT ![t] = o] /\ repo' = [repo EXCEPT ![t] = r]
    /\ Goto(t, "id")
    /\ UNCHANGED <<home, ids, tokens, lock, hand, listing>>

\* _repo_request with its one token, the downloads and GraphQL requests too; or
\* the second half of capabilities, after its own _repo_request.
Call(t, r) ==
    /\ pc[t] = "idle"
    /\ \E o \in {"call", "permissions"} : Start(t, o, r)
    /\ UNCHANGED metadata

\* Mutant of ReadMetadata: an entry that is used is kept for longer.
ReadMetadataRenewing(t, r) ==
    /\ pc[t] = "idle"
    /\ \/ /\ fresh[r] > 0 /\ Start(t, "number", r)
          /\ fresh' = [fresh EXCEPT ![r] = Ttl] /\ UNCHANGED <<age, way>>
       \/ fresh[r] = 0 /\ Start(t, "metadata", r) /\ UNCHANGED metadata

\* status, and _repository_metadata for the baseline checks of a merge (there
\* a hit changes nothing).  status goes on with the number of the installation.
ReadMetadata(t, r) ==
    /\ pc[t] = "idle"
    /\ \/ fresh[r] > 0 /\ Start(t, "number", r)
       \/ fresh[r] = 0 /\ Start(t, "metadata", r)
    /\ UNCHANGED metadata

\* An id that its holder is about to write and that is no longer right.
Old(t) ==
    \/ pc[t] = "fill_id" /\ inst[t] # home[repo[t]]
    \/ pc[t] = "page" /\ \E r \in list[t].found : inst[t] # home[r]

ListRepositories(t) ==
    /\ pc[t] = "idle"
    /\ Goto(t, "ask_list")
    /\ op' = [op EXCEPT ![t] = "list"]
    /\ calm' = [calm EXCEPT ![t] = \A u \in Thread : ~Old(u)]
    /\ UNCHANGED <<home, ids, tokens, lock, metadata, repo, hand, list>>

-----------------------------------------------------------------------------
(* _installation_id. *)

GotId(t, i) ==
    \/ op[t] = "number" /\ Return(t)
    \/ /\ op[t] # "number"
       /\ Goto(t, IF op[t] = "permissions" THEN "permit" ELSE "token")
       /\ inst' = [inst EXCEPT ![t] = i]
       /\ UNCHANGED <<job, left, wait, listing>>

LookUpId(t) ==
    /\ pc[t] = "id"
    /\ \/ ids[repo[t]] # None /\ GotId(t, ids[repo[t]])
       \/ /\ ids[repo[t]] = None /\ Goto(t, "id_lock")
          /\ UNCHANGED <<job, hand, listing>>
    /\ UNCHANGED <<home, ids, tokens, lock, metadata>>

LockId(t) ==
    /\ pc[t] = "id_lock" /\ lock = None
    /\ \/ ids[repo[t]] # None /\ GotId(t, ids[repo[t]]) /\ UNCHANGED lock
       \/ /\ ids[repo[t]] = None /\ Goto(t, "ask_id") /\ lock' = t
          /\ UNCHANGED <<job, hand, listing>>
    /\ UNCHANGED <<home, ids, tokens, metadata>>

AskId(t) ==
    /\ pc[t] = "ask_id" /\ home[repo[t]] # None
    /\ inst' = [inst EXCEPT ![t] = home[repo[t]]]
    /\ Goto(t, "fill_id")
    /\ UNCHANGED <<home, ids, tokens, lock, metadata, job, left, wait, listing>>

FillId(t) ==
    /\ pc[t] = "fill_id"
    /\ ids' = [ids EXCEPT ![repo[t]] = inst[t]]
    /\ lock' = None
    /\ GotId(t, inst[t])
    /\ UNCHANGED <<home, tokens, metadata>>

-----------------------------------------------------------------------------
(* _installation_token_for_id. *)

Draw(t) ==
    /\ left' = [left EXCEPT ![t] = tokens[inst[t]]]
    /\ wait' = [wait EXCEPT ![t] = 0]
    /\ Goto(t, "send")

\* Mutant of LookUpToken: a token is used as long as it lives.
LookUpTokenToItsEnd(t) ==
    /\ pc[t] = "token"
    /\ \/ tokens[inst[t]] > 0 /\ Draw(t)
       \/ ~Good(inst[t]) /\ Goto(t, "token_lock") /\ UNCHANGED <<left, wait>>
    /\ UNCHANGED <<home, ids, tokens, lock, metadata, job, inst, listing>>

LookUpToken(t) ==
    /\ pc[t] = "token"
    /\ \/ Good(inst[t]) /\ Draw(t)
       \/ ~Good(inst[t]) /\ Goto(t, "token_lock") /\ UNCHANGED <<left, wait>>
    /\ UNCHANGED <<home, ids, tokens, lock, metadata, job, inst, listing>>

\* Mutant of LockToken: the second look is left out.
LockTokenBlindly(t) ==
    /\ pc[t] = "token_lock" /\ lock = None
    /\ lock' = t /\ Goto(t, "mint")
    /\ UNCHANGED <<home, ids, tokens, metadata, job, hand, listing>>

LockToken(t) ==
    /\ pc[t] = "token_lock" /\ lock = None
    /\ \/ Good(inst[t]) /\ Draw(t) /\ UNCHANGED lock
       \/ /\ ~Good(inst[t]) /\ Goto(t, "mint") /\ lock' = t
          /\ UNCHANGED <<left, wait>>
    /\ UNCHANGED <<home, ids, tokens, metadata, job, inst, listing>>

\* GitHub makes a token, whose life begins.
Mint(t) ==
    /\ pc[t] = "mint" /\ inst[t] \in Installed
    /\ left' = [left EXCEPT ![t] = Life]
    /\ wait' = [wait EXCEPT ![t] = 0]
    /\ Goto(t, "store")
    /\ UNCHANGED <<home, ids, tokens, lock, metadata, job, inst, listing>>

StoreToken(t) ==
    /\ pc[t] = "store"
    /\ tokens' = [tokens EXCEPT ![inst[t]] = left[t]]
    /\ lock' = None
    /\ Goto(t, "send")
    /\ UNCHANGED <<home, ids, metadata, job, hand, listing>>

\* _installation_permissions: GitHub makes a token for the permissions that come
\* with it, whatever is in the cache; it is not kept.  capabilities then asks
\* for the number of the installation.
Permit(t) ==
    /\ pc[t] = "permit" /\ inst[t] \in Installed
    /\ Goto(t, "id") /\ op' = [op EXCEPT ![t] = "number"]
    /\ inst' = [inst EXCEPT ![t] = None]
    /\ UNCHANGED <<home, ids, tokens, lock, metadata, repo, left, wait, listing>>

-----------------------------------------------------------------------------
(* The request itself, and what is done with its answer. *)

\* GitHub answers any other call, with success or an error.
ArriveCall(t) ==
    /\ pc[t] = "send" /\ op[t] = "call"
    /\ Return(t)
    /\ UNCHANGED <<home, ids, tokens, lock, metadata>>

ArriveMetadata(t) ==
    /\ pc[t] = "send" /\ op[t] = "metadata"
    /\ left[t] > 0 /\ home[repo[t]] = inst[t]
    /\ wait' = [wait EXCEPT ![t] = 0]
    /\ Goto(t, "answered")
    /\ UNCHANGED <<home, ids, tokens, lock, metadata, job, inst, left, listing>>

\* For a merge that is all; status asks for the number of the installation.
StoreMetadata(t) ==
    /\ pc[t] = "answered"
    /\ fresh' = [fresh EXCEPT ![repo[t]] = Ttl]
    /\ age' = [age EXCEPT ![repo[t]] = wait[t]]
    /\ way' = [way EXCEPT ![repo[t]] = wait[t]]
    /\ \/ Return(t)
       \/ /\ Goto(t, "id") /\ op' = [op EXCEPT ![t] = "number"]
          /\ inst' = [inst EXCEPT ![t] = None]
          /\ left' = [left EXCEPT ![t] = 0] /\ wait' = [wait EXCEPT ![t] = 0]
          /\ UNCHANGED <<repo, listing>>
    /\ UNCHANGED <<home, ids, tokens, lock>>

\* The next installation of those still to be listed.
NextInstallation(t, todo, seen) ==
    \/ todo = {} /\ Return(t)
    \/ /\ \E i \in todo :
             /\ inst' = [inst EXCEPT ![t] = i]
             /\ list' = [list EXCEPT ![t] = [todo |-> todo \ {i}, page |-> 1,
                                             seen |-> seen, found |-> {}]]
       /\ Goto(t, "token")
       /\ left' = [left EXCEPT ![t] = 0] /\ wait' = [wait EXCEPT ![t] = 0]
       /\ UNCHANGED <<job, calm>>

\* _installation_ids_from_github, which the App asks for in its own name.
AskList(t) ==
    /\ pc[t] = "ask_list"
    /\ NextInstallation(t, Installed, {})
    /\ UNCHANGED <<home, ids, tokens, lock, metadata>>

ArrivePage(t) ==
    /\ pc[t] = "send" /\ op[t] = "list"
    /\ left[t] > 0 /\ inst[t] \in Installed
    /\ list' = [list EXCEPT ![t] =
                  [todo |-> list[t].todo, page |-> list[t].page,
                   seen |-> list[t].seen,
                   found |-> {r \in Repo : /\ home[r] = inst[t]
                                           /\ PageOf[r] = list[t].page}]]
    /\ Goto(t, "page")
    /\ UNCHANGED <<home, ids, tokens, lock, metadata, job, hand, calm>>

Listed(t) ==
    LET first == list[t].found \ list[t].seen
    IN  [r \in Repo |-> IF r \in first THEN inst[t] ELSE ids[r]]

\* Mutant of RecordPage: what is known is left alone.
RecordPageNew(t) ==
    LET seen == list[t].seen \cup list[t].found IN
    /\ pc[t] = "page"
    /\ ids' = [r \in Repo |-> IF ids[r] # None THEN ids[r] ELSE Listed(t)[r]]
    /\ IF list[t].page < Pages
       THEN /\ list' = [list EXCEPT ![t] =
                          [todo |-> list[t].todo, page |-> list[t].page + 1,
                           seen |-> seen, found |-> {}]]
            /\ Goto(t, "send")
            /\ UNCHANGED <<job, hand, calm>>
       ELSE NextInstallation(t, list[t].todo, seen)
    /\ UNCHANGED <<home, tokens, lock, metadata>>

\* Every page of an installation is asked for with the token drawn for its
\* first.
RecordPage(t) ==
    LET seen == list[t].seen \cup list[t].found IN
    /\ pc[t] = "page"
    /\ ids' = Listed(t)
    /\ IF list[t].page < Pages
       THEN /\ list' = [list EXCEPT ![t] =
                          [todo |-> list[t].todo, page |-> list[t].page + 1,
                           seen |-> seen, found |-> {}]]
            /\ Goto(t, "send")
            /\ UNCHANGED <<job, hand, calm>>
       ELSE NextInstallation(t, list[t].todo, seen)
    /\ UNCHANGED <<home, tokens, lock, metadata>>

\* A request fails, GitHub refuses it, an answer is not what it should be: the
\* exception ends the call and releases the lock.
Raise(t) ==
    /\ pc[t] \in {"ask_id", "fill_id", "mint", "store", "permit", "send",
                  "answered", "ask_list", "page"}
    /\ lock' = (IF lock = t THEN None ELSE lock)
    /\ Return(t)
    /\ UNCHANGED <<home, ids, tokens, metadata>>

-----------------------------------------------------------------------------
(* GitHub, and time. *)

\* A repository gets another installation, or loses the one it has.
Transfer(r) ==
    /\ \E i \in Installation \cup {None} :
          i # home[r] /\ home' = [home EXCEPT ![r] = i]
    /\ calm' = [t \in Thread |-> FALSE]
    /\ UNCHANGED <<ids, tokens, lock, metadata, pc, job, hand, list>>

Less(n) == IF n = 0 THEN 0 ELSE n - 1

Waits(t) == pc[t] \in {"store", "send", "page", "answered"} /\ wait[t] < Wait

\* An entry that is no longer fresh is as good as none.
Tick ==
    /\ tokens' = [i \in Installation |-> Less(tokens[i])]
    /\ left' = [t \in Thread |-> Less(left[t])]
    /\ wait' = [t \in Thread |-> IF Waits(t) THEN wait[t] + 1 ELSE wait[t]]
    /\ fresh' = [r \in Repo |-> Less(fresh[r])]
    /\ age' = [r \in Repo |-> IF fresh[r] > 1 THEN age[r] + 1 ELSE 0]
    /\ way' = [r \in Repo |-> IF fresh[r] > 1 THEN way[r] ELSE 0]
    /\ UNCHANGED <<home, ids, lock, pc, job, inst, listing>>

-----------------------------------------------------------------------------
ThreadStep(t) ==
    \/ \E r \in Repo : Call(t, r) \/ ReadMetadata(t, r)
    \/ ListRepositories(t)
    \/ LookUpId(t) \/ LockId(t) \/ AskId(t) \/ FillId(t)
    \/ LookUpToken(t) \/ LockToken(t) \/ Mint(t) \/ StoreToken(t)
    \/ Permit(t) \/ ArriveCall(t) \/ ArriveMetadata(t) \/ StoreMetadata(t)
    \/ AskList(t) \/ ArrivePage(t) \/ RecordPage(t) \/ Raise(t)

CacheNext ==
    \/ \E t \in Thread : ThreadStep(t)
    \/ \E r \in Repo : Transfer(r)
    \/ Tick

CacheSpec == CacheInit /\ [][CacheNext]_cacheVars

-----------------------------------------------------------------------------
(* Properties. *)

CacheTypeOK ==
    /\ home \in [Repo -> Installation \cup {None}]
    /\ ids \in [Repo -> Installation \cup {None}]
    /\ tokens \in [Installation -> 0..Life]
    /\ lock \in Thread \cup {None}
    /\ fresh \in [Repo -> 0..Ttl] /\ age \in [Repo -> Nat]
    /\ way \in [Repo -> 0..Wait]
    /\ pc \in [Thread -> {"idle", "id", "id_lock", "ask_id", "fill_id",
                          "token", "token_lock", "mint", "store", "permit",
                          "send", "answered", "ask_list", "page"}]
    /\ op \in [Thread -> {"none", "call", "metadata", "permissions", "number",
                          "list"}]
    /\ repo \in [Thread -> Repo \cup {None}]
    /\ inst \in [Thread -> Installation \cup {None}]
    /\ left \in [Thread -> 0..Life] /\ wait \in [Thread -> 0..Wait]
    /\ list \in [Thread -> [todo : SUBSET Installation, page : 0..Pages,
                            seen : SUBSET Repo, found : SUBSET Repo]]
    /\ calm \in [Thread -> BOOLEAN]

\* However many calls find no usable token at the same time, a new one is asked
\* for only while there is none: each installation's token is made by one of
\* them and used by all.  The exception is capabilities, which has a token made
\* for its permissions even if there is a usable one (github_history.py:105).
NoNeedlessMint ==
    \A t \in Thread :
        pc[t] \in {"mint", "permit"} => ~Good(inst[t]) \/ op[t] = "permissions"

\* When a request arrives at GitHub after its token has ended, more than the
\* margin has passed since the token was taken, from the cache or from GitHub,
\* with the lock or without it, for this page of a list or for an earlier one:
\* an ended token is due to the time that the transport took, never to the cache
\* (github_agent.py:247, 386, http_transport.py:91).
NeverExpired ==
    \A t \in Thread : pc[t] = "send" => left[t] > 0 \/ wait[t] > Margin

\* What the cache can still serve was true at GitHub less than Ttl and the time
\* its answer took ago, although threads that ask at the same time store their
\* answers in any order (the default branch a merge takes its baseline from).
MetadataFresh == \A r \in Repo : fresh[r] > 0 => age[r] < Ttl + way[r]

\* No call ever looks again for the id of a repository whose installation has
\* changed: it fails until list_repositories is called.  A list that ends, and
\* during which nothing moved at GitHub, leaves the right ids, whatever other
\* calls and lists stored meanwhile, if none of these had an old id in its
\* hands when the list began.
ListRepairs ==
    [][\A t \in Thread :
          (AskList(t) \/ RecordPage(t)) /\ calm[t] /\ pc'[t] = "idle" =>
             \A r \in Repo : home[r] = None \/ ids'[r] = home[r]]_cacheVars
=============================================================================
