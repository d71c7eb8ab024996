---------------------------- MODULE GitHubProofs ----------------------------
(***************************************************************************)
(* Proofs about two parts of the GitHub module, which share nothing: the   *)
(* caches of a client and the rewrites of a branch's history.              *)
(*                                                                         *)
(* Caches, for any number of threads, repositories and installations: who  *)
(* asks for an id or a token has the lock, so what it found missing under  *)
(* the lock is still missing; and what remains of a token together with    *)
(* the time since it was taken is always more than the margin.             *)
(*                                                                         *)
(* Rewrites, of any repository: the walk collects every commit after its   *)
(* parents, so each is made when the parents have become what it is to     *)
(* name. What that makes of a whole history follows by induction on the    *)
(* age of its commits: parents are older.                                  *)
(***************************************************************************)
EXTENDS GitHubCaches, HistoryRewrite, FiniteSetTheorems, SequenceTheorems,
        WellFoundedInduction, TLAPS

-----------------------------------------------------------------------------
(* The caches of a GitHub client. *)

Locked == {"ask_id", "fill_id", "mint", "store"}

Single == {"call", "metadata", "permissions", "number"}

\* What a thread knows of its own.
HandSafe(t) ==
    /\ op[t] \in Single => repo[t] \in Repo
    /\ pc[t] \in {"id", "id_lock", "ask_id", "fill_id"} => op[t] \in Single
    /\ pc[t] = "permit" => op[t] = "permissions"
    /\ pc[t] = "answered" => op[t] = "metadata"
    /\ pc[t] \in {"ask_list", "page"} => op[t] = "list"
    /\ pc[t] \in {"fill_id", "token", "token_lock", "mint", "store", "permit",
                  "send", "answered", "page"} => inst[t] \in Installation

\* What it knows of the token in its hands: what is left of it and the time
\* since it was taken are together more than the margin.
TokenSafe(t) ==
    /\ pc[t] = "mint" => tokens[inst[t]] <= Margin
    /\ pc[t] \in {"store", "send", "page"} => left[t] + wait[t] > Margin

LockSafe == \A t \in Thread : pc[t] \in Locked <=> lock = t

EntrySafe ==
    \A r \in Repo : fresh[r] > 0 => age[r] + fresh[r] <= Ttl + way[r]

CacheSafe ==
    /\ CacheTypeOK /\ LockSafe /\ EntrySafe
    /\ \A t \in Thread : HandSafe(t) /\ TokenSafe(t)

\* The types in two halves: what all share, and what each thread has.
SharedTypes ==
    /\ home \in [Repo -> Installation \cup {None}]
    /\ ids \in [Repo -> Installation \cup {None}]
    /\ tokens \in [Installation -> 0..Life]
    /\ lock \in Thread \cup {None}
    /\ fresh \in [Repo -> 0..Ttl] /\ age \in [Repo -> Nat]
    /\ way \in [Repo -> 0..Wait]

ThreadTypes ==
    /\ pc \in [Thread -> {"idle", "id", "id_lock", "ask_id", "fill_id",
                          "token", "token_lock", "mint", "store", "permit",
                          "send", "answered", "ask_list", "page"}]
    /\ op \in [Thread -> {"none", "call", "metadata", "permissions", "number",
                          "list"}]
    /\ repo \in [Thread -> Repo \cup {None}]
    /\ inst \in [Thread -> Installation \cup {None}]
    /\ left \in [Thread -> 0..Life] /\ wait \in [Thread -> 0..Wait]
    /\ list \in [Thread -> [todo : SUBSET Installation, page : 0..Pages,
                            seen : SUBSET Repo, found : SUBSET Repo]]
    /\ calm \in [Thread -> BOOLEAN]

LEMMA Halves == CacheTypeOK <=> SharedTypes /\ ThreadTypes
  BY DEF CacheTypeOK, SharedTypes, ThreadTypes

LEMMA StartTypes ==
  ASSUME ThreadTypes, NEW t \in Thread, NEW o \in Single, NEW r \in Repo,
         Start(t, o, r)
  PROVE  ThreadTypes'
  BY DEF ThreadTypes, Start, Goto, hand, listing, Single

LEMMA ReturnTypes ==
  ASSUME ThreadTypes, NEW t \in Thread, Return(t)
  PROVE  ThreadTypes'
  <1>1. NoList \in [todo : SUBSET Installation, page : 0..Pages,
                    seen : SUBSET Repo, found : SUBSET Repo]
    BY CacheAssumption DEF NoList
  <1>2. list' \in [Thread -> [todo : SUBSET Installation, page : 0..Pages,
                             seen : SUBSET Repo, found : SUBSET Repo]]
    BY <1>1 DEF ThreadTypes, Return
  <1>3. left' \in [Thread -> 0..Life] /\ wait' \in [Thread -> 0..Wait]
    BY CacheAssumption DEF ThreadTypes, Return
  <1>4. QED
    BY <1>2, <1>3 DEF ThreadTypes, Return, Goto

LEMMA GotIdTypes ==
  ASSUME ThreadTypes, NEW t \in Thread, NEW i \in Installation, GotId(t, i)
  PROVE  ThreadTypes'
  <1>1. CASE Return(t)
    BY <1>1, ReturnTypes
  <1>2. CASE ~Return(t)
    <2>1. /\ inst' = [inst EXCEPT ![t] = i]
          /\ UNCHANGED <<op, repo, left, wait, list, calm>>
          /\ \/ pc' = [pc EXCEPT ![t] = "permit"]
             \/ pc' = [pc EXCEPT ![t] = "token"]
      BY <1>2 DEF GotId, Goto, job, listing
    <2>2. QED
      BY <2>1 DEF ThreadTypes
  <1>3. QED
    BY <1>1, <1>2

LEMMA DrawTypes ==
  ASSUME CacheTypeOK, NEW t \in Thread, inst[t] \in Installation, Draw(t),
         UNCHANGED <<op, repo, inst, list, calm>>
  PROVE  ThreadTypes'
  <1>1. tokens[inst[t]] \in 0..Life /\ 0 \in 0..Wait
    BY CacheAssumption DEF CacheTypeOK
  <1>2. left' \in [Thread -> 0..Life] /\ wait' \in [Thread -> 0..Wait]
    BY <1>1 DEF CacheTypeOK, Draw
  <1>3. QED
    BY <1>2 DEF CacheTypeOK, ThreadTypes, Draw, Goto

LEMMA NextTypes ==
  ASSUME ThreadTypes, NEW t \in Thread,
         NEW todo \in SUBSET Installation, NEW seen \in SUBSET Repo,
         NextInstallation(t, todo, seen)
  PROVE  ThreadTypes'
  <1>1. CASE Return(t)
    BY <1>1, ReturnTypes
  <1>2. CASE ~Return(t)
    <2>1. PICK i \in todo :
             /\ inst' = [inst EXCEPT ![t] = i]
             /\ list' = [list EXCEPT ![t] = [todo |-> todo \ {i}, page |-> 1,
                                             seen |-> seen, found |-> {}]]
      BY <1>2 DEF NextInstallation
    <2>2. [todo |-> todo \ {i}, page |-> 1, seen |-> seen, found |-> {}]
             \in [todo : SUBSET Installation, page : 0..Pages,
                  seen : SUBSET Repo, found : SUBSET Repo]
      BY CacheAssumption
    <2>3. list' \in [Thread -> [todo : SUBSET Installation, page : 0..Pages,
                               seen : SUBSET Repo, found : SUBSET Repo]]
      BY <2>1, <2>2 DEF ThreadTypes
    <2>4. /\ pc' = [pc EXCEPT ![t] = "token"]
          /\ left' = [left EXCEPT ![t] = 0] /\ wait' = [wait EXCEPT ![t] = 0]
          /\ UNCHANGED <<op, repo, calm>>
      BY <1>2 DEF NextInstallation, Goto, job
    <2>5. 0 \in 0..Life /\ 0 \in 0..Wait
      BY CacheAssumption
    <2>6. QED
      BY <2>1, <2>3, <2>4, <2>5 DEF ThreadTypes
  <1>3. QED
    BY <1>1, <1>2

\* What a thread does concerns no other's local variables.
OthersSame(t) ==
    \A u \in Thread \ {t} :
       /\ pc'[u] = pc[u] /\ op'[u] = op[u] /\ repo'[u] = repo[u]
       /\ inst'[u] = inst[u] /\ left'[u] = left[u] /\ wait'[u] = wait[u]
       /\ list'[u] = list[u] /\ calm'[u] = calm[u]

Chosen(t, todo, seen) ==
    \/ pc'[t] = "idle" /\ op'[t] = "none" /\ calm'[t] = FALSE /\ todo = {}
    \/ /\ pc'[t] = "token" /\ inst'[t] \in todo
       /\ list'[t].todo = todo \ {inst'[t]} /\ list'[t].page = 1
       /\ list'[t].seen = seen /\ list'[t].found = {}
       /\ op'[t] = op[t] /\ calm'[t] = calm[t]

LEMMA NextEffect ==
  ASSUME ThreadTypes, NEW t \in Thread,
         NEW todo \in SUBSET Installation, NEW seen \in SUBSET Repo,
         NextInstallation(t, todo, seen)
  PROVE  OthersSame(t) /\ Chosen(t, todo, seen)
  <1> USE DEF OthersSame, Chosen
  <1>1. CASE todo = {} /\ Return(t)
    BY <1>1 DEF ThreadTypes, Return, Goto
  <1>2. CASE ~(todo = {} /\ Return(t))
    <2>1. PICK i \in todo :
             /\ inst' = [inst EXCEPT ![t] = i]
             /\ list' = [list EXCEPT ![t] = [todo |-> todo \ {i}, page |-> 1,
                                             seen |-> seen, found |-> {}]]
      BY <1>2 DEF NextInstallation
    <2>2. /\ pc' = [pc EXCEPT ![t] = "token"]
          /\ left' = [left EXCEPT ![t] = 0] /\ wait' = [wait EXCEPT ![t] = 0]
          /\ UNCHANGED <<op, repo, calm>>
      BY <1>2 DEF NextInstallation, Goto, job
    <2>3. QED
      BY <2>1, <2>2 DEF ThreadTypes
  <1>3. QED
    BY <1>1, <1>2

LEMMA CallSafe ==
  ASSUME NEW t \in Thread, NEW r \in Repo, CacheSafe, Call(t, r)
  PROVE  CacheSafe'
  <1> USE CacheAssumption
  <1>1. CacheTypeOK'
    BY DEF Call, Start, Goto, job, hand, listing, metadata,
       CacheSafe, CacheTypeOK, HandSafe, TokenSafe, NoList, Single, Locked
  <1>2. LockSafe' /\ EntrySafe'
    BY DEF Call, Start, Goto, job, hand, listing, metadata,
       CacheSafe, CacheTypeOK, HandSafe, LockSafe, EntrySafe, Locked, Single
  <1>3. ASSUME NEW u \in Thread PROVE HandSafe(u)'
    BY DEF Call, Start, Goto, job, hand, listing, metadata,
       CacheSafe, CacheTypeOK, HandSafe, Locked, Single, LockSafe, NoList
  <1>4. ASSUME NEW u \in Thread PROVE TokenSafe(u)'
    BY DEF Call, Start, Goto, job, hand, listing, metadata,
       CacheSafe, CacheTypeOK, HandSafe, TokenSafe, Locked, LockSafe, Good,
       NoList
  <1>5. QED
    BY <1>1, <1>2, <1>3, <1>4 DEF CacheSafe

LEMMA ReadMetadataSafe ==
  ASSUME NEW t \in Thread, NEW r \in Repo, CacheSafe, ReadMetadata(t, r)
  PROVE  CacheSafe'
  <1> USE CacheAssumption
  <1>1. CacheTypeOK'
    <2>1. SharedTypes /\ ThreadTypes
      BY Halves DEF CacheSafe
    <2>2. SharedTypes'
      BY <2>1 DEF SharedTypes, ReadMetadata, Start, metadata
    <2>8. ThreadTypes'
      BY <2>1, StartTypes DEF ReadMetadata, Single
    <2>9. QED
      BY <2>2, <2>8 DEF CacheTypeOK, SharedTypes, ThreadTypes
  <1>2. LockSafe' /\ EntrySafe'
    BY DEF ReadMetadata, Start, Goto, job, hand, listing, metadata,
       CacheSafe, CacheTypeOK, HandSafe, LockSafe, EntrySafe, Locked, Single
  <1>3. ASSUME NEW u \in Thread PROVE HandSafe(u)'
    <2>1. PICK o \in {"number", "metadata"} : Start(t, o, r)
      BY DEF ReadMetadata
    <2>2. QED
      BY <2>1 DEF Start, Goto, hand, listing, CacheSafe, CacheTypeOK,
         HandSafe, Single
  <1>4. ASSUME NEW u \in Thread PROVE TokenSafe(u)'
    BY DEF ReadMetadata, Start, Goto, job, hand, listing, metadata,
       CacheSafe, CacheTypeOK, HandSafe, TokenSafe, Locked, LockSafe, Good,
       NoList
  <1>5. QED
    BY <1>1, <1>2, <1>3, <1>4 DEF CacheSafe

LEMMA ListRepositoriesSafe ==
  ASSUME NEW t \in Thread, CacheSafe, ListRepositories(t)
  PROVE  CacheSafe'
  <1> USE CacheAssumption
  <1>1. CacheTypeOK'
    BY DEF ListRepositories, Goto, job, hand, listing, metadata,
       CacheSafe, CacheTypeOK, HandSafe, TokenSafe, NoList, Single, Locked
  <1>2. LockSafe' /\ EntrySafe'
    BY DEF ListRepositories, Goto, job, hand, listing, metadata,
       CacheSafe, CacheTypeOK, HandSafe, LockSafe, EntrySafe, Locked, Single
  <1>3. ASSUME NEW u \in Thread PROVE HandSafe(u)'
    BY DEF ListRepositories, Goto, job, hand, listing, metadata,
       CacheSafe, CacheTypeOK, HandSafe, Locked, Single, LockSafe, NoList
  <1>4. ASSUME NEW u \in Thread PROVE TokenSafe(u)'
    BY DEF ListRepositories, Goto, job, hand, listing, metadata,
       CacheSafe, CacheTypeOK, HandSafe, TokenSafe, Locked, LockSafe, Good,
       NoList
  <1>5. QED
    BY <1>1, <1>2, <1>3, <1>4 DEF CacheSafe

LEMMA LookUpIdSafe ==
  ASSUME NEW t \in Thread, CacheSafe, LookUpId(t)
  PROVE  CacheSafe'
  <1> USE CacheAssumption
  <1>1. CacheTypeOK'
    <2>1. SharedTypes /\ ThreadTypes
      BY Halves DEF CacheSafe
    <2>2. SharedTypes'
      BY <2>1 DEF SharedTypes, LookUpId, metadata
    <2>3. repo[t] \in Repo
      BY DEF CacheSafe, HandSafe, LookUpId
    <2>8. ThreadTypes'
      <3>2. CASE ids[repo[t]] # None /\ GotId(t, ids[repo[t]])
        BY <2>1, <2>3, <3>2, GotIdTypes DEF SharedTypes
      <3>3. CASE Goto(t, "id_lock") /\ UNCHANGED <<job, hand, listing>>
        BY <2>1, <3>3 DEF ThreadTypes, Goto, job, hand, listing
      <3>9. QED
        BY <3>2, <3>3 DEF LookUpId
    <2>9. QED
      BY <2>2, <2>8 DEF CacheTypeOK, SharedTypes, ThreadTypes
  <1>2. LockSafe' /\ EntrySafe'
    BY DEF LookUpId, GotId, Return, Goto, job, hand, listing, metadata,
       CacheSafe, CacheTypeOK, HandSafe, LockSafe, EntrySafe, Locked, Single
  <1>3. ASSUME NEW u \in Thread PROVE HandSafe(u)'
    BY DEF LookUpId, GotId, Return, Goto, job, hand, listing, metadata,
       CacheSafe, CacheTypeOK, HandSafe, Locked, Single, LockSafe, NoList
  <1>4. ASSUME NEW u \in Thread PROVE TokenSafe(u)'
    BY DEF LookUpId, GotId, Return, Goto, job, hand, listing, metadata,
       CacheSafe, CacheTypeOK, HandSafe, TokenSafe, Locked, LockSafe, Good,
       NoList
  <1>5. QED
    BY <1>1, <1>2, <1>3, <1>4 DEF CacheSafe

LEMMA LockIdSafe ==
  ASSUME NEW t \in Thread, CacheSafe, LockId(t)
  PROVE  CacheSafe'
  <1> USE CacheAssumption
  <1>1. CacheTypeOK'
    <2>1. SharedTypes /\ ThreadTypes
      BY Halves DEF CacheSafe
    <2>2. SharedTypes'
      BY <2>1 DEF SharedTypes, LockId, metadata
    <2>3. repo[t] \in Repo
      BY DEF CacheSafe, HandSafe, LockId
    <2>8. ThreadTypes'
      <3>2. CASE ids[repo[t]] # None /\ GotId(t, ids[repo[t]])
        BY <2>1, <2>3, <3>2, GotIdTypes DEF SharedTypes
      <3>3. CASE Goto(t, "ask_id") /\ UNCHANGED <<job, hand, listing>>
        BY <2>1, <3>3 DEF ThreadTypes, Goto, job, hand, listing
      <3>9. QED
        BY <3>2, <3>3 DEF LockId
    <2>9. QED
      BY <2>2, <2>8 DEF CacheTypeOK, SharedTypes, ThreadTypes
  <1>2. LockSafe' /\ EntrySafe'
    BY DEF LockId, GotId, Return, Goto, job, hand, listing, metadata,
       CacheSafe, CacheTypeOK, HandSafe, LockSafe, EntrySafe, Locked, Single
  <1>3. ASSUME NEW u \in Thread PROVE HandSafe(u)'
    BY DEF LockId, GotId, Return, Goto, job, hand, listing, metadata,
       CacheSafe, CacheTypeOK, HandSafe, Locked, Single, LockSafe, NoList
  <1>4. ASSUME NEW u \in Thread PROVE TokenSafe(u)'
    BY DEF LockId, GotId, Return, Goto, job, hand, listing, metadata,
       CacheSafe, CacheTypeOK, HandSafe, TokenSafe, Locked, LockSafe, Good,
       NoList
  <1>5. QED
    BY <1>1, <1>2, <1>3, <1>4 DEF CacheSafe

LEMMA AskIdSafe ==
  ASSUME NEW t \in Thread, CacheSafe, AskId(t)
  PROVE  CacheSafe'
  <1> USE CacheAssumption
  <1>1. CacheTypeOK'
    BY DEF AskId, Goto, job, hand, listing, metadata,
       CacheSafe, CacheTypeOK, HandSafe, TokenSafe, NoList, Single, Locked
  <1>2. LockSafe' /\ EntrySafe'
    BY DEF AskId, Goto, job, hand, listing, metadata,
       CacheSafe, CacheTypeOK, HandSafe, LockSafe, EntrySafe, Locked, Single
  <1>3. ASSUME NEW u \in Thread PROVE HandSafe(u)'
    BY DEF AskId, Goto, job, hand, listing, metadata,
       CacheSafe, CacheTypeOK, HandSafe, Locked, Single, LockSafe, NoList
  <1>4. ASSUME NEW u \in Thread PROVE TokenSafe(u)'
    BY DEF AskId, Goto, job, hand, listing, metadata,
       CacheSafe, CacheTypeOK, HandSafe, TokenSafe, Locked, LockSafe, Good,
       NoList
  <1>5. QED
    BY <1>1, <1>2, <1>3, <1>4 DEF CacheSafe

LEMMA FillIdSafe ==
  ASSUME NEW t \in Thread, CacheSafe, FillId(t)
  PROVE  CacheSafe'
  <1> USE CacheAssumption
  <1>1. CacheTypeOK'
    <2>1. SharedTypes /\ ThreadTypes
      BY Halves DEF CacheSafe
    <2>2. SharedTypes'
      BY <2>1 DEF SharedTypes, FillId, metadata, CacheSafe, HandSafe
    <2>8. ThreadTypes'
      BY <2>1, GotIdTypes DEF CacheSafe, HandSafe, FillId
    <2>9. QED
      BY <2>2, <2>8 DEF CacheTypeOK, SharedTypes, ThreadTypes
  <1>2. LockSafe' /\ EntrySafe'
    BY DEF FillId, GotId, Return, Goto, job, hand, listing, metadata,
       CacheSafe, CacheTypeOK, HandSafe, LockSafe, EntrySafe, Locked, Single
  <1>3. ASSUME NEW u \in Thread PROVE HandSafe(u)'
    BY DEF FillId, GotId, Return, Goto, job, hand, listing, metadata,
       CacheSafe, CacheTypeOK, HandSafe, Locked, Single, LockSafe, NoList
  <1>4. ASSUME NEW u \in Thread PROVE TokenSafe(u)'
    BY DEF FillId, GotId, Return, Goto, job, hand, listing, metadata,
       CacheSafe, CacheTypeOK, HandSafe, TokenSafe, Locked, LockSafe, Good,
       NoList
  <1>5. QED
    BY <1>1, <1>2, <1>3, <1>4 DEF CacheSafe

LEMMA LookUpTokenSafe ==
  ASSUME NEW t \in Thread, CacheSafe, LookUpToken(t)
  PROVE  CacheSafe'
  <1> USE CacheAssumption
  <1>1. CacheTypeOK'
    <2>1. SharedTypes /\ ThreadTypes
      BY Halves DEF CacheSafe
    <2>2. SharedTypes'
      BY <2>1 DEF SharedTypes, LookUpToken, metadata
    <2>8. ThreadTypes'
      <3>1. CASE Draw(t)
        BY <3>1, DrawTypes DEF CacheSafe, HandSafe, LookUpToken, job, listing
      <3>2. CASE Goto(t, "token_lock") /\ UNCHANGED <<left, wait>>
        BY <2>1, <3>2 DEF ThreadTypes, Goto, LookUpToken, job, listing
      <3>9. QED
        BY <3>1, <3>2 DEF LookUpToken
    <2>9. QED
      BY <2>2, <2>8 DEF CacheTypeOK, SharedTypes, ThreadTypes
  <1>2. LockSafe' /\ EntrySafe'
    BY DEF LookUpToken, Draw, Goto, job, hand, listing, metadata,
       CacheSafe, CacheTypeOK, HandSafe, LockSafe, EntrySafe, Locked, Single
  <1>3. ASSUME NEW u \in Thread PROVE HandSafe(u)'
    BY DEF LookUpToken, Draw, Goto, job, hand, listing, metadata,
       CacheSafe, CacheTypeOK, HandSafe, Locked, Single, LockSafe, NoList
  <1>4. ASSUME NEW u \in Thread PROVE TokenSafe(u)'
    BY DEF LookUpToken, Draw, Goto, job, hand, listing, metadata,
       CacheSafe, CacheTypeOK, HandSafe, TokenSafe, Locked, LockSafe, Good,
       NoList
  <1>5. QED
    BY <1>1, <1>2, <1>3, <1>4 DEF CacheSafe

LEMMA LockTokenSafe ==
  ASSUME NEW t \in Thread, CacheSafe, LockToken(t)
  PROVE  CacheSafe'
  <1> USE CacheAssumption
  <1>1. CacheTypeOK'
    <2>1. SharedTypes /\ ThreadTypes
      BY Halves DEF CacheSafe
    <2>2. SharedTypes'
      BY <2>1 DEF SharedTypes, LockToken, metadata
    <2>8. ThreadTypes'
      <3>1. CASE Draw(t)
        BY <3>1, DrawTypes DEF CacheSafe, HandSafe, LockToken, job, listing
      <3>2. CASE Goto(t, "mint") /\ UNCHANGED <<left, wait>>
        BY <2>1, <3>2 DEF ThreadTypes, Goto, LockToken, job, listing
      <3>9. QED
        BY <3>1, <3>2 DEF LockToken
    <2>9. QED
      BY <2>2, <2>8 DEF CacheTypeOK, SharedTypes, ThreadTypes
  <1>2. LockSafe' /\ EntrySafe'
    BY DEF LockToken, Draw, Goto, job, hand, listing, metadata,
       CacheSafe, CacheTypeOK, HandSafe, LockSafe, EntrySafe, Locked, Single
  <1>3. ASSUME NEW u \in Thread PROVE HandSafe(u)'
    BY DEF LockToken, Draw, Goto, job, hand, listing, metadata,
       CacheSafe, CacheTypeOK, HandSafe, Locked, Single, LockSafe, NoList
  <1>4. ASSUME NEW u \in Thread PROVE TokenSafe(u)'
    BY DEF LockToken, Draw, Goto, job, hand, listing, metadata,
       CacheSafe, CacheTypeOK, HandSafe, TokenSafe, Locked, LockSafe, Good,
       NoList
  <1>5. QED
    BY <1>1, <1>2, <1>3, <1>4 DEF CacheSafe

LEMMA MintSafe ==
  ASSUME NEW t \in Thread, CacheSafe, Mint(t)
  PROVE  CacheSafe'
  <1> USE CacheAssumption
  <1>1. CacheTypeOK'
    BY DEF Mint, Goto, Installed, job, hand, listing, metadata,
       CacheSafe, CacheTypeOK, HandSafe, TokenSafe, NoList, Single, Locked
  <1>2. LockSafe' /\ EntrySafe'
    BY DEF Mint, Goto, Installed, job, hand, listing, metadata,
       CacheSafe, CacheTypeOK, HandSafe, LockSafe, EntrySafe, Locked, Single
  <1>3. ASSUME NEW u \in Thread PROVE HandSafe(u)'
    BY DEF Mint, Goto, Installed, job, hand, listing, metadata,
       CacheSafe, CacheTypeOK, HandSafe, Locked, Single, LockSafe, NoList
  <1>4. ASSUME NEW u \in Thread PROVE TokenSafe(u)'
    BY DEF Mint, Goto, Installed, job, hand, listing, metadata,
       CacheSafe, CacheTypeOK, HandSafe, TokenSafe, Locked, LockSafe, Good,
       NoList
  <1>5. QED
    BY <1>1, <1>2, <1>3, <1>4 DEF CacheSafe

LEMMA StoreTokenSafe ==
  ASSUME NEW t \in Thread, CacheSafe, StoreToken(t)
  PROVE  CacheSafe'
  <1> USE CacheAssumption
  <1>1. CacheTypeOK'
    BY DEF StoreToken, Goto, job, hand, listing, metadata,
       CacheSafe, CacheTypeOK, HandSafe, TokenSafe, NoList, Single, Locked
  <1>2. LockSafe' /\ EntrySafe'
    BY DEF StoreToken, Goto, job, hand, listing, metadata,
       CacheSafe, CacheTypeOK, HandSafe, LockSafe, EntrySafe, Locked, Single
  <1>3. ASSUME NEW u \in Thread PROVE HandSafe(u)'
    BY DEF StoreToken, Goto, job, hand, listing, metadata,
       CacheSafe, CacheTypeOK, HandSafe, Locked, Single, LockSafe, NoList
  <1>4. ASSUME NEW u \in Thread PROVE TokenSafe(u)'
    BY DEF StoreToken, Goto, job, hand, listing, metadata,
       CacheSafe, CacheTypeOK, HandSafe, TokenSafe, Locked, LockSafe, Good,
       NoList
  <1>5. QED
    BY <1>1, <1>2, <1>3, <1>4 DEF CacheSafe

LEMMA PermitSafe ==
  ASSUME NEW t \in Thread, CacheSafe, Permit(t)
  PROVE  CacheSafe'
  <1> USE CacheAssumption
  <1>1. CacheTypeOK'
    BY DEF Permit, Goto, Installed, job, hand, listing, metadata,
       CacheSafe, CacheTypeOK, HandSafe, TokenSafe, NoList, Single, Locked
  <1>2. LockSafe' /\ EntrySafe'
    BY DEF Permit, Goto, Installed, job, hand, listing, metadata,
       CacheSafe, CacheTypeOK, HandSafe, LockSafe, EntrySafe, Locked, Single
  <1>3. ASSUME NEW u \in Thread PROVE HandSafe(u)'
    BY DEF Permit, Goto, Installed, job, hand, listing, metadata,
       CacheSafe, CacheTypeOK, HandSafe, Locked, Single, LockSafe, NoList
  <1>4. ASSUME NEW u \in Thread PROVE TokenSafe(u)'
    BY DEF Permit, Goto, Installed, job, hand, listing, metadata,
       CacheSafe, CacheTypeOK, HandSafe, TokenSafe, Locked, LockSafe, Good,
       NoList
  <1>5. QED
    BY <1>1, <1>2, <1>3, <1>4 DEF CacheSafe

LEMMA ArriveCallSafe ==
  ASSUME NEW t \in Thread, CacheSafe, ArriveCall(t)
  PROVE  CacheSafe'
  <1> USE CacheAssumption
  <1>1. CacheTypeOK'
    BY DEF ArriveCall, Return, Goto, job, hand, listing, metadata,
       CacheSafe, CacheTypeOK, HandSafe, TokenSafe, NoList, Single, Locked
  <1>2. LockSafe' /\ EntrySafe'
    BY DEF ArriveCall, Return, Goto, job, hand, listing, metadata,
       CacheSafe, CacheTypeOK, HandSafe, LockSafe, EntrySafe, Locked, Single
  <1>3. ASSUME NEW u \in Thread PROVE HandSafe(u)'
    BY DEF ArriveCall, Return, Goto, job, hand, listing, metadata,
       CacheSafe, CacheTypeOK, HandSafe, Locked, Single, LockSafe, NoList
  <1>4. ASSUME NEW u \in Thread PROVE TokenSafe(u)'
    BY DEF ArriveCall, Return, Goto, job, hand, listing, metadata,
       CacheSafe, CacheTypeOK, HandSafe, TokenSafe, Locked, LockSafe, Good,
       NoList
  <1>5. QED
    BY <1>1, <1>2, <1>3, <1>4 DEF CacheSafe

LEMMA ArriveMetadataSafe ==
  ASSUME NEW t \in Thread, CacheSafe, ArriveMetadata(t)
  PROVE  CacheSafe'
  <1> USE CacheAssumption
  <1>1. CacheTypeOK'
    BY DEF ArriveMetadata, Goto, job, hand, listing, metadata,
       CacheSafe, CacheTypeOK, HandSafe, TokenSafe, NoList, Single, Locked
  <1>2. LockSafe' /\ EntrySafe'
    BY DEF ArriveMetadata, Goto, job, hand, listing, metadata,
       CacheSafe, CacheTypeOK, HandSafe, LockSafe, EntrySafe, Locked, Single
  <1>3. ASSUME NEW u \in Thread PROVE HandSafe(u)'
    BY DEF ArriveMetadata, Goto, job, hand, listing, metadata,
       CacheSafe, CacheTypeOK, HandSafe, Locked, Single, LockSafe, NoList
  <1>4. ASSUME NEW u \in Thread PROVE TokenSafe(u)'
    BY DEF ArriveMetadata, Goto, job, hand, listing, metadata,
       CacheSafe, CacheTypeOK, HandSafe, TokenSafe, Locked, LockSafe, Good,
       NoList
  <1>5. QED
    BY <1>1, <1>2, <1>3, <1>4 DEF CacheSafe

LEMMA StoreMetadataSafe ==
  ASSUME NEW t \in Thread, CacheSafe, StoreMetadata(t)
  PROVE  CacheSafe'
  <1> USE CacheAssumption
  <1>1. CacheTypeOK'
    <2>1. SharedTypes /\ ThreadTypes
      BY Halves DEF CacheSafe
    <2>2. SharedTypes'
      <3>1. wait[t] \in 0..Wait /\ wait[t] \in Nat /\ Ttl \in 0..Ttl
        BY <2>1, CacheAssumption DEF ThreadTypes
      <3>2. /\ fresh' \in [Repo -> 0..Ttl] /\ age' \in [Repo -> Nat]
            /\ way' \in [Repo -> 0..Wait]
        BY <2>1, <3>1 DEF SharedTypes, StoreMetadata
      <3>3. QED
        BY <2>1, <3>2 DEF SharedTypes, StoreMetadata
    <2>8. ThreadTypes'
      <3>1. CASE Return(t)
        BY <2>1, <3>1, ReturnTypes
      <3>2. CASE ~Return(t)
        <4>1. /\ pc' = [pc EXCEPT ![t] = "id"] /\ op' = [op EXCEPT ![t] = "number"]
              /\ inst' = [inst EXCEPT ![t] = None]
              /\ left' = [left EXCEPT ![t] = 0] /\ wait' = [wait EXCEPT ![t] = 0]
              /\ UNCHANGED <<repo, list, calm>>
          BY <3>2 DEF StoreMetadata, Goto, listing
        <4>2. 0 \in 0..Life /\ 0 \in 0..Wait
          BY CacheAssumption
        <4>3. QED
          BY <2>1, <4>1, <4>2 DEF ThreadTypes
      <3>9. QED
        BY <3>1, <3>2
    <2>9. QED
      BY <2>2, <2>8 DEF CacheTypeOK, SharedTypes, ThreadTypes
  <1>2. LockSafe' /\ EntrySafe'
    BY DEF StoreMetadata, Return, Goto, job, hand, listing, metadata,
       CacheSafe, CacheTypeOK, HandSafe, LockSafe, EntrySafe, Locked, Single
  <1>3. ASSUME NEW u \in Thread PROVE HandSafe(u)'
    <2>1. CASE Return(t)
      BY <2>1 DEF Return, Goto, CacheSafe, CacheTypeOK, HandSafe, Single
    <2>2. CASE ~Return(t)
      <3>1. /\ pc' = [pc EXCEPT ![t] = "id"] /\ op' = [op EXCEPT ![t] = "number"]
            /\ inst' = [inst EXCEPT ![t] = None] /\ repo' = repo
            /\ op[t] = "metadata"
        BY <2>2 DEF StoreMetadata, Goto, CacheSafe, HandSafe
      <3>2. QED
        BY <3>1 DEF CacheSafe, CacheTypeOK, HandSafe, Single
    <2>3. QED
      BY <2>1, <2>2
  <1>4. ASSUME NEW u \in Thread PROVE TokenSafe(u)'
    BY DEF StoreMetadata, Return, Goto, job, hand, listing, metadata,
       CacheSafe, CacheTypeOK, HandSafe, TokenSafe, Locked, LockSafe, Good,
       NoList
  <1>5. QED
    BY <1>1, <1>2, <1>3, <1>4 DEF CacheSafe

LEMMA AskListSafe ==
  ASSUME NEW t \in Thread, CacheSafe, AskList(t)
  PROVE  CacheSafe'
  <1> USE CacheAssumption
  <1>1. CacheTypeOK'
    <2>1. SharedTypes /\ ThreadTypes
      BY Halves DEF CacheSafe
    <2>2. SharedTypes'
      BY <2>1 DEF SharedTypes, AskList, metadata
    <2>3. Installed \in SUBSET Installation
      BY <2>1 DEF SharedTypes, Installed
    <2>8. ThreadTypes'
      BY <2>1, <2>3, NextTypes DEF AskList
    <2>9. QED
      BY <2>2, <2>8 DEF CacheTypeOK, SharedTypes, ThreadTypes
  <1>2. LockSafe' /\ EntrySafe'
    BY DEF AskList, NextInstallation, Installed, Return, Goto, job, hand,
       listing, metadata,
       CacheSafe, CacheTypeOK, HandSafe, LockSafe, EntrySafe, Locked, Single
  <1>3. /\ OthersSame(t) /\ Chosen(t, Installed, {})
        /\ Installed \in SUBSET Installation /\ op[t] = "list"
    <2>1. ThreadTypes /\ Installed \in SUBSET Installation
      BY Halves DEF CacheSafe, SharedTypes, Installed
    <2>2. op[t] = "list" /\ NextInstallation(t, Installed, {})
      BY DEF AskList, CacheSafe, HandSafe
    <2>3. QED
      BY <2>1, <2>2, NextEffect
  <1>4. ASSUME NEW u \in Thread PROVE HandSafe(u)'
    BY <1>3 DEF CacheSafe, HandSafe, Single, OthersSame, Chosen
  <1>5. ASSUME NEW u \in Thread PROVE TokenSafe(u)'
    BY <1>3 DEF AskList, CacheSafe, TokenSafe, OthersSame, Chosen
  <1>6. QED
    BY <1>1, <1>2, <1>4, <1>5 DEF CacheSafe

LEMMA ArrivePageSafe ==
  ASSUME NEW t \in Thread, CacheSafe, ArrivePage(t)
  PROVE  CacheSafe'
  <1> USE CacheAssumption
  <1>1. CacheTypeOK'
    BY DEF ArrivePage, Goto, Installed, job, hand, listing, metadata,
       CacheSafe, CacheTypeOK, HandSafe, TokenSafe, NoList, Single, Locked
  <1>2. LockSafe' /\ EntrySafe'
    BY DEF ArrivePage, Goto, Installed, job, hand, listing, metadata,
       CacheSafe, CacheTypeOK, HandSafe, LockSafe, EntrySafe, Locked, Single
  <1>3. ASSUME NEW u \in Thread PROVE HandSafe(u)'
    BY DEF ArrivePage, Goto, Installed, job, hand, listing, metadata,
       CacheSafe, CacheTypeOK, HandSafe, Locked, Single, LockSafe, NoList
  <1>4. ASSUME NEW u \in Thread PROVE TokenSafe(u)'
    BY DEF ArrivePage, Goto, Installed, job, hand, listing, metadata,
       CacheSafe, CacheTypeOK, HandSafe, TokenSafe, Locked, LockSafe, Good,
       NoList
  <1>5. QED
    BY <1>1, <1>2, <1>3, <1>4 DEF CacheSafe

LEMMA RecordPageSafe ==
  ASSUME NEW t \in Thread, CacheSafe, RecordPage(t)
  PROVE  CacheSafe'
  <1> USE CacheAssumption
  <1>1. CacheTypeOK'
    <2>1. SharedTypes /\ ThreadTypes
      BY Halves DEF CacheSafe
    <2>2. SharedTypes'
      BY <2>1 DEF SharedTypes, RecordPage, Listed, metadata, CacheSafe, HandSafe
    <2>8. ThreadTypes'
      <3>1. CASE list[t].page < Pages
        <4>1. /\ list[t].todo \in SUBSET Installation
              /\ list[t].page + 1 \in 0..Pages
              /\ list[t].seen \cup list[t].found \in SUBSET Repo
          BY <2>1, <3>1, CacheAssumption DEF ThreadTypes
        <4>2. [todo |-> list[t].todo, page |-> list[t].page + 1,
               seen |-> list[t].seen \cup list[t].found, found |-> {}]
                 \in [todo : SUBSET Installation, page : 0..Pages,
                      seen : SUBSET Repo, found : SUBSET Repo]
          BY <4>1
        <4>3. list' \in [Thread -> [todo : SUBSET Installation, page : 0..Pages,
                                   seen : SUBSET Repo, found : SUBSET Repo]]
          BY <2>1, <3>1, <4>2 DEF ThreadTypes, RecordPage
        <4>4. /\ pc' = [pc EXCEPT ![t] = "send"]
              /\ UNCHANGED <<op, repo, inst, left, wait, calm>>
          BY <3>1 DEF RecordPage, Goto, job, hand
        <4>5. QED
          BY <2>1, <4>3, <4>4 DEF ThreadTypes
      <3>2. CASE ~(list[t].page < Pages)
        <4>1. list[t].todo \in SUBSET Installation
              /\ list[t].seen \cup list[t].found \in SUBSET Repo
          BY <2>1 DEF ThreadTypes
        <4>2. NextInstallation(t, list[t].todo, list[t].seen \cup list[t].found)
          BY <3>2 DEF RecordPage
        <4>3. QED
          BY <2>1, <4>1, <4>2, NextTypes
      <3>9. QED
        BY <3>1, <3>2
    <2>9. QED
      BY <2>2, <2>8 DEF CacheTypeOK, SharedTypes, ThreadTypes
  <1>2. LockSafe' /\ EntrySafe'
    BY DEF RecordPage, Listed, NextInstallation, Return, Goto, job, hand,
       listing, metadata,
       CacheSafe, CacheTypeOK, HandSafe, LockSafe, EntrySafe, Locked, Single
  <1>3. ASSUME NEW u \in Thread PROVE HandSafe(u)'
    <2>1. CASE list[t].page < Pages
      <3>1. /\ pc' = [pc EXCEPT ![t] = "send"] /\ UNCHANGED <<op, repo, inst>>
            /\ pc[t] = "page"
        BY <2>1 DEF RecordPage, Goto, job, hand
      <3>2. QED
        BY <3>1 DEF CacheSafe, CacheTypeOK, HandSafe
    <2>2. CASE ~(list[t].page < Pages)
      <3>1. /\ ThreadTypes /\ list[t].todo \in SUBSET Installation
            /\ list[t].seen \cup list[t].found \in SUBSET Repo
        BY Halves DEF CacheSafe, ThreadTypes
      <3>2. /\ OthersSame(t)
            /\ Chosen(t, list[t].todo, list[t].seen \cup list[t].found)
        BY <2>2, <3>1, NextEffect DEF RecordPage
      <3>3. op[t] = "list"
        BY DEF CacheSafe, HandSafe, RecordPage
      <3>4. QED
        BY <3>1, <3>2, <3>3 DEF CacheSafe, HandSafe, Single, OthersSame, Chosen
    <2>3. QED
      BY <2>1, <2>2
  <1>4. ASSUME NEW u \in Thread PROVE TokenSafe(u)'
    BY DEF RecordPage, Listed, NextInstallation, Return, Goto, job, hand,
       listing, metadata,
       CacheSafe, CacheTypeOK, HandSafe, TokenSafe, Locked, LockSafe, Good,
       NoList
  <1>5. QED
    BY <1>1, <1>2, <1>3, <1>4 DEF CacheSafe

LEMMA RaiseSafe ==
  ASSUME NEW t \in Thread, CacheSafe, Raise(t)
  PROVE  CacheSafe'
  <1> USE CacheAssumption
  <1>1. CacheTypeOK'
    BY DEF Raise, Return, Goto, job, hand, listing, metadata,
       CacheSafe, CacheTypeOK, HandSafe, TokenSafe, NoList, Single, Locked
  <1>2. LockSafe' /\ EntrySafe'
    BY DEF Raise, Return, Goto, job, hand, listing, metadata,
       CacheSafe, CacheTypeOK, HandSafe, LockSafe, EntrySafe, Locked, Single
  <1>3. ASSUME NEW u \in Thread PROVE HandSafe(u)'
    BY DEF Raise, Return, Goto, job, hand, listing, metadata,
       CacheSafe, CacheTypeOK, HandSafe, Locked, Single, LockSafe, NoList
  <1>4. ASSUME NEW u \in Thread PROVE TokenSafe(u)'
    BY DEF Raise, Return, Goto, job, hand, listing, metadata,
       CacheSafe, CacheTypeOK, HandSafe, TokenSafe, Locked, LockSafe, Good,
       NoList
  <1>5. QED
    BY <1>1, <1>2, <1>3, <1>4 DEF CacheSafe

LEMMA TransferSafe ==
  ASSUME NEW r \in Repo, CacheSafe, Transfer(r)
  PROVE  CacheSafe'
  <1>1. CacheTypeOK'
    BY DEF Transfer, CacheSafe, CacheTypeOK, job, hand, metadata
  <1>2. LockSafe' /\ EntrySafe'
    BY DEF Transfer, CacheSafe, LockSafe, EntrySafe, metadata
  <1>3. ASSUME NEW u \in Thread PROVE HandSafe(u)' /\ TokenSafe(u)'
    BY DEF Transfer, CacheSafe, HandSafe, TokenSafe, job, hand
  <1>4. QED
    BY <1>1, <1>2, <1>3 DEF CacheSafe

\* The step in which the assumptions about time are needed: a wait is counted
\* beyond the margin.
LEMMA TickSafe ==
  ASSUME CacheSafe, Tick
  PROVE  CacheSafe'
  <1> USE CacheAssumption
  <1>1. CacheTypeOK'
    <2>1. CacheTypeOK
      BY DEF CacheSafe
    <2>2. tokens' \in [Installation -> 0..Life] /\ left' \in [Thread -> 0..Life]
      <3>1. \A n \in 0..Life : Less(n) \in 0..Life
        BY DEF Less
      <3>2. /\ tokens' = [i \in Installation |-> Less(tokens[i])]
            /\ left' = [t \in Thread |-> Less(left[t])]
        BY DEF Tick
      <3>3. QED
        BY <2>1, <3>1, <3>2 DEF CacheTypeOK
    <2>3. wait' \in [Thread -> 0..Wait]
      BY <2>1 DEF Tick, Waits, CacheTypeOK
    <2>4. /\ fresh' \in [Repo -> 0..Ttl] /\ age' \in [Repo -> Nat]
          /\ way' \in [Repo -> 0..Wait]
      <3>1. \A n \in 0..Ttl : Less(n) \in 0..Ttl
        BY DEF Less
      <3>2. /\ fresh' = [r \in Repo |-> Less(fresh[r])]
            /\ age' = [r \in Repo |-> IF fresh[r] > 1 THEN age[r] + 1 ELSE 0]
            /\ way' = [r \in Repo |-> IF fresh[r] > 1 THEN way[r] ELSE 0]
        BY DEF Tick
      <3>3. QED
        BY <2>1, <3>1, <3>2 DEF CacheTypeOK
    <2>5. UNCHANGED <<home, ids, lock, pc, op, repo, inst, list, calm>>
      BY DEF Tick, job, listing
    <2>6. QED
      BY <2>1, <2>2, <2>3, <2>4, <2>5 DEF CacheTypeOK
  <1>2. LockSafe' /\ EntrySafe'
    <2>1. LockSafe'
      BY DEF Tick, CacheSafe, LockSafe
    <2>2. ASSUME NEW r \in Repo, fresh'[r] > 0
          PROVE  age'[r] + fresh'[r] <= Ttl + way'[r]
      <3>1. /\ fresh[r] \in Nat /\ age[r] \in Nat /\ way[r] \in Nat
            /\ fresh'[r] = Less(fresh[r])
            /\ age'[r] = IF fresh[r] > 1 THEN age[r] + 1 ELSE 0
            /\ way'[r] = IF fresh[r] > 1 THEN way[r] ELSE 0
        BY DEF Tick, CacheSafe, CacheTypeOK
      <3>2. fresh[r] > 0 => age[r] + fresh[r] <= Ttl + way[r]
        BY DEF CacheSafe, EntrySafe
      <3>3. QED
        BY <2>2, <3>1, <3>2 DEF Less
    <2>3. QED
      BY <2>1, <2>2 DEF EntrySafe
  <1>3. ASSUME NEW u \in Thread PROVE HandSafe(u)'
    BY DEF Tick, CacheSafe, HandSafe, job, listing
  <1>4. ASSUME NEW u \in Thread PROVE TokenSafe(u)'
    <2>1. /\ left[u] \in Nat /\ wait[u] \in Nat
          /\ left'[u] = Less(left[u])
          /\ wait'[u] = IF Waits(u) THEN wait[u] + 1 ELSE wait[u]
          /\ wait[u] <= Wait
      BY DEF Tick, CacheSafe, CacheTypeOK
    <2>2. pc[u] = "mint" => tokens'[inst[u]] <= Margin
      BY DEF Tick, CacheSafe, CacheTypeOK, HandSafe, TokenSafe, Less
    <2>3. QED
      BY <2>1, <2>2 DEF Tick, CacheSafe, TokenSafe, Waits, Less, listing
  <1>5. QED
    BY <1>1, <1>2, <1>3, <1>4 DEF CacheSafe

\* The invariant of the caches.
THEOREM CacheSafety == CacheSpec => []CacheSafe
  <1>1. CacheInit => CacheSafe
    BY CacheAssumption
    DEF CacheInit, CacheSafe, CacheTypeOK, LockSafe, EntrySafe, HandSafe,
    TokenSafe,
        NoList, Single, Locked
  <1>2. CacheSafe /\ [CacheNext]_cacheVars => CacheSafe'
    <2> SUFFICES ASSUME CacheSafe, [CacheNext]_cacheVars PROVE CacheSafe'
      OBVIOUS
    <2>1. CASE UNCHANGED cacheVars
      BY <2>1 DEF cacheVars, CacheSafe, CacheTypeOK, LockSafe, EntrySafe,
         HandSafe,
           TokenSafe, job, hand, listing, metadata
    <2>2. ASSUME NEW t \in Thread, ThreadStep(t) PROVE CacheSafe'
      BY <2>2, CallSafe, ReadMetadataSafe, ListRepositoriesSafe, LookUpIdSafe,
         LockIdSafe, AskIdSafe, FillIdSafe, LookUpTokenSafe, LockTokenSafe,
         MintSafe,
         StoreTokenSafe, PermitSafe, ArriveCallSafe, ArriveMetadataSafe, StoreMetadataSafe,
         AskListSafe, ArrivePageSafe, RecordPageSafe, RaiseSafe DEF ThreadStep
    <2>3. QED
      BY <2>1, <2>2, TransferSafe, TickSafe DEF CacheNext
  <1>3. QED
    BY <1>1, <1>2, PTL DEF CacheSpec

\* Every variable of the caches keeps its type.
THEOREM CacheTypes == CacheSpec => []CacheTypeOK
  <1>1. CacheSafe => CacheTypeOK
    BY DEF CacheSafe
  <1>2. QED
    BY <1>1, CacheSafety, PTL

\* However many calls miss a token together, one is asked for only while there is
\* no usable one; capabilities alone has one made without a look.
THEOREM MintsWhenNeeded == CacheSpec => []NoNeedlessMint
  <1>1. CacheSafe => NoNeedlessMint
    BY CacheAssumption DEF CacheSafe, CacheTypeOK, HandSafe, TokenSafe,
       NoNeedlessMint, Good
  <1>2. QED
    BY <1>1, CacheSafety, PTL

\* A request arrives with an ended token only if more than the margin has passed
\* since the token was taken.
THEOREM TokensLast == CacheSpec => []NeverExpired
  <1>1. CacheSafe => NeverExpired
    BY CacheAssumption DEF CacheSafe, CacheTypeOK, TokenSafe, NeverExpired
  <1>2. QED
    BY <1>1, CacheSafety, PTL

\* What the cache serves is younger than its time and the way of its answer.
THEOREM MetadataLast == CacheSpec => []MetadataFresh
  <1>1. CacheSafe => MetadataFresh
    BY CacheAssumption DEF CacheSafe, CacheTypeOK, EntrySafe, MetadataFresh
  <1>2. QED
    BY <1>1, CacheSafety, PTL

-----------------------------------------------------------------------------
(* list_repositories repairs the ids. *)

Right(r) == ids[r] = home[r]

\* While a list is calm, a repository is recorded under its installation, or
\* will be: its installation is still to be listed, or it is on a page still to
\* be recorded of the one being listed.
Coming(t, r) ==
    \/ home[r] = None \/ Right(r)
    \/ home[r] \in list[t].todo
    \/ /\ home[r] = inst[t] /\ PageOf[r] >= list[t].page
       /\ pc[t] = "page" /\ PageOf[r] = list[t].page => r \in list[t].found

CalmSafe(t) ==
    calm[t] =>
        /\ op[t] = "list" /\ pc[t] # "idle"
        /\ \A u \in Thread : ~Old(u)
        /\ pc[t] # "ask_list" =>
              /\ \A r \in list[t].seen : Right(r)
              /\ \A r \in Repo : Coming(t, r)

AllCalm == \A t \in Thread : CalmSafe(t)

AllCalmSafe == CacheSafe /\ AllCalm

\* What every other thread sees of a step of t that concerns no list and no id.
Undisturbed(t) ==
    /\ UNCHANGED <<home, ids>>
    /\ OthersSame(t)
    /\ pc'[t] \notin {"fill_id", "page", "ask_list"}
    /\ calm'[t] =>
          /\ calm[t] /\ pc[t] \notin {"page", "ask_list"} /\ pc'[t] # "idle"
          /\ op'[t] = op[t] /\ inst'[t] = inst[t] /\ list'[t] = list[t]

LEMMA UndisturbedCalm ==
  ASSUME AllCalmSafe, NEW t \in Thread, Undisturbed(t)
  PROVE  AllCalm'
  <1>1. ASSUME NEW u \in Thread, ~Old(u) PROVE ~Old(u)'
    BY <1>1 DEF Undisturbed, OthersSame, Old
  <1>2. ASSUME NEW u \in Thread, calm'[u] PROVE CalmSafe(u)'
    <2>0. CalmSafe(u)
      BY DEF AllCalmSafe, AllCalm
    <2>1. /\ calm[u] /\ op'[u] = op[u] /\ inst'[u] = inst[u] /\ list'[u] = list[u]
          /\ pc'[u] # "idle"
          /\ pc'[u] = "page" => pc[u] = "page"
          /\ pc[u] = "ask_list" => pc'[u] = "ask_list"
      BY <1>2, <2>0 DEF Undisturbed, OthersSame, CalmSafe
    <2>2. /\ op[u] = "list" /\ \A v \in Thread : ~Old(v)
          /\ pc[u] # "ask_list" =>
              /\ \A r \in list[u].seen : Right(r)
              /\ \A r \in Repo : Coming(u, r)
      BY <2>1 DEF AllCalmSafe, AllCalm, CalmSafe
    <2>3. \A v \in Thread : ~Old(v)'
      BY <1>1, <2>2
    <2>4. \A r : Right(r)' <=> Right(r)
      BY DEF Undisturbed, Right
    <2>5. pc[u] # "ask_list" => \A r \in Repo : Coming(u, r)'
      BY <2>1, <2>2, <2>4 DEF Coming, Undisturbed
    <2>6. QED
      BY <2>1, <2>2, <2>3, <2>4, <2>5 DEF CalmSafe
  <1>3. QED
    BY <1>2 DEF AllCalm, CalmSafe

LEMMA CallUndisturbed ==
  ASSUME NEW t \in Thread, NEW r \in Repo, AllCalmSafe, Call(t, r)
  PROVE  Undisturbed(t)
  BY DEF Call, Start, Goto, Undisturbed, OthersSame, AllCalmSafe, CacheSafe,
     CacheTypeOK, AllCalm, CalmSafe,
     HandSafe, Single, job, hand, listing

LEMMA ReadMetadataUndisturbed ==
  ASSUME NEW t \in Thread, NEW r \in Repo, AllCalmSafe, ReadMetadata(t, r)
  PROVE  Undisturbed(t)
  <1>1. PICK o \in {"number", "metadata"} : Start(t, o, r)
    BY DEF ReadMetadata
  <1>2. QED
    BY <1>1 DEF ReadMetadata, Start, Goto, Undisturbed, OthersSame,
       AllCalmSafe, CacheSafe, CacheTypeOK, AllCalm, CalmSafe, HandSafe, hand,
       listing

LEMMA LookUpIdUndisturbed ==
  ASSUME NEW t \in Thread, AllCalmSafe, LookUpId(t)
  PROVE  Undisturbed(t)
  BY DEF LookUpId, GotId, Return, Goto, Undisturbed, OthersSame, AllCalmSafe,
     CacheSafe, CacheTypeOK, AllCalm, CalmSafe,
     HandSafe, Single, job, hand, listing

LEMMA LockIdUndisturbed ==
  ASSUME NEW t \in Thread, AllCalmSafe, LockId(t)
  PROVE  Undisturbed(t)
  BY DEF LockId, GotId, Return, Goto, Undisturbed, OthersSame, AllCalmSafe,
     CacheSafe, CacheTypeOK, AllCalm, CalmSafe,
     HandSafe, Single, job, hand, listing

LEMMA LookUpTokenUndisturbed ==
  ASSUME NEW t \in Thread, AllCalmSafe, LookUpToken(t)
  PROVE  Undisturbed(t)
  BY DEF LookUpToken, Draw, Goto, Undisturbed, OthersSame, AllCalmSafe,
     CacheSafe, CacheTypeOK, AllCalm, CalmSafe,
     HandSafe, Single, job, hand, listing

LEMMA LockTokenUndisturbed ==
  ASSUME NEW t \in Thread, AllCalmSafe, LockToken(t)
  PROVE  Undisturbed(t)
  BY DEF LockToken, Draw, Goto, Undisturbed, OthersSame, AllCalmSafe,
     CacheSafe, CacheTypeOK, AllCalm, CalmSafe,
     HandSafe, Single, job, hand, listing

LEMMA MintUndisturbed ==
  ASSUME NEW t \in Thread, AllCalmSafe, Mint(t)
  PROVE  Undisturbed(t)
  BY DEF Mint, Goto, Undisturbed, OthersSame, AllCalmSafe, CacheSafe,
     CacheTypeOK, AllCalm, CalmSafe,
     HandSafe, Single, job, hand, listing

LEMMA StoreTokenUndisturbed ==
  ASSUME NEW t \in Thread, AllCalmSafe, StoreToken(t)
  PROVE  Undisturbed(t)
  BY DEF StoreToken, Goto, Undisturbed, OthersSame, AllCalmSafe, CacheSafe,
     CacheTypeOK, AllCalm, CalmSafe,
     HandSafe, Single, job, hand, listing

LEMMA PermitUndisturbed ==
  ASSUME NEW t \in Thread, AllCalmSafe, Permit(t)
  PROVE  Undisturbed(t)
  BY DEF Permit, Goto, Undisturbed, OthersSame, AllCalmSafe, CacheSafe,
     CacheTypeOK, AllCalm, CalmSafe,
     HandSafe, Single, job, hand, listing

LEMMA ArriveCallUndisturbed ==
  ASSUME NEW t \in Thread, AllCalmSafe, ArriveCall(t)
  PROVE  Undisturbed(t)
  BY DEF ArriveCall, Return, Goto, Undisturbed, OthersSame, AllCalmSafe,
     CacheSafe, CacheTypeOK, AllCalm, CalmSafe,
     HandSafe, Single, job, hand, listing

LEMMA ArriveMetadataUndisturbed ==
  ASSUME NEW t \in Thread, AllCalmSafe, ArriveMetadata(t)
  PROVE  Undisturbed(t)
  BY DEF ArriveMetadata, Goto, Undisturbed, OthersSame, AllCalmSafe,
     CacheSafe, CacheTypeOK, AllCalm, CalmSafe,
     HandSafe, Single, job, hand, listing

LEMMA StoreMetadataUndisturbed ==
  ASSUME NEW t \in Thread, AllCalmSafe, StoreMetadata(t)
  PROVE  Undisturbed(t)
  BY DEF StoreMetadata, Return, Goto, Undisturbed, OthersSame, AllCalmSafe,
     CacheSafe, CacheTypeOK, AllCalm, CalmSafe,
     HandSafe, Single, job, hand, listing

LEMMA RaiseUndisturbed ==
  ASSUME NEW t \in Thread, AllCalmSafe, Raise(t)
  PROVE  Undisturbed(t)
  BY DEF Raise, Return, Goto, Undisturbed, OthersSame, AllCalmSafe, CacheSafe,
     CacheTypeOK, AllCalm, CalmSafe,
     HandSafe, Single, job, hand, listing

\* An id is written right while some list is calm, and right ids stay right.
LEMMA WrittenRight ==
  ASSUME AllCalmSafe, NEW t \in Thread, \A u \in Thread : ~Old(u),
         FillId(t) \/ RecordPage(t)
  PROVE  \A r \in Repo : Right(r) => Right(r)'
  <1>1. CASE FillId(t)
    <2>1. repo[t] \in Repo /\ inst[t] = home[repo[t]]
      BY <1>1 DEF FillId, Old, AllCalmSafe, CacheSafe, HandSafe
    <2>2. QED
      BY <1>1, <2>1 DEF FillId, Right, AllCalmSafe, CacheSafe, CacheTypeOK
  <1>2. CASE RecordPage(t)
    <2>1. \A r \in list[t].found : inst[t] = home[r]
      BY <1>2 DEF RecordPage, Old
    <2>2. ids' = Listed(t) /\ home' = home
      BY <1>2 DEF RecordPage
    <2>3. QED
      BY <2>1, <2>2 DEF Listed, Right
  <1>3. QED
    BY <1>1, <1>2

\* The other lists, when t stores an id or a page.
LEMMA OthersCalm ==
  ASSUME AllCalmSafe, NEW t \in Thread, NEW u \in Thread \ {t},
         home' = home, calm[u] => \A v \in Thread : ~Old(v)',
         calm[u] => \A r \in Repo : Right(r) => Right(r)',
         OthersSame(t)
  PROVE  CalmSafe(u)'
  <1> SUFFICES ASSUME calm'[u] PROVE CalmSafe(u)'
    BY DEF CalmSafe
  <1>1. /\ pc'[u] = pc[u] /\ op'[u] = op[u] /\ inst'[u] = inst[u]
        /\ list'[u] = list[u] /\ calm'[u] = calm[u]
    BY DEF OthersSame
  <1>2. /\ op[u] = "list" /\ pc[u] # "idle"
        /\ pc[u] # "ask_list" =>
              /\ \A r \in list[u].seen : Right(r)
              /\ \A r \in Repo : Coming(u, r)
    BY <1>1 DEF AllCalmSafe, AllCalm, CalmSafe
  <1>3. list[u].seen \subseteq Repo
    BY DEF AllCalmSafe, CacheSafe, CacheTypeOK
  <1>4. pc[u] # "ask_list" => \A r \in Repo : Coming(u, r)'
    BY <1>1, <1>2 DEF Coming
  <1>5. QED
    BY <1>1, <1>2, <1>3, <1>4 DEF AllCalm, CalmSafe

LEMMA FillIdCalm ==
  ASSUME NEW t \in Thread, AllCalmSafe, FillId(t)
  PROVE  AllCalm'
  <1>1. op[t] # "list" /\ ~calm[t] /\ ~calm'[t]
    BY DEF FillId, GotId, Return, listing, AllCalmSafe, CacheSafe, CacheTypeOK,
       HandSafe, AllCalm, CalmSafe, Single
  <1>2. /\ home' = home /\ pc'[t] \in {"idle", "token", "permit"}
        /\ OthersSame(t)
    BY DEF OthersSame, FillId, GotId, Return, Goto, job, hand, listing,
       AllCalmSafe, CacheSafe, CacheTypeOK
  <1>3. ASSUME NEW u \in Thread, ~Old(u) PROVE ~Old(u)'
    BY <1>2, <1>3 DEF OthersSame, Chosen, Old
  <1>4. ASSUME NEW u \in Thread \ {t} PROVE CalmSafe(u)'
    <2>1. calm[u] => \A v \in Thread : ~Old(v)
      BY DEF AllCalmSafe, AllCalm, CalmSafe
    <2>2. calm[u] => \A r \in Repo : Right(r) => Right(r)'
      BY <2>1, WrittenRight
    <2>3. QED
      BY <1>2, <1>3, <2>1, <2>2, OthersCalm
  <1>5. QED
    BY <1>1, <1>4 DEF AllCalm, CalmSafe

LEMMA AskIdCalm ==
  ASSUME NEW t \in Thread, AllCalmSafe, AskId(t)
  PROVE  AllCalm'
  <1>1. op[t] # "list" /\ ~calm[t] /\ ~calm'[t]
    BY DEF AskId, listing, AllCalmSafe, CacheSafe, HandSafe, AllCalm,
       CalmSafe, Single
  <1>2. /\ home' = home /\ ids' = ids /\ pc'[t] = "fill_id"
        /\ inst'[t] = home[repo[t]] /\ repo'[t] = repo[t]
        /\ OthersSame(t)
    BY DEF OthersSame, AskId, Goto, job, listing, AllCalmSafe, CacheSafe,
       CacheTypeOK
  <1>3. ASSUME NEW u \in Thread, ~Old(u) PROVE ~Old(u)'
    BY <1>2, <1>3 DEF OthersSame, Chosen, Old
  <1>4. ASSUME NEW u \in Thread \ {t} PROVE CalmSafe(u)'
    <2>1. calm[u] => \A v \in Thread : ~Old(v)
      BY DEF AllCalmSafe, AllCalm, CalmSafe
    <2>2. \A r \in Repo : Right(r) => Right(r)'
      BY <1>2 DEF Right
    <2>3. QED
      BY <1>2, <1>3, <2>1, <2>2, OthersCalm
  <1>5. QED
    BY <1>1, <1>4 DEF AllCalm, CalmSafe

LEMMA ListRepositoriesCalm ==
  ASSUME NEW t \in Thread, AllCalmSafe, ListRepositories(t)
  PROVE  AllCalm'
  <1>1. /\ home' = home /\ ids' = ids /\ pc'[t] = "ask_list" /\ op'[t] = "list"
        /\ calm'[t] = \A u \in Thread : ~Old(u)
        /\ OthersSame(t)
    BY DEF OthersSame, ListRepositories, Goto, hand, AllCalmSafe, CacheSafe,
       CacheTypeOK
  <1>2. ASSUME NEW u \in Thread, ~Old(u) PROVE ~Old(u)'
    BY <1>1, <1>2 DEF OthersSame, Old
  <1>3. CalmSafe(t)'
    BY <1>1, <1>2 DEF CalmSafe
  <1>4. ASSUME NEW u \in Thread \ {t} PROVE CalmSafe(u)'
    <2>1. calm[u] => \A v \in Thread : ~Old(v)
      BY DEF AllCalmSafe, AllCalm, CalmSafe
    <2>2. \A r \in Repo : Right(r) => Right(r)'
      BY <1>1 DEF Right
    <2>3. QED
      BY <1>1, <1>2, <2>1, <2>2, OthersCalm
  <1>5. QED
    BY <1>3, <1>4 DEF AllCalm

LEMMA AskListCalm ==
  ASSUME NEW t \in Thread, AllCalmSafe, AskList(t)
  PROVE  AllCalm'
  <1>1. /\ ThreadTypes /\ Installed \in SUBSET Installation
        /\ NextInstallation(t, Installed, {}) /\ home' = home /\ ids' = ids
    BY Halves DEF AllCalmSafe, CacheSafe, SharedTypes, Installed, AskList
  <1>2. /\ OthersSame(t)
        /\ Chosen(t, Installed, {})
    BY <1>1, NextEffect
  <1>3. ASSUME NEW u \in Thread, ~Old(u) PROVE ~Old(u)'
    BY <1>1, <1>2, <1>3 DEF OthersSame, Chosen, Old
  <1>4. ASSUME calm'[t] PROVE CalmSafe(t)'
    <2>1. op'[t] = "list" /\ \A v \in Thread : ~Old(v)'
      BY <1>2, <1>3, <1>4 DEF Chosen, AllCalmSafe, AllCalm, CalmSafe
    <2>2. \A r \in Repo : home[r] = None \/ home[r] \in Installed
      BY DEF Installed
    <2>3. \A r \in Repo : PageOf[r] >= 1
      BY CacheAssumption
    <2>4. \A r \in Repo : Coming(t, r)'
      BY <1>1, <1>2, <1>4, <2>2, <2>3 DEF Chosen, Coming
    <2>5. QED
      BY <1>2, <1>4, <2>1, <2>4 DEF Chosen, CalmSafe
  <1>5. ASSUME NEW u \in Thread \ {t} PROVE CalmSafe(u)'
    <2>1. calm[u] => \A v \in Thread : ~Old(v)
      BY DEF AllCalmSafe, AllCalm, CalmSafe
    <2>2. \A r \in Repo : Right(r) => Right(r)'
      BY <1>1 DEF Right
    <2>3. QED
      BY <1>1, <1>2, <1>3, <2>1, <2>2, OthersCalm
  <1>6. QED
    BY <1>4, <1>5 DEF AllCalm, CalmSafe

LEMMA ArrivePageCalm ==
  ASSUME NEW t \in Thread, AllCalmSafe, ArrivePage(t)
  PROVE  AllCalm'
  <1>1. /\ home' = home /\ ids' = ids /\ pc'[t] = "page" /\ pc[t] = "send"
        /\ op'[t] = op[t] /\ inst'[t] = inst[t] /\ calm'[t] = calm[t]
        /\ list'[t].todo = list[t].todo /\ list'[t].page = list[t].page
        /\ list'[t].seen = list[t].seen
        /\ list'[t].found = {r \in Repo : home[r] = inst[t] /\ PageOf[r] = list[t].page}
        /\ OthersSame(t)
    BY DEF OthersSame, ArrivePage, Goto, job, hand, AllCalmSafe, CacheSafe,
       CacheTypeOK
  <1>2. ASSUME NEW u \in Thread, ~Old(u) PROVE ~Old(u)'
    BY <1>1, <1>2 DEF OthersSame, Old
  <1>3. ASSUME calm'[t] PROVE CalmSafe(t)'
    <2>1. /\ op'[t] = "list" /\ \A v \in Thread : ~Old(v)'
          /\ \A r \in list[t].seen : Right(r)
          /\ \A r \in Repo : Coming(t, r)
      BY <1>1, <1>2, <1>3 DEF AllCalmSafe, AllCalm, CalmSafe
    <2>2. \A r \in Repo : Coming(t, r)'
      BY <1>1, <2>1 DEF Coming, Right
    <2>3. QED
      BY <1>1, <2>1, <2>2 DEF CalmSafe, Right
  <1>4. ASSUME NEW u \in Thread \ {t} PROVE CalmSafe(u)'
    <2>1. calm[u] => \A v \in Thread : ~Old(v)
      BY DEF AllCalmSafe, AllCalm, CalmSafe
    <2>2. \A r \in Repo : Right(r) => Right(r)'
      BY <1>1 DEF Right
    <2>3. QED
      BY <1>1, <1>2, <2>1, <2>2, OthersCalm
  <1>5. QED
    BY <1>3, <1>4 DEF AllCalm, CalmSafe

\* The page of a calm list that is recorded, and what is left after it.
LEMMA PageRight ==
  ASSUME NEW t \in Thread, AllCalmSafe, RecordPage(t), calm[t]
  PROVE  /\ \A r \in list[t].seen \cup list[t].found : r \in Repo /\ Right(r)'
         /\ \A r \in Repo : Right(r) => Right(r)'
         /\ \A r \in Repo :
               \/ home[r] = None \/ Right(r)' \/ home[r] \in list[t].todo
               \/ home[r] = inst[t] /\ PageOf[r] > list[t].page
  <1>1. /\ \A u \in Thread : ~Old(u)
        /\ \A r \in list[t].seen : Right(r)
        /\ \A r \in Repo : Coming(t, r)
    BY DEF AllCalmSafe, AllCalm, CalmSafe, RecordPage
  <1>2. \A r \in list[t].found : inst[t] = home[r]
    BY <1>1 DEF RecordPage, Old
  <1>3. list[t].seen \subseteq Repo /\ list[t].found \subseteq Repo
        /\ list[t].page \in Nat
    BY CacheAssumption DEF AllCalmSafe, CacheSafe, CacheTypeOK
  <1>4. ids' = Listed(t) /\ home' = home /\ pc[t] = "page"
    BY DEF RecordPage
  <1>5. \A r \in Repo : Right(r) => Right(r)'
    BY <1>1, WrittenRight
  <1>6. \A r \in list[t].found : Right(r)'
    BY <1>1, <1>2, <1>3, <1>4 DEF Listed, Right
  <1>7. \A r \in Repo : PageOf[r] \in Nat
    BY CacheAssumption
  <1>8. \A r \in Repo : \/ home[r] = None \/ Right(r)' \/ home[r] \in list[t].todo
                        \/ home[r] = inst[t] /\ PageOf[r] > list[t].page
    BY <1>1, <1>3, <1>4, <1>5, <1>6, <1>7 DEF Coming
  <1>9. QED
    BY <1>1, <1>3, <1>5, <1>6, <1>8

LEMMA RecordPageCalm ==
  ASSUME NEW t \in Thread, AllCalmSafe, RecordPage(t)
  PROVE  AllCalm'
  <1> DEFINE todo == list[t].todo
             seen == list[t].seen \cup list[t].found
  <1>1. /\ ThreadTypes /\ todo \in SUBSET Installation /\ seen \in SUBSET Repo
        /\ home' = home /\ pc[t] = "page" /\ list[t].page \in Nat
    BY Halves, CacheAssumption DEF AllCalmSafe, CacheSafe, ThreadTypes,
       RecordPage
  <1>2. OthersSame(t)
    <2>1. CASE list[t].page < Pages
      BY <2>1 DEF OthersSame, RecordPage, Goto, job, hand, AllCalmSafe,
         CacheSafe, CacheTypeOK
    <2>2. CASE ~(list[t].page < Pages)
      BY <1>1, <2>2, NextEffect DEF RecordPage
    <2>3. QED
      BY <2>1, <2>2
  <1>3. \/ /\ list[t].page < Pages /\ pc'[t] = "send" /\ inst'[t] = inst[t]
           /\ op'[t] = op[t] /\ calm'[t] = calm[t]
           /\ list'[t].todo = todo /\ list'[t].page = list[t].page + 1
           /\ list'[t].seen = seen
        \/ ~(list[t].page < Pages) /\ Chosen(t, todo, seen)
    <2>1. CASE list[t].page < Pages
      BY <2>1 DEF OthersSame, RecordPage, Goto, job, hand, AllCalmSafe,
         CacheSafe, CacheTypeOK
    <2>2. CASE ~(list[t].page < Pages)
      BY <1>1, <2>2, NextEffect DEF RecordPage
    <2>3. QED
      BY <2>1, <2>2
  <1>4. ASSUME NEW u \in Thread, ~Old(u) PROVE ~Old(u)'
    BY <1>1, <1>2, <1>3, <1>4 DEF OthersSame, Chosen, Old
  <1>5. ASSUME calm'[t] PROVE CalmSafe(t)'
    <2>1. calm[t] /\ op'[t] = "list" /\ \A v \in Thread : ~Old(v)'
      BY <1>3, <1>4, <1>5 DEF Chosen, AllCalmSafe, AllCalm, CalmSafe
    <2>2. /\ \A r \in seen : r \in Repo /\ Right(r)'
          /\ \A r \in Repo :
                \/ home[r] = None \/ Right(r)' \/ home[r] \in todo
                \/ home[r] = inst[t] /\ PageOf[r] > list[t].page
      BY <2>1, PageRight
    <2>3. \A r \in Repo : PageOf[r] \in Nat /\ PageOf[r] >= 1 /\ PageOf[r] <= Pages
      BY CacheAssumption
    <2>4. \A r \in Repo : Coming(t, r)'
      <3> SUFFICES ASSUME NEW r \in Repo PROVE Coming(t, r)'
        OBVIOUS
      <3>1. CASE list[t].page < Pages
        BY <1>1, <1>3, <2>2, <2>3, <3>1 DEF Chosen, Coming
      <3>2. CASE ~(list[t].page < Pages)
        <4>1. home[r] = None \/ Right(r)' \/ home[r] \in todo
          BY <1>1, <2>2, <2>3, <3>2, CacheAssumption
        <4>2. /\ pc'[t] = "token" /\ list'[t].todo = todo \ {inst'[t]}
              /\ list'[t].page = 1
          BY <1>3, <1>5, <3>2 DEF Chosen
        <4>3. QED
          BY <1>1, <2>3, <4>1, <4>2 DEF Coming
      <3>3. QED
        BY <3>1, <3>2
    <2>5. QED
      BY <1>3, <1>5, <2>1, <2>2, <2>4 DEF Chosen, CalmSafe
  <1>6. ASSUME NEW u \in Thread \ {t} PROVE CalmSafe(u)'
    <2>1. calm[u] => \A v \in Thread : ~Old(v)
      BY DEF AllCalmSafe, AllCalm, CalmSafe
    <2>2. calm[u] => \A r \in Repo : Right(r) => Right(r)'
      BY <2>1, WrittenRight
    <2>3. QED
      BY <1>1, <1>2, <1>4, <2>1, <2>2, OthersCalm
  <1>7. QED
    BY <1>5, <1>6 DEF AllCalm, CalmSafe

LEMMA CalmSafety == CacheSpec => []AllCalmSafe
  <1>1. CacheInit => AllCalm
    BY DEF CacheInit, AllCalm, CalmSafe
  <1>2. AllCalmSafe /\ [CacheNext]_cacheVars => AllCalm'
    <2> SUFFICES ASSUME AllCalmSafe, [CacheNext]_cacheVars
                 PROVE  AllCalm'
      OBVIOUS
    <2>1. CASE UNCHANGED cacheVars
      BY <2>1 DEF cacheVars, AllCalmSafe, AllCalm, CalmSafe, Coming, Right,
         Old, job, hand,
           listing
    <2>2. CASE Tick
      BY <2>2 DEF Tick, AllCalmSafe, AllCalm, CalmSafe, Coming, Right, Old,
         job, listing
    <2>3. ASSUME NEW r \in Repo, Transfer(r) PROVE AllCalm'
      BY <2>3 DEF Transfer, AllCalm, CalmSafe
    <2>4. ASSUME NEW t \in Thread, ThreadStep(t) PROVE AllCalm'
      <3>1. \/ \E r \in Repo : Call(t, r) \/ ReadMetadata(t, r)
            \/ ListRepositories(t) \/ LookUpId(t) \/ LockId(t) \/ AskId(t) \/ FillId(t)
            \/ LookUpToken(t) \/ LockToken(t) \/ Mint(t) \/ StoreToken(t)
            \/ Permit(t) \/ ArriveCall(t) \/ ArriveMetadata(t) \/ StoreMetadata(t)
            \/ AskList(t) \/ ArrivePage(t) \/ RecordPage(t) \/ Raise(t)
        BY <2>4 DEF ThreadStep
      <3>2. CASE \/ ListRepositories(t) \/ AskId(t) \/ FillId(t)
                 \/ AskList(t) \/ ArrivePage(t) \/ RecordPage(t)
        BY <3>2, ListRepositoriesCalm, AskIdCalm, FillIdCalm, AskListCalm,
           ArrivePageCalm, RecordPageCalm
      <3>3. CASE \/ \E r \in Repo : Call(t, r) \/ ReadMetadata(t, r)
                 \/ LookUpId(t) \/ LockId(t) \/ LookUpToken(t) \/ LockToken(t)
                 \/ Mint(t) \/ StoreToken(t) \/ Permit(t) \/ ArriveCall(t)
                 \/ ArriveMetadata(t) \/ StoreMetadata(t) \/ Raise(t)
        <4>1. Undisturbed(t)
          BY <3>3, CallUndisturbed, ReadMetadataUndisturbed,
             LookUpIdUndisturbed,
             LockIdUndisturbed, LookUpTokenUndisturbed, LockTokenUndisturbed,
             MintUndisturbed, StoreTokenUndisturbed, PermitUndisturbed,
             ArriveCallUndisturbed,
             ArriveMetadataUndisturbed, StoreMetadataUndisturbed,
             RaiseUndisturbed
        <4>2. QED
          BY <4>1, UndisturbedCalm
      <3>4. QED
        BY <3>1, <3>2, <3>3
    <2>5. QED
      BY <2>1, <2>2, <2>3, <2>4 DEF CacheNext
  <1>3. CacheSafe /\ AllCalm <=> AllCalmSafe
    BY DEF AllCalmSafe
  <1>4. QED
    BY <1>1, <1>2, <1>3, CacheSafety, PTL DEF CacheSpec

\* A calm list leaves the right ids.
THEOREM ListsRepair == CacheSpec => ListRepairs
  <1> DEFINE Repaired ==
        \A t \in Thread :
           (AskList(t) \/ RecordPage(t)) /\ calm[t] /\ pc'[t] = "idle" =>
              \A r \in Repo : home[r] = None \/ ids'[r] = home[r]
  <1>1. AllCalmSafe => Repaired
    <2> SUFFICES ASSUME AllCalmSafe, NEW t \in Thread, NEW r \in Repo,
                        AskList(t) \/ RecordPage(t), calm[t], pc'[t] = "idle"
                 PROVE  home[r] = None \/ ids'[r] = home[r]
      OBVIOUS
    <2>1. ThreadTypes
      BY Halves DEF AllCalmSafe, CacheSafe
    <2>2. CASE AskList(t)
      <3>1. Installed \in SUBSET Installation
        BY DEF Installed, AllCalmSafe, CacheSafe, CacheTypeOK
      <3>2. Installed = {}
        BY <2>1, <2>2, <3>1, NextEffect DEF AskList, Chosen
      <3>3. QED
        BY <3>2 DEF Installed
    <2>3. CASE RecordPage(t)
      <3>1. ~(list[t].page < Pages)
        BY <2>3, <2>1 DEF RecordPage, Goto, ThreadTypes
      <3>2. list[t].todo \in SUBSET Installation /\ list[t].page \in Nat
            /\ list[t].seen \cup list[t].found \in SUBSET Repo
        BY <2>1, CacheAssumption DEF ThreadTypes
      <3>3. list[t].todo = {}
        <4>1. NextInstallation(t, list[t].todo, list[t].seen \cup list[t].found)
          BY <2>3, <3>1 DEF RecordPage
        <4>2. Chosen(t, list[t].todo, list[t].seen \cup list[t].found)
          BY <2>1, <3>2, <4>1, NextEffect
        <4>3. QED
          BY <4>2 DEF Chosen
      <3>4. \/ home[r] = None \/ Right(r)' \/ home[r] \in list[t].todo
            \/ home[r] = inst[t] /\ PageOf[r] > list[t].page
        BY <2>3, PageRight
      <3>5. PageOf[r] \in Nat /\ PageOf[r] <= Pages
        BY CacheAssumption
      <3>6. home' = home
        BY <2>3 DEF RecordPage
      <3>7. QED
        BY <3>1, <3>2, <3>3, <3>4, <3>5, <3>6, CacheAssumption DEF Right
    <2>4. QED
      BY <2>2, <2>3
  <1>2. AllCalmSafe => [Repaired]_cacheVars
    BY <1>1
  <1>3. QED
    BY <1>2, CalmSafety, PTL DEF ListRepairs

-----------------------------------------------------------------------------
(* The rewrites of a branch's history. *)

\* What has been collected: of a graph, each commit once and its parents before
\* it; of a linear range, a chain whose first commit grew from what path holds.
Collected ==
    IF tool = "graph"
    THEN /\ \A i, k \in 1..Len(order) : order[i] = order[k] => i = k
         /\ \A i \in 1..Len(order) : \A j \in 1..Len(Parents(order[i])) :
               \E k \in 1..(i - 1) : order[k] = Parents(order[i])[j]
    ELSE /\ order # <<>> => Parents(order[1]) = path
         /\ \A i \in 2..Len(order) : Parents(order[i]) = <<order[i - 1]>>

\* The commits being visited, each older than the one before it; none is in
\* order yet.
Descending ==
    /\ path # <<>> /\ path[1] = head
    /\ \A i, k \in 1..Len(path) : i < k => path[k] < path[i]
    /\ \A i \in 1..Len(path), k \in 1..Len(order) : order[k] # path[i]
    /\ Len(order) + Len(path) <= limit

Following ==
    /\ Len(path) = 1
    /\ order = <<>> => path[1] = head
    /\ order # <<>> => Last(order) = head
    /\ Len(order) <= limit

\* The walk is over.
Ready ==
    /\ order # <<>> /\ Last(order) = head /\ Len(order) <= limit
    /\ tool = "linear" => path = IF base = 0 THEN <<>> ELSE <<base>>

HistoryInv ==
    /\ TypeOK
    /\ Collected
    /\ at = "idle" => path = <<>> /\ order = <<>> /\ new = <<>>
    /\ at = "walk" => new = <<>>
    /\ at = "walk" /\ tool = "graph" => Descending
    /\ at = "walk" /\ tool = "linear" => Following
    /\ at \in {"make", "update"} => Ready
    /\ at = "update" => Len(new) = Len(order)
    /\ \A i \in 1..Len(new) : MadeFrom(i)

\* The repository has grown, and the commits in it have stayed.
Grown ==
    /\ Repository(objects') /\ objects' # <<>>
    /\ Len(objects) <= Len(objects')
    /\ \A s \in Sha : objects'[s] = objects[s]

LEMMA ParentFacts ==
  ASSUME Repository(objects), NEW s \in Sha
  PROVE  /\ Parents(s) \in Seq(Nat) /\ Len(Parents(s)) \in Nat
         /\ objects[s] \in Commit
         /\ \A j \in 1..Len(Parents(s)) :
              Parents(s)[j] \in 1..(s - 1) /\ Parents(s)[j] \in Sha
  <1>1. objects \in Seq(Commit) /\ Len(objects) \in Nat
    BY DEF Repository
  <1>2. objects[s] \in Commit
    BY <1>1 DEF Sha
  <1>3. Parents(s) \in Seq(Nat)
    BY <1>2 DEF Commit, Parents
  <1>4. \A j \in 1..Len(Parents(s)) : Parents(s)[j] \in 1..(s - 1)
    BY DEF Repository, Sha, Parents
  <1>5. QED
    BY <1>1, <1>2, <1>3, <1>4 DEF Sha

\* A commit whose parents exist is added, or is there already.
LEMMA AppendGrows ==
  ASSUME Repository(objects), objects # <<>>, NEW c \in Commit,
         \A j \in 1..Len(c.parents) : c.parents[j] \in Sha,
         \A s \in Sha : objects[s] # c,
         objects' = Append(objects, c)
  PROVE  Grown /\ Len(objects') \in Sha' /\ objects'[Len(objects')] = c
  <1>1. objects \in Seq(Commit) /\ Len(objects) \in Nat
    BY DEF Repository
  <1>2. /\ objects' \in Seq(Commit) /\ objects' # <<>>
        /\ Len(objects') = Len(objects) + 1
        /\ \A i \in 1..Len(objects) : objects'[i] = objects[i]
        /\ objects'[Len(objects) + 1] = c
    BY <1>1, AppendProperties
  <1>3. ASSUME NEW i \in 1..Len(objects'), NEW j \in 1..Len(objects'[i].parents)
        PROVE  objects'[i].parents[j] \in 1..(i - 1)
    <2>1. CASE i \in 1..Len(objects)
      BY <1>2, <2>1, <1>3 DEF Repository
    <2>2. CASE i = Len(objects) + 1
      BY <1>1, <1>2, <2>2, <1>3 DEF Sha
    <2>3. QED
      BY <1>1, <1>2, <2>1, <2>2
  <1>4. ASSUME NEW i \in 1..Len(objects'), NEW k \in 1..Len(objects'),
               objects'[i] = objects'[k]
        PROVE  i = k
    <2>1. CASE i \in 1..Len(objects) /\ k \in 1..Len(objects)
      BY <1>2, <1>4, <2>1 DEF Repository
    <2>2. CASE i \in 1..Len(objects) /\ k = Len(objects) + 1
      BY <1>2, <1>4, <2>2 DEF Sha
    <2>3. CASE i = Len(objects) + 1 /\ k \in 1..Len(objects)
      BY <1>2, <1>4, <2>3 DEF Sha
    <2>4. QED
      BY <1>1, <1>2, <2>1, <2>2, <2>3
  <1>5. Repository(objects')
    BY <1>2, <1>3, <1>4 DEF Repository
  <1>6. QED
    BY <1>1, <1>2, <1>5 DEF Grown, Sha

LEMMA PutGrows ==
  ASSUME Repository(objects), objects # <<>>, NEW c \in Commit,
         \A j \in 1..Len(c.parents) : c.parents[j] \in Sha,
         Put(c)
  PROVE  Grown /\ Named(c) \in Sha' /\ objects'[Named(c)] = c
  <1>1. Grown /\ \E s \in Sha' : objects'[s] = c
    <2>1. CASE \E s \in Sha : objects[s] = c
      <3>1. objects' = objects
        BY <2>1 DEF Put
      <3>2. Len(objects) \in Nat
        BY DEF Repository
      <3>3. QED
        BY <2>1, <3>1, <3>2 DEF Grown, Sha
    <2>2. CASE \A s \in Sha : objects[s] # c
      <3>1. objects' = Append(objects, c)
        BY <2>2 DEF Put
      <3>2. QED
        BY <2>2, <3>1, AppendGrows
    <2>3. QED
      BY <2>1, <2>2
  <1>2. QED
    BY <1>1 DEF Named, Sha

\* What is known of a call stands while the repository grows.
LEMMA GrownKeeps ==
  ASSUME HistoryInv, Grown, ref' \in Sha',
         UNCHANGED <<at, tool, base, limit, head, path, order, new, outcome>>
  PROVE  HistoryInv'
  <1>1. TypeOK /\ Repository(objects)
    BY DEF HistoryInv, TypeOK
  <1>2. Sha \subseteq Sha' /\ Len(objects) \in Nat /\ Len(objects') \in Nat
    BY <1>1 DEF Grown, Sha, Repository
  <1>3. \A s \in Sha : Parents(s)' = Parents(s)
    BY DEF Grown, Parents
  <1>4. TypeOK'
    BY <1>1, <1>2, SeqMonotonic DEF TypeOK, Grown
  <1>5. \A i \in 1..Len(order) : order[i] \in Sha
    BY <1>1 DEF TypeOK
  <1>6. \A i \in 1..Len(new) : new[i] \in Sha
    BY <1>1 DEF TypeOK
  <1>7. Collected'
    <2>1. CASE tool = "graph"
      BY <2>1, <1>3, <1>5 DEF HistoryInv, Collected
    <2>2. CASE tool # "graph"
      <3>1. Len(order) \in Nat /\ (order # <<>> => 1 \in 1..Len(order))
        BY <1>1 DEF TypeOK
      <3>2. QED
        BY <2>2, <3>1, <1>3, <1>5 DEF HistoryInv, Collected
    <2>3. QED
      BY <2>1, <2>2
  <1>8. ASSUME NEW i \in 1..Len(new) PROVE MadeFrom(i)'
    <2>1. i \in 1..Len(order)
      BY <1>1 DEF TypeOK
    <2>2. MadeFrom(i) /\ order[i] \in Sha /\ new[i] \in Sha
      BY <2>1, <1>5, <1>6 DEF HistoryInv
    <2>3. objects'[order[i]] = objects[order[i]] /\ objects'[new[i]] = objects[new[i]]
      BY <2>2 DEF Grown
    <2>4. QED
      BY <2>2, <2>3, <1>3 DEF MadeFrom
  <1>9. QED
    BY <1>4, <1>7, <1>8 DEF HistoryInv, Descending, Following, Ready, Last

\* So does everything when a call ends.
LEMMA StopKeeps ==
  ASSUME HistoryInv, NEW why \in {"limit", "unrelated", "empty", "merge", "mismatch",
                                  "result", "raced", "error"},
         Stop(why), Grown, ref' \in Sha'
  PROVE  HistoryInv'
  <1>1. TypeOK /\ Repository(objects)
    BY DEF HistoryInv, TypeOK
  <1>2. Sha \subseteq Sha' /\ Len(objects) \in Nat /\ Len(objects') \in Nat
    BY <1>1 DEF Grown, Sha, Repository
  <1>3. TypeOK'
    BY <1>1, <1>2, EmptySeq DEF TypeOK, Grown, Stop
  <1>4. Len(<<>>) = 0 /\ new' = <<>> /\ order' = <<>> /\ path' = <<>>
    BY EmptySeq DEF Stop
  <1>5. QED
    BY <1>3, <1>4 DEF HistoryInv, Collected, Stop

LEMMA SameIsGrown ==
  ASSUME HistoryInv, UNCHANGED objects
  PROVE  Grown
  BY DEF HistoryInv, TypeOK, Grown, Repository

LEMMA BeginKeeps ==
  ASSUME HistoryInv, NEW t \in {"linear", "graph"}, NEW b \in {0} \cup Sha,
         NEW n \in Limits, Begin(t, b, n)
  PROVE  HistoryInv'
  <1>1. TypeOK /\ n \in Nat \ {0}
    BY HistoryAssumption DEF HistoryInv
  <1>2. /\ path' = <<ref>> /\ path' \in Seq(Sha) /\ Len(path') = 1 /\ path'[1] = ref
        /\ path' # <<>>
    BY <1>1 DEF Begin, TypeOK
  <1>3. order' = <<>> /\ new' = <<>> /\ Len(<<>>) = 0 /\ <<>> \in Seq(Sha)
    BY EmptySeq DEF Begin
  <1>4. TypeOK'
    BY <1>1, <1>2, <1>3 DEF TypeOK, Begin, Sha
  <1>5. Descending' /\ Following' /\ Collected'
    BY <1>1, <1>2, <1>3 DEF Begin, Descending, Following, Collected
  <1>6. QED
    BY <1>3, <1>4, <1>5 DEF HistoryInv, Begin

LEMMA DescendKeeps ==
  ASSUME HistoryInv, Descend
  PROVE  HistoryInv'
  <1>1. /\ TypeOK /\ Descending /\ Collected /\ new = <<>>
        /\ at = "walk" /\ tool = "graph" /\ objects' = objects /\ ref' = ref
    BY DEF HistoryInv, Descend
  <1>2. PICK j \in Waiting :
          IF Room THEN /\ path' = Append(path, Parents(Last(path))[j])
                       /\ UNCHANGED <<at, tool, base, limit, head, order, new, outcome>>
                  ELSE Stop("limit")
    BY DEF Descend
  <1>3. CASE ~Room
    BY <1>1, <1>2, <1>3, SameIsGrown, StopKeeps DEF TypeOK, Sha
  <1>4. CASE Room
    <2> DEFINE s == Last(path)
               p == Parents(s)[j]
    <2>1. /\ path \in Seq(Sha) /\ order \in Seq(Sha) /\ Len(path) \in Nat \ {0}
          /\ Len(order) \in Nat /\ limit \in Nat /\ Len(objects) \in Nat
      BY <1>1, EmptySeq DEF TypeOK, Descending, Repository
    <2>2. s \in Sha /\ s = path[Len(path)]
      BY <2>1 DEF Last
    <2>3. p \in Sha /\ p < s /\ \A k \in 1..Len(order) : order[k] # p
      <3>1. j \in 1..Len(Parents(s)) /\ ~Visited(p)
        BY DEF Waiting
      <3>2. p \in Sha /\ p \in 1..(s - 1)
        BY <1>1, <2>2, <3>1, ParentFacts DEF TypeOK
      <3>3. \A k \in 1..Len(order) : order[k] # p
        BY <3>1 DEF Visited
      <3>4. s \in Nat
        BY <2>2 DEF Sha
      <3>5. QED
        BY <3>2, <3>3, <3>4
    <2>4. /\ path' = Append(path, p)
          /\ UNCHANGED <<objects, ref, at, tool, base, limit, head, order, new, outcome>>
      BY <1>1, <1>2, <1>4
    <2>5. /\ path' \in Seq(Sha) /\ path' # <<>> /\ Len(path') = Len(path) + 1
          /\ \A i \in 1..Len(path) : path'[i] = path[i]
          /\ path'[Len(path) + 1] = p
      BY <2>1, <2>3, <2>4, AppendProperties
    <2>6. TypeOK'
      BY <1>1, <2>4, <2>5 DEF TypeOK, Sha
    <2>7. \A i \in 1..Len(path) : path[i] \in Nat /\ s <= path[i] /\ p < path[i]
      <3>1. ASSUME NEW i \in 1..Len(path)
            PROVE  path[i] \in Nat /\ s <= path[i] /\ p < path[i]
        <4>1. path[i] \in Nat /\ s \in Nat /\ p \in Nat
          BY <2>1, <2>2, <2>3 DEF Sha
        <4>2. i = Len(path) \/ (i < Len(path) /\ Len(path) \in 1..Len(path))
          BY <2>1
        <4>3. s = path[i] \/ s < path[i]
          BY <1>1, <2>2, <4>2 DEF Descending
        <4>4. QED
          BY <2>3, <4>1, <4>3
      <3>2. QED
        BY <3>1
    <2>8. Descending'
      <3>1. ASSUME NEW i \in 1..Len(path'), NEW k \in 1..Len(path'), i < k
            PROVE  path'[k] < path'[i]
        <4>1. CASE k \in 1..Len(path)
          BY <1>1, <2>1, <2>5, <3>1, <4>1 DEF Descending
        <4>2. CASE k = Len(path) + 1
          BY <2>1, <2>5, <2>7, <3>1, <4>2
        <4>3. QED
          BY <2>1, <2>5, <4>1, <4>2
      <3>2. ASSUME NEW i \in 1..Len(path'), NEW k \in 1..Len(order)
            PROVE  order[k] # path'[i]
        BY <1>1, <2>1, <2>3, <2>5 DEF Descending
      <3>3. QED
        BY <1>1, <1>4, <2>1, <2>4, <2>5, <3>1, <3>2 DEF Descending, Room
    <2>9. QED
      <3>1. Collected' /\ new' = <<>> /\ at' = "walk" /\ tool' = "graph"
        BY <1>1, <2>4 DEF Collected, Parents
      <3>2. QED
        BY <2>6, <2>8, <3>1, EmptySeq DEF HistoryInv
  <1>5. QED
    BY <1>3, <1>4

LEMMA LeaveKeeps ==
  ASSUME HistoryInv, Leave
  PROVE  HistoryInv'
  <1> DEFINE s == Last(path)
  <1>1. /\ TypeOK /\ Descending /\ Collected /\ new = <<>>
        /\ at = "walk" /\ tool = "graph" /\ Waiting = {}
    BY DEF HistoryInv, Leave
  <1>2. /\ path \in Seq(Sha) /\ order \in Seq(Sha) /\ Len(path) \in Nat \ {0}
        /\ Len(order) \in Nat /\ limit \in Nat /\ Repository(objects)
    BY <1>1, EmptySeq DEF TypeOK, Descending
  <1>3. s \in Sha /\ s = path[Len(path)] /\ \A k \in 1..Len(order) : order[k] # s
    BY <1>1, <1>2 DEF Last, Descending
  <1>4. /\ order' \in Seq(Sha) /\ order' # <<>> /\ Len(order') = Len(order) + 1
        /\ \A i \in 1..Len(order) : order'[i] = order[i]
        /\ order'[Len(order) + 1] = s
    BY <1>2, <1>3, AppendProperties DEF Leave
  <1>5. /\ path' \in Seq(Sha) /\ Len(path') = Len(path) - 1
        /\ \A i \in 1..Len(path') : path'[i] = path[i]
    <2>1. \A i \in 1..(Len(path) - 1) : path[i] \in Sha
      BY <1>2
    <2>2. path' = SubSeq(path, 1, Len(path) - 1)
      BY DEF Leave
    <2>3. 1 \in Int /\ Len(path) - 1 \in Int
      BY <1>2
    <2>4. /\ path' \in Seq(Sha)
          /\ Len(path') = IF 1 <= Len(path) - 1 THEN Len(path) - 1 - 1 + 1 ELSE 0
          /\ \A i \in 1..(Len(path) - 1 - 1 + 1) : path'[i] = path[1 + i - 1]
      BY <2>1, <2>2, <2>3, SubSeqProperties
    <2>5. Len(path') = Len(path) - 1
      <3>1. Len(path) \in Nat \ {0}
        BY <1>2
      <3>2. Len(path') = IF 1 <= Len(path) - 1 THEN Len(path) - 1 - 1 + 1 ELSE 0
        BY <2>4
      <3>3. QED
        BY <3>1, <3>2
    <2>6. ASSUME NEW i \in 1..Len(path') PROVE path'[i] = path[i]
      <3>1. i \in 1..(Len(path) - 1 - 1 + 1) /\ 1 + i - 1 = i
        BY <1>2, <2>5
      <3>2. path'[i] = path[1 + i - 1]
        BY <2>4, <3>1
      <3>3. QED
        BY <3>1, <3>2
    <2>7. QED
      BY <2>4, <2>5, <2>6
  <1>6. /\ UNCHANGED <<objects, ref, tool, base, limit, head, new, outcome>>
        /\ at' = IF Len(path) = 1 THEN "make" ELSE "walk"
    BY DEF Leave
  <1>7. TypeOK'
    BY <1>1, <1>4, <1>5, <1>6, EmptySeq DEF TypeOK, Sha
  <1>8. Collected'
    <2>1. ASSUME NEW i \in 1..Len(order'), NEW k \in 1..Len(order'), order'[i] = order'[k]
          PROVE  i = k
      <3>1. CASE i \in 1..Len(order) /\ k \in 1..Len(order)
        BY <1>1, <1>4, <2>1, <3>1 DEF Collected
      <3>2. CASE i = Len(order) + 1 \/ k = Len(order) + 1
        BY <1>2, <1>3, <1>4, <2>1, <3>2
      <3>3. QED
        BY <1>2, <1>4, <3>1, <3>2
    <2>2. ASSUME NEW i \in 1..Len(order'), NEW j \in 1..Len(Parents(order'[i]))
          PROVE  \E k \in 1..(i - 1) : order'[k] = Parents(order'[i])[j]
      <3>1. CASE i \in 1..Len(order)
        <4>1. order'[i] = order[i]
          BY <1>4, <3>1
        <4>2. PICK k \in 1..(i - 1) : order[k] = Parents(order[i])[j]
          BY <1>1, <2>2, <3>1, <4>1 DEF Collected
        <4>3. k \in 1..Len(order)
          BY <1>2, <3>1
        <4>4. QED
          BY <1>4, <4>1, <4>2, <4>3
      <3>2. CASE i = Len(order) + 1
        <4>1. Visited(Parents(s)[j])
          BY <1>1, <1>4, <2>2, <3>2 DEF Waiting
        <4>2. PICK k \in 1..Len(order) : order[k] = Parents(s)[j]
          BY <4>1 DEF Visited
        <4>3. k \in 1..(i - 1) /\ order'[k] = order[k]
          BY <1>2, <1>4, <3>2
        <4>4. QED
          BY <1>4, <3>2, <4>2, <4>3
      <3>3. QED
        BY <1>2, <1>4, <3>1, <3>2
    <2>3. \A x \in Sha : Parents(x)' = Parents(x)
      BY <1>6 DEF Parents
    <2>4. QED
      BY <1>1, <1>4, <1>6, <2>1, <2>2, <2>3 DEF Collected, Parents
  <1>9. CASE Len(path) = 1
    <2>1. Ready'
      BY <1>1, <1>2, <1>3, <1>4, <1>6, <1>9 DEF Ready, Descending, Last
    <2>2. QED
      BY <1>1, <1>6, <1>7, <1>8, <1>9, <2>1, EmptySeq DEF HistoryInv
  <1>10. CASE Len(path) # 1
    <2>1. Len(path') \in Nat \ {0} /\ path' # <<>>
      BY <1>2, <1>5, <1>10, EmptySeq
    <2>2. ASSUME NEW i \in 1..Len(path'), NEW k \in 1..Len(order')
          PROVE  order'[k] # path'[i]
      <3>1. i \in 1..Len(path) /\ i < Len(path) /\ path'[i] = path[i]
        BY <1>2, <1>5
      <3>2. s < path[i] /\ path[i] \in Nat /\ s \in Nat
        BY <1>1, <1>2, <1>3, <3>1 DEF Descending, Sha
      <3>3. CASE k \in 1..Len(order)
        BY <1>1, <1>4, <3>1, <3>3 DEF Descending
      <3>4. CASE k = Len(order) + 1
        BY <1>4, <3>1, <3>2, <3>4
      <3>5. QED
        BY <1>2, <1>4, <3>3, <3>4
    <2>3. \A i, k \in 1..Len(path') : i < k => path'[k] < path'[i]
      BY <1>1, <1>2, <1>5 DEF Descending
    <2>4. path'[1] = head /\ Len(order') + Len(path') <= limit
      BY <1>1, <1>2, <1>4, <1>5, <2>1 DEF Descending
    <2>5. Descending'
      BY <1>6, <2>1, <2>2, <2>3, <2>4 DEF Descending
    <2>6. QED
      BY <1>1, <1>6, <1>7, <1>8, <1>10, <2>5, EmptySeq DEF HistoryInv
  <1>11. QED
    BY <1>9, <1>10

LEMMA FollowKeeps ==
  ASSUME HistoryInv, Follow
  PROVE  HistoryInv'
  <1> DEFINE s == Last(path)
  <1>1. /\ TypeOK /\ Following /\ Collected /\ new = <<>>
        /\ at = "walk" /\ tool = "linear" /\ UNCHANGED <<objects, ref>>
        /\ Len(order) < limit /\ Len(Parents(s)) <= 1
    BY DEF HistoryInv, Follow
  <1>2. CASE Parents(s) = <<>> /\ base # 0
    <2>1. Stop("unrelated")
      BY <1>2 DEF Follow
    <2>2. QED
      BY <1>1, <2>1, SameIsGrown, StopKeeps DEF TypeOK, Sha
  <1>3. CASE ~(Parents(s) = <<>> /\ base # 0)
    <2>1. /\ order' = <<s>> \o order /\ path' = Parents(s)
          /\ at' = IF Parents(s) = <<>> THEN "make" ELSE "walk"
          /\ UNCHANGED <<objects, ref, tool, base, limit, head, new, outcome>>
      BY <1>1, <1>3 DEF Follow
    <2>2. /\ path \in Seq(Sha) /\ order \in Seq(Sha) /\ Len(path) = 1
          /\ Len(order) \in Nat /\ limit \in Nat /\ Repository(objects)
      BY <1>1 DEF TypeOK, Following
    <2>3. s \in Sha /\ s = path[1]
      BY <2>2 DEF Last
    <2>4. <<s>> \in Seq(Sha) /\ Len(<<s>>) = 1 /\ <<s>>[1] = s
      BY <2>3
    <2>5. /\ order' \in Seq(Sha) /\ Len(order') = 1 + Len(order)
          /\ \A i \in 1..(1 + Len(order)) :
                order'[i] = IF i <= 1 THEN <<s>>[i] ELSE order[i - 1]
      BY <2>1, <2>2, <2>4, ConcatProperties
    <2>6. /\ order'[1] = s /\ order' # <<>>
          /\ \A i \in 1..Len(order) : order'[i + 1] = order[i]
      <3>1. order'[1] = s
        BY <2>2, <2>4, <2>5
      <3>2. order' # <<>>
        BY <2>2, <2>5, EmptySeq
      <3>3. ASSUME NEW i \in 1..Len(order) PROVE order'[i + 1] = order[i]
        <4>1. i + 1 \in 1..(1 + Len(order)) /\ ~(i + 1 <= 1) /\ i + 1 - 1 = i
          BY <2>2
        <4>2. QED
          BY <2>5, <4>1
      <3>4. QED
        BY <3>1, <3>2, <3>3
    <2>7. /\ Parents(s) \in Seq(Nat) /\ Len(Parents(s)) \in Nat
          /\ \A j \in 1..Len(Parents(s)) : Parents(s)[j] \in Sha
      BY <2>2, <2>3, ParentFacts
    <2>8. path' \in Seq(Sha)
      <3>1. Parents(s) \in [1..Len(Parents(s)) -> Sha]
        BY <2>7
      <3>2. QED
        BY <2>1, <2>7, <3>1, SeqDef
    <2>9. TypeOK'
      BY <1>1, <2>1, <2>2, <2>5, <2>8, EmptySeq DEF TypeOK, Sha
    <2>10. Last(order)' = head
      <3>1. CASE order = <<>>
        BY <1>1, <2>2, <2>3, <2>5, <2>6, <3>1, EmptySeq DEF Last, Following
      <3>2. CASE order # <<>>
        <4>1. Len(order) \in 1..Len(order)
          BY <2>2, <3>2, EmptySeq
        <4>2. order'[Len(order) + 1] = order[Len(order)]
          BY <2>6, <4>1
        <4>3. Len(order') = Len(order) + 1
          BY <2>2, <2>5
        <4>4. QED
          BY <1>1, <3>2, <4>2, <4>3 DEF Last, Following
      <3>3. QED
        BY <3>1, <3>2
    <2>11. Collected'
      <3>1. ASSUME NEW i \in 2..Len(order')
            PROVE  Parents(order'[i]) = <<order'[i - 1]>>
        <4>1. i - 1 \in 1..Len(order) /\ (i - 1) + 1 = i
          BY <2>2, <2>5
        <4>2. order'[i] = order[i - 1]
          BY <2>6, <4>1
        <4>3. CASE i = 2
          <5>1. order # <<>> /\ order[1] = order'[i] /\ order'[i - 1] = s
            BY <2>6, <4>1, <4>2, <4>3, EmptySeq
          <5>2. Parents(order[1]) = path
            BY <1>1, <5>1 DEF Collected
          <5>3. path = <<s>>
            BY <2>2, <2>3, <2>4, SeqEqual
          <5>4. QED
            BY <5>1, <5>2, <5>3
        <4>4. CASE i # 2
          <5>1. i - 1 \in 2..Len(order)
            BY <2>2, <4>1, <4>4
          <5>2. Parents(order[i - 1]) = <<order[(i - 1) - 1]>>
            BY <1>1, <5>1 DEF Collected
          <5>3. (i - 1) - 1 \in 1..Len(order) /\ ((i - 1) - 1) + 1 = i - 1
            BY <2>2, <5>1
          <5>4. order'[i - 1] = order[(i - 1) - 1]
            BY <2>6, <5>3
          <5>5. QED
            BY <4>2, <5>2, <5>4
        <4>5. QED
          BY <4>3, <4>4
      <3>2. Parents(order'[1]) = path'
        BY <2>1, <2>6
      <3>3. QED
        BY <1>1, <2>1, <3>1, <3>2 DEF Collected, Parents
    <2>12. Len(order') <= limit /\ new' = <<>> /\ tool' = "linear"
      BY <1>1, <2>1, <2>2, <2>5
    <2>13. CASE Parents(s) = <<>>
      <3>1. Ready' /\ at' = "make"
        BY <1>3, <2>1, <2>6, <2>10, <2>12, <2>13 DEF Ready, Last
      <3>2. QED
        BY <2>9, <2>11, <2>12, <3>1, EmptySeq DEF HistoryInv
    <2>14. CASE Parents(s) # <<>>
      <3>1. Len(path') = 1
        BY <1>1, <2>1, <2>7, <2>14, EmptySeq
      <3>2. Following' /\ at' = "walk"
        BY <2>1, <2>6, <2>10, <2>12, <2>14, <3>1 DEF Following, Last
      <3>3. QED
        BY <2>9, <2>11, <2>12, <3>2, EmptySeq DEF HistoryInv
    <2>15. QED
      BY <2>13, <2>14
  <1>4. QED
    BY <1>2, <1>3

LEMMA ReachBaseKeeps ==
  ASSUME HistoryInv, ReachBase
  PROVE  HistoryInv'
  <1>1. /\ TypeOK /\ Following /\ Collected /\ new = <<>> /\ at' = "make"
        /\ tool = "linear" /\ order # <<>> /\ base # 0 /\ Last(path) = base
        /\ UNCHANGED <<objects, ref, tool, base, limit, head, path, order, new, outcome>>
    BY DEF HistoryInv, ReachBase, AtBase
  <1>2. path = <<base>>
    <2>1. path \in Seq(Sha) /\ Len(path) = 1 /\ path[1] = base
      BY <1>1 DEF TypeOK, Following, Last
    <2>2. base \in Sha
      BY <2>1
    <2>3. <<base>> \in Seq(Sha) /\ Len(<<base>>) = 1 /\ <<base>>[1] = base
      BY <2>2
    <2>4. QED
      BY <2>1, <2>3, SeqEqual
  <1>3. Ready'
    BY <1>1, <1>2 DEF Following, Ready, Last
  <1>4. TypeOK' /\ Collected'
    BY <1>1 DEF TypeOK, Collected, Sha, Parents
  <1>5. QED
    BY <1>1, <1>3, <1>4, EmptySeq DEF HistoryInv

LEMMA WalkFailsKeeps ==
  ASSUME HistoryInv, WalkFails
  PROVE  HistoryInv'
  <1>1. UNCHANGED <<objects, ref>> /\ (Stop("limit") \/ Stop("empty") \/ Stop("merge"))
    BY DEF WalkFails
  <1>2. ref' \in Sha' /\ Grown
    BY <1>1, SameIsGrown DEF HistoryInv, TypeOK, Sha
  <1>3. QED
    BY <1>1, <1>2, StopKeeps

LEMMA FunctionIsSeq ==
  ASSUME NEW S, NEW n \in Nat, NEW f \in [1..n -> S]
  PROVE  f \in Seq(S) /\ Len(f) = n
  <1>1. f \in Seq(S)
    BY SeqDef
  <1>2. Len(f) \in Nat /\ 1..Len(f) = 1..n
    BY <1>1, LenProperties
  <1>3. QED
    BY <1>1, <1>2

\* What the next commit's parents have become, one for one.
Mapped(s, ps) ==
    /\ ps \in Seq(Nat) /\ Len(ps) = Len(Parents(s))
    /\ \A j \in 1..Len(ps) :
          /\ ps[j] \in Sha
          /\ \/ tool = "linear" /\ Parents(s)[j] = base /\ ps[j] = base
             \/ \E k \in 1..Len(new) : order[k] = Parents(s)[j] /\ new[k] = ps[j]

LEMMA NewParentsFacts ==
  ASSUME HistoryInv, at = "make", Len(new) < Len(order)
  PROVE  /\ order[Len(new) + 1] \in Sha
         /\ Mapped(order[Len(new) + 1], NewParents(order[Len(new) + 1]))
  <1> DEFINE i == Len(new) + 1
             s == order[i]
  <1>1. /\ TypeOK /\ Collected /\ Ready /\ Repository(objects)
        /\ new \in Seq(Sha) /\ order \in Seq(Sha)
        /\ Len(new) \in Nat /\ Len(order) \in Nat
        /\ Len(objects) \in Nat
    BY DEF HistoryInv, TypeOK, Repository
  <1>2. i \in 1..Len(order) /\ s \in Sha
    BY <1>1
  <1>3. /\ Parents(s) \in Seq(Nat) /\ Len(Parents(s)) \in Nat
        /\ \A j \in 1..Len(Parents(s)) : Parents(s)[j] \in Sha
    BY <1>1, <1>2, ParentFacts
  <1>4. \A k \in 1..Len(new) : new[k] \in Sha /\ new[k] \in Nat
    BY <1>1 DEF Sha
  <1>5. CASE tool = "graph"
    <2>1. NewParents(s) = [j \in 1..Len(Parents(s)) |-> Becomes(Parents(s)[j])]
      BY <1>5 DEF NewParents
    <2>2. ASSUME NEW j \in 1..Len(Parents(s))
          PROVE  \E k \in 1..Len(new) :
                    order[k] = Parents(s)[j] /\ new[k] = Becomes(Parents(s)[j])
      <3>1. PICK k \in 1..(i - 1) : order[k] = Parents(s)[j]
        BY <1>1, <1>2, <1>5, <2>2 DEF Collected
      <3>2. k \in 1..Len(new) /\ k \in 1..Len(order)
        BY <1>1, <1>2, <3>1
      <3>3. \A l \in 1..Len(order) : order[l] = Parents(s)[j] <=> l = k
        BY <1>1, <1>5, <3>1, <3>2 DEF Collected
      <3>4. (CHOOSE l \in 1..Len(order) : order[l] = Parents(s)[j]) = k
        BY <3>2, <3>3
      <3>5. QED
        BY <3>1, <3>2, <3>4 DEF Becomes
    <2>3. \A j \in 1..Len(Parents(s)) :
             Becomes(Parents(s)[j]) \in Sha /\ Becomes(Parents(s)[j]) \in Nat
      BY <1>4, <2>2
    <2>4. NewParents(s) \in Seq(Nat) /\ Len(NewParents(s)) = Len(Parents(s))
      <3>1. NewParents(s) \in [1..Len(Parents(s)) -> Nat]
        BY <2>1, <2>3
      <3>2. \A f \in [1..Len(Parents(s)) -> Nat] :
               f \in Seq(Nat) /\ Len(f) = Len(Parents(s))
        BY <1>3, FunctionIsSeq
      <3>3. QED
        BY <3>1, <3>2
    <2>5. QED
      BY <1>2, <2>1, <2>2, <2>3, <2>4 DEF Mapped
  <1>6. CASE tool # "graph" /\ new # <<>>
    <2>1. NewParents(s) = <<Last(new)>> /\ tool = "linear"
      BY <1>1, <1>6 DEF NewParents, TypeOK
    <2>2. Len(new) \in 1..Len(new) /\ i \in 2..Len(order) /\ i - 1 = Len(new)
      BY <1>1, <1>2, <1>6, EmptySeq
    <2>3. Parents(s) = <<order[Len(new)]>>
      BY <1>1, <1>6, <2>2 DEF Collected
    <2>4. /\ Last(new) = new[Len(new)] /\ <<Last(new)>> \in Seq(Nat)
          /\ Len(<<Last(new)>>) = 1 /\ <<Last(new)>>[1] = new[Len(new)]
      BY <1>4, <2>2 DEF Last
    <2>5. Len(Parents(s)) = 1 /\ Parents(s)[1] = order[Len(new)]
      BY <2>3
    <2>6. QED
      BY <1>2, <1>4, <2>1, <2>2, <2>4, <2>5 DEF Mapped
  <1>7. CASE tool # "graph" /\ new = <<>>
    <2>1. NewParents(s) = (IF base = 0 THEN <<>> ELSE <<base>>) /\ tool = "linear"
      BY <1>1, <1>7 DEF NewParents, TypeOK
    <2>2. i = 1 /\ order # <<>>
      BY <1>1, <1>7, EmptySeq DEF Ready
    <2>3. Parents(s) = NewParents(s)
      BY <1>1, <1>7, <2>1, <2>2 DEF Collected, Ready
    <2>4. \A j \in 1..Len(Parents(s)) : Parents(s)[j] = base
      <3>1. CASE base = 0
        BY <2>1, <2>3, <3>1, EmptySeq
      <3>2. CASE base # 0
        BY <2>1, <2>3, <3>2
      <3>3. QED
        BY <3>1, <3>2
    <2>5. QED
      BY <1>2, <1>3, <2>1, <2>3, <2>4 DEF Mapped
  <1>8. QED
    BY <1>5, <1>6, <1>7

\* One more commit is made.
LEMMA NewKeeps ==
  ASSUME HistoryInv, at = "make", Len(new) < Len(order), Grown,
         NEW n \in Sha',
         objects'[n].tree = objects[order[Len(new) + 1]].tree,
         objects'[n].by = "app",
         objects'[n].parents = NewParents(order[Len(new) + 1]),
         new' = Append(new, n),
         UNCHANGED <<ref, at, tool, base, limit, head, path, order, outcome>>
  PROVE  HistoryInv'
  <1> DEFINE m == Len(new) + 1
             s == order[m]
  <1>1. TypeOK /\ Repository(objects) /\ Collected /\ Ready
    BY DEF HistoryInv, TypeOK
  <1>2. /\ Sha \subseteq Sha' /\ Len(objects) \in Nat /\ Len(objects') \in Nat
        /\ Len(new) \in Nat /\ Len(order) \in Nat
    BY <1>1 DEF Grown, Sha, Repository, TypeOK
  <1>3. \A x \in Sha : Parents(x)' = Parents(x)
    BY DEF Grown, Parents
  <1>4. /\ new' \in Seq(Sha') /\ Len(new') = m
        /\ \A i \in 1..Len(new) : new'[i] = new[i]
        /\ new'[m] = n
    <2>1. new \in Seq(Sha')
      BY <1>1, <1>2, SeqMonotonic DEF TypeOK
    <2>2. QED
      BY <2>1, AppendProperties
  <1>5. TypeOK'
    <2>1. order' \in Seq(Sha') /\ path' \in Seq(Sha')
      BY <1>1, <1>2, SeqMonotonic DEF TypeOK
    <2>2. Len(new') <= Len(order')
      BY <1>2, <1>4
    <2>3. QED
      BY <1>1, <1>2, <1>4, <2>1, <2>2 DEF TypeOK, Grown
  <1>6. \A i \in 1..Len(order) : order[i] \in Sha
    BY <1>1 DEF TypeOK
  <1>7. Collected'
    <2>1. CASE tool = "graph"
      BY <2>1, <1>1, <1>3, <1>6 DEF Collected
    <2>2. CASE tool # "graph"
      <3>1. order # <<>> => 1 \in 1..Len(order)
        BY <1>1, <1>2, EmptySeq DEF TypeOK
      <3>2. QED
        BY <2>2, <3>1, <1>1, <1>3, <1>6 DEF Collected
    <2>3. QED
      BY <2>1, <2>2
  <1>8. ASSUME NEW i \in 1..Len(new') PROVE MadeFrom(i)'
    <2>1. CASE i \in 1..Len(new)
      <3>1. MadeFrom(i) /\ order[i] \in Sha /\ new[i] \in Sha /\ new'[i] = new[i]
        BY <1>1, <1>2, <1>4, <1>6, <2>1 DEF HistoryInv, TypeOK
      <3>2. objects'[order[i]] = objects[order[i]] /\ objects'[new[i]] = objects[new[i]]
        BY <3>1 DEF Grown
      <3>3. \A k \in 1..(i - 1) : new'[k] = new[k]
        BY <1>2, <1>4, <2>1
      <3>4. QED
        BY <3>1, <3>2, <3>3, <1>3 DEF MadeFrom
    <2>2. CASE i = m
      <3>1. s \in Sha /\ Mapped(s, NewParents(s))
        BY <1>1, NewParentsFacts
      <3>2. objects'[s] = objects[s] /\ objects'[n].parents = NewParents(s)
        BY <3>1 DEF Grown
      <3>3. \A k \in 1..Len(new) : k \in 1..(i - 1) /\ new'[k] = new[k]
        BY <1>2, <1>4, <2>2
      <3>4. order'[i] = s /\ new'[i] = n
        BY <1>4, <2>2
      <3>5. /\ Len(objects'[n].parents) = Len(objects[s].parents)
            /\ \A j \in 1..Len(objects[s].parents) :
                  \/ /\ tool = "linear" /\ objects[s].parents[j] = base
                     /\ objects'[n].parents[j] = base
                  \/ \E k \in 1..Len(new) :
                        order[k] = objects[s].parents[j] /\ new[k] = objects'[n].parents[j]
        BY <3>1, <3>2 DEF Mapped, Parents
      <3>6. ASSUME NEW j \in 1..Len(objects[s].parents)
            PROVE  \/ /\ tool' = "linear" /\ objects[s].parents[j] = base'
                      /\ objects'[n].parents[j] = base'
                   \/ \E k \in 1..(i - 1) :
                         order'[k] = objects[s].parents[j] /\ new'[k] = objects'[n].parents[j]
        BY <3>3, <3>5
      <3>7. objects'[new'[i]] = objects'[n] /\ objects'[order'[i]] = objects[s]
        BY <3>2, <3>4
      <3>8. /\ objects'[new'[i]].tree = objects'[order'[i]].tree
            /\ objects'[new'[i]].by = "app"
        BY <3>7
      <3>9. /\ Len(objects'[new'[i]].parents) = Len(objects'[order'[i]].parents)
            /\ \A j \in 1..Len(objects'[order'[i]].parents) :
                  \/ /\ tool' = "linear" /\ objects'[order'[i]].parents[j] = base'
                     /\ objects'[new'[i]].parents[j] = base'
                  \/ \E k \in 1..(i - 1) :
                        /\ order'[k] = objects'[order'[i]].parents[j]
                        /\ new'[k] = objects'[new'[i]].parents[j]
        <4>1. Len(objects'[new'[i]].parents) = Len(objects'[order'[i]].parents)
          BY <3>5, <3>7
        <4>2. ASSUME NEW j \in 1..Len(objects'[order'[i]].parents)
              PROVE  \/ /\ tool' = "linear" /\ objects'[order'[i]].parents[j] = base'
                        /\ objects'[new'[i]].parents[j] = base'
                     \/ \E k \in 1..(i - 1) :
                           /\ order'[k] = objects'[order'[i]].parents[j]
                           /\ new'[k] = objects'[new'[i]].parents[j]
          <5>1. j \in 1..Len(objects[s].parents)
            BY <3>7
          <5>2. QED
            BY ONLY <5>1, <3>6, <3>7
        <4>3. QED
          BY <4>1, <4>2
      <3>10. QED
        BY <3>8, <3>9 DEF MadeFrom, Parents
    <2>3. QED
      BY <1>2, <1>4, <2>1, <2>2
  <1>9. Ready' /\ at' = "make"
    BY <1>1 DEF Ready, Last
  <1>10. QED
    BY <1>5, <1>7, <1>8, <1>9 DEF HistoryInv

LEMMA ReuseKeeps ==
  ASSUME HistoryInv, Reuse
  PROVE  HistoryInv'
  <1> DEFINE s == order[Len(new) + 1]
  <1>1. /\ at = "make" /\ Len(new) < Len(order) /\ Reusable(s) /\ new' = Append(new, s)
        /\ UNCHANGED <<objects, ref, at, tool, base, limit, head, path, order, outcome>>
    BY DEF Reuse
  <1>2. s \in Sha
    BY <1>1, NewParentsFacts
  <1>3. s \in Sha' /\ Grown
    BY <1>1, <1>2, SameIsGrown DEF Sha
  <1>4. /\ objects'[s].tree = objects[s].tree /\ objects'[s].by = "app"
        /\ objects'[s].parents = NewParents(s)
    BY <1>1 DEF Reusable, Parents
  <1>5. QED
    BY <1>1, <1>3, <1>4, NewKeeps

LEMMA RewrittenFacts ==
  ASSUME HistoryInv, at = "make", Len(new) < Len(order)
  PROVE  LET s == order[Len(new) + 1] c == Rewritten(s) IN
         /\ c \in Commit /\ c.tree = objects[s].tree /\ c.by = "app"
         /\ c.parents = NewParents(s)
         /\ \A j \in 1..Len(c.parents) : c.parents[j] \in Sha
  <1> DEFINE s == order[Len(new) + 1]
             c == Rewritten(s)
  <1>1. s \in Sha /\ Mapped(s, NewParents(s))
    BY NewParentsFacts
  <1>2. objects[s] \in Commit
    BY <1>1, ParentFacts DEF HistoryInv, TypeOK
  <1>3. c.parents = NewParents(s) /\ c.tree = objects[s].tree /\ c.by = "app"
    BY DEF Rewritten
  <1>4. c \in Commit
    <2>1. NewParents(s) \in Seq(Nat) /\ objects[s].tree \in Tree
      BY <1>1, <1>2 DEF Mapped, Commit
    <2>2. QED
      BY <2>1 DEF Rewritten, Commit
  <1>5. QED
    BY <1>1, <1>3, <1>4 DEF Mapped

LEMMA MakeKeeps ==
  ASSUME HistoryInv, Make
  PROVE  HistoryInv' /\ Grown
  <1> DEFINE s == order[Len(new) + 1]
             c == Rewritten(s)
  <1>1. /\ at = "make" /\ Len(new) < Len(order) /\ Put(c) /\ new' = Append(new, Named(c))
        /\ UNCHANGED <<ref, at, tool, base, limit, head, path, order, outcome>>
    BY DEF Make
  <1>2. /\ c \in Commit /\ c.tree = objects[s].tree /\ c.by = "app"
        /\ c.parents = NewParents(s)
        /\ \A j \in 1..Len(c.parents) : c.parents[j] \in Sha
    BY <1>1, RewrittenFacts
  <1>3. Repository(objects) /\ objects # <<>>
    BY DEF HistoryInv, TypeOK
  <1>4. Grown /\ Named(c) \in Sha' /\ objects'[Named(c)] = c
    BY <1>1, <1>2, <1>3, PutGrows
  <1>5. QED
    BY <1>1, <1>2, <1>4, NewKeeps

LEMMA MakeRefusedKeeps ==
  ASSUME HistoryInv, MakeRefused
  PROVE  HistoryInv' /\ Grown
  <1> DEFINE s == order[Len(new) + 1]
             c == Rewritten(s)
             d == [c EXCEPT !.parents = <<c.parents[1]>>]
  <1>1. /\ at = "make" /\ Len(new) < Len(order)
        /\ Put(d) /\ Stop("mismatch") /\ ref' = ref
        /\ \E j, k \in 1..Len(c.parents) : j < k
    BY DEF MakeRefused
  <1>2. /\ c \in Commit /\ \A j \in 1..Len(c.parents) : c.parents[j] \in Sha
    BY <1>1, RewrittenFacts
  <1>3. /\ TypeOK /\ Repository(objects) /\ objects # <<>> /\ Len(objects) \in Nat
    BY DEF HistoryInv, TypeOK, Repository
  <1>4. c.parents[1] \in Sha /\ c.parents[1] \in Nat
    <2>1. 1 \in 1..Len(c.parents)
      BY <1>1, <1>2 DEF Commit
    <2>2. QED
      BY <1>2, <1>3, <2>1 DEF Sha
  <1>5. d \in Commit /\ d.parents = <<c.parents[1]>>
    <2>1. /\ c = [parents |-> c.parents, tree |-> c.tree, by |-> c.by]
          /\ c.tree \in Tree /\ c.by \in {"app", "person"}
      BY <1>2 DEF Commit
    <2>2. d = [parents |-> <<c.parents[1]>>, tree |-> c.tree, by |-> c.by]
      BY <2>1
    <2>3. <<c.parents[1]>> \in Seq(Nat)
      BY <1>4
    <2>4. QED
      BY <2>1, <2>2, <2>3 DEF Commit
  <1>6. \A j \in 1..Len(d.parents) : d.parents[j] \in Sha
    BY <1>4, <1>5
  <1>7. Grown
    BY <1>1, <1>3, <1>5, <1>6, PutGrows
  <1>8. ref' \in Sha'
    BY <1>1, <1>3, <1>7 DEF TypeOK, Grown, Repository, Sha
  <1>9. QED
    BY <1>1, <1>7, <1>8, StopKeeps

LEMMA RecheckKeeps ==
  ASSUME HistoryInv, Recheck
  PROVE  HistoryInv'
  <1>1. TypeOK /\ Ready /\ Collected /\ UNCHANGED <<objects, ref>>
    BY DEF HistoryInv, Recheck
  <1>2. CASE Stop("raced")
    BY <1>1, <1>2, SameIsGrown, StopKeeps DEF TypeOK, Sha
  <1>3. CASE /\ at' = "update"
             /\ UNCHANGED <<tool, base, limit, head, path, order, new, outcome>>
    <2>1. Len(new) = Len(order)
      BY DEF Recheck, Made
    <2>2. TypeOK' /\ Ready' /\ Collected'
      BY <1>1, <1>3 DEF TypeOK, Sha, Ready, Last, Collected, Parents
    <2>3. \A i \in 1..Len(new) : MadeFrom(i)'
      BY <1>1, <1>3 DEF HistoryInv, MadeFrom, Parents
    <2>4. QED
      BY <1>3, <2>1, <2>2, <2>3 DEF HistoryInv
  <1>4. QED
    BY <1>2, <1>3 DEF Recheck

\* The branch is moved to a commit that is there.
LEMMA UpdateKeeps ==
  ASSUME HistoryInv, Update
  PROVE  HistoryInv'
  <1>1. /\ TypeOK /\ Ready /\ Len(new) = Len(order) /\ objects' = objects
        /\ ref' = Last(new) /\ Stop("result")
    BY DEF HistoryInv, Update, NewHead
  <1>2. Len(new) \in 1..Len(new)
    BY <1>1, EmptySeq DEF TypeOK, Ready
  <1>3. ref' \in Sha'
    BY <1>1, <1>2 DEF TypeOK, Last, Sha
  <1>4. QED
    BY <1>1, <1>3, SameIsGrown, StopKeeps

LEMMA PushKeeps ==
  ASSUME HistoryInv, NEW c \in Pushed, Push(c)
  PROVE  HistoryInv' /\ Grown
  <1>1. TypeOK /\ Repository(objects) /\ objects # <<>>
    BY DEF HistoryInv, TypeOK
  <1>2. c \in Commit
    <2>1. c.parents \in Seq(Nat)
      <3>1. ref \in Nat /\ \A s \in Sha : s \in Nat
        BY <1>1 DEF TypeOK, Sha
      <3>2. c.parents = <<ref>> \/ \E s \in Sha : c.parents = <<ref, s>>
        BY DEF Pushed
      <3>3. <<ref>> \in Seq(Nat) /\ \A s \in Sha : <<ref, s>> \in Seq(Nat)
        BY <3>1
      <3>4. QED
        BY <3>2, <3>3
    <2>2. QED
      BY <2>1 DEF Pushed, Commit
  <1>3. Grown /\ Len(objects') \in Sha'
    BY <1>1, <1>2, AppendGrows DEF Push
  <1>4. QED
    BY <1>3, GrownKeeps DEF Push

LEMMA HistoryInit == Init => HistoryInv
  <1> SUFFICES ASSUME Init PROVE HistoryInv
    OBVIOUS
  <1>1. Repository(objects) /\ objects # <<>> /\ Len(objects) \in Nat \ {0}
    BY HistoryAssumption, EmptySeq DEF Init, Repository
  <1>2. Len(<<>>) = 0 /\ <<>> \in Seq(Sha)
    BY EmptySeq
  <1>3. TypeOK
    BY <1>1, <1>2 DEF Init, TypeOK, Sha
  <1>4. QED
    BY <1>2, <1>3 DEF Init, HistoryInv, Collected

LEMMA HistoryStep == HistoryInv /\ [Next]_vars => HistoryInv'
  <1> SUFFICES ASSUME HistoryInv, [Next]_vars PROVE HistoryInv'
    OBVIOUS
  <1>1. ASSUME NEW b \in {0} \cup Sha, NEW n \in Limits,
               Begin("linear", b, n) \/ Begin("graph", b, n)
        PROVE  HistoryInv'
    BY <1>1, BeginKeeps
  <1>2. CASE Descend
    BY <1>2, DescendKeeps
  <1>3. CASE Leave
    BY <1>3, LeaveKeeps
  <1>4. CASE Follow
    BY <1>4, FollowKeeps
  <1>5. CASE ReachBase
    BY <1>5, ReachBaseKeeps
  <1>6. CASE WalkFails
    BY <1>6, WalkFailsKeeps
  <1>7. CASE Reuse
    BY <1>7, ReuseKeeps
  <1>8. CASE Make
    BY <1>8, MakeKeeps
  <1>9. CASE MakeRefused
    BY <1>9, MakeRefusedKeeps
  <1>10. CASE Report \/ Fail
    <2>1. UNCHANGED <<objects, ref>> /\ (Stop("result") \/ Stop("error"))
      BY <1>10 DEF Report, Fail
    <2>2. ref' \in Sha' /\ Grown
      BY <2>1, SameIsGrown DEF HistoryInv, TypeOK, Sha
    <2>3. QED
      BY <2>1, <2>2, StopKeeps
  <1>11. CASE Recheck
    BY <1>11, RecheckKeeps
  <1>12. CASE Update
    BY <1>12, UpdateKeeps
  <1>13. ASSUME NEW c \in Pushed, Push(c) PROVE HistoryInv'
    BY <1>13, PushKeeps
  <1>14. CASE UNCHANGED vars
    <2>1. UNCHANGED <<objects, ref, at, tool, base, limit, head, path, order,
    new, outcome>>
      BY <1>14 DEF vars
    <2>2. TypeOK' /\ Collected'
      <3>1. TypeOK /\ Collected
        BY DEF HistoryInv
      <3>2. TypeOK'
        BY <2>1, <3>1 DEF TypeOK, Sha
      <3>3. Collected'
        BY <2>1, <3>1 DEF Collected, Parents
      <3>4. QED
        BY <3>2, <3>3
    <2>3. \A i \in 1..Len(new) : MadeFrom(i)'
      BY <2>1 DEF HistoryInv, MadeFrom, Parents
    <2>4. QED
      BY <2>1, <2>2, <2>3 DEF HistoryInv, Descending, Following, Ready, Last
  <1>15. QED
    BY <1>1, <1>2, <1>3, <1>4, <1>5, <1>6, <1>7, <1>8, <1>9, <1>10, <1>11,
       <1>12,
       <1>13, <1>14 DEF Next

LEMMA HistorySafety == Spec => []HistoryInv
  <1>1. QED
    BY HistoryInit, HistoryStep, PTL DEF Spec

\* Objects, branch and what a call carries keep their types: commits stay in an
\* order in which parents come first, and no object is there twice.
THEOREM HistoryTypes == Spec => []TypeOK
  <1>1. HistoryInv => TypeOK
    BY DEF HistoryInv
  <1>2. QED
    BY <1>1, HistorySafety, PTL

\* Of any repository, with any limit, every commit a rewrite makes has the content
\* of one it has collected and, one for one, the parents as they have become; a
\* call that may move the branch has come to the head, within its limit.
THEOREM RewrittenCommitByCommit == Spec => []CommitByCommit
  <1>1. HistoryInv => CommitByCommit
    BY DEF HistoryInv, CommitByCommit, Finished, Ready
  <1>2. QED
    BY <1>1, HistorySafety, PTL

-----------------------------------------------------------------------------
(* What a whole history is after a rewrite, by induction on the age of its *)
(* commits.                                                                *)

\* Induction over a set rather than a predicate, for the provers cannot
\* instantiate one.
LEMMA LeastOf ==
  ASSUME NEW T \in SUBSET Nat, T # {}
  PROVE  \E m \in T : \A k \in T : m <= k
  <1> DEFINE R == OpToRel(<, Nat)
  <1>1. IsWellFoundedOn(R, Nat)
    BY NatLessThanWellFounded
  <1>2. ASSUME NEW k \in Nat, NEW m \in Nat, <<k, m>> \notin R
        PROVE  m <= k
    <2>1. ~(k < m)
      BY <1>2 DEF OpToRel
    <2> HIDE DEF R
    <2>2. QED
      BY <2>1
  <1> HIDE DEF R
  <1>3. PICK m \in T : \A k \in T : ~ (<<k, m>> \in R)
    BY <1>1, WFMin
  <1>4. ASSUME NEW k \in T PROVE m <= k
    <2>1. k \in Nat /\ m \in Nat /\ <<k, m>> \notin R
      BY <1>3
    <2>2. QED
      BY <2>1, <1>2
  <1>5. QED
    BY <1>4

LEMMA Upward ==
  ASSUME NEW n \in Nat, NEW S, \A m \in 1..n : 1..(m - 1) \subseteq S => m \in S
  PROVE  \A m \in 1..n : m \in S
  <1> DEFINE T == (1..n) \ S
  <1>1. SUFFICES ASSUME T # {} PROVE FALSE
    OBVIOUS
  <1>2. PICK m \in T : \A k \in T : m <= k
    <2>1. T \in SUBSET Nat
      OBVIOUS
    <2> HIDE DEF T
    <2>2. QED
      BY <1>1, <2>1, LeastOf
  <1>3. m \in 1..n /\ m \notin S
    OBVIOUS
  <1>4. 1..(m - 1) \subseteq S
    BY <1>2, <1>3
  <1>5. QED
    BY <1>3, <1>4

LEMMA Downward ==
  ASSUME NEW n \in Nat, NEW S, \A m \in 1..n : (m + 1)..n \subseteq S => m \in S
  PROVE  \A m \in 1..n : m \in S
  <1> DEFINE T == {k \in 1..n : n + 1 - k \in S}
  <1>1. ASSUME NEW k \in 1..n, 1..(k - 1) \subseteq T PROVE k \in T
    <2>1. n + 1 - k \in 1..n
      OBVIOUS
    <2>2. ASSUME NEW i \in (n + 1 - k + 1)..n PROVE i \in S
      <3>1. n + 1 - i \in 1..(k - 1) /\ n + 1 - (n + 1 - i) = i
        OBVIOUS
      <3>2. QED
        BY <1>1, <3>1
    <2>3. QED
      BY <2>1, <2>2
  <1>2. \A k \in 1..n : k \in T
    <2> HIDE DEF T
    <2>1. QED
      BY <1>1, Upward
  <1>3. ASSUME NEW m \in 1..n PROVE m \in S
    <2>1. n + 1 - m \in 1..n /\ n + 1 - (n + 1 - m) = m
      OBVIOUS
    <2>2. QED
      BY <2>1, <1>2
  <1>4. QED
    BY <1>3

\* The bodies of the two recursive functions.
HistoryOf(g, s) == {s} \cup UNION {g[Parents(s)[j]] : j \in 1..Len(Parents(s))}

BareOf(g, s) == [tree |-> objects[s].tree,
                 parents |-> [j \in 1..Len(Parents(s)) |-> g[Parents(s)[j]]]]

\* They exist for the first n commits, since parents come first.
HistoryExists(n) == \E g : g = [s \in 1..n |-> HistoryOf(g, s)]

BareExists(n) == \E g : g = [s \in 1..n |-> BareOf(g, s)]

LEMMA HistoryFrom ==
  ASSUME Repository(objects), NEW m \in Sha, HistoryExists(m - 1)
  PROVE  HistoryExists(m)
  <1>1. Len(objects) \in Nat /\ m \in Nat \ {0}
    BY DEF Repository, Sha
  <1>2. PICK g : g = [s \in 1..(m - 1) |-> HistoryOf(g, s)]
    BY DEF HistoryExists
  <1> DEFINE h == [s \in 1..m |-> HistoryOf(g, s)]
  <1>3. \A s \in 1..(m - 1) : h[s] = g[s]
    <2>1. \A s \in 1..(m - 1) : s \in 1..m /\ g[s] = HistoryOf(g, s)
      BY <1>1, <1>2
    <2>2. QED
      BY <2>1
  <1>4. h = [s \in 1..m |-> HistoryOf(g, s)]
    OBVIOUS
  <1> HIDE DEF h
  <1>5. ASSUME NEW s \in 1..m PROVE HistoryOf(h, s) = HistoryOf(g, s)
    <2>1. \A j \in 1..Len(Parents(s)) : Parents(s)[j] \in 1..(m - 1)
      BY <1>1, ParentFacts DEF Sha
    <2>2. \A j \in 1..Len(Parents(s)) : h[Parents(s)[j]] = g[Parents(s)[j]]
      BY <2>1, <1>3
    <2>3. QED
      BY <2>2 DEF HistoryOf
  <1>6. h = [s \in 1..m |-> HistoryOf(h, s)]
    BY <1>4, <1>5
  <1>7. QED
    BY <1>6 DEF HistoryExists

LEMMA BareFrom ==
  ASSUME Repository(objects), NEW m \in Sha, BareExists(m - 1)
  PROVE  BareExists(m)
  <1>1. Len(objects) \in Nat /\ m \in Nat \ {0}
    BY DEF Repository, Sha
  <1>2. PICK g : g = [s \in 1..(m - 1) |-> BareOf(g, s)]
    BY DEF BareExists
  <1> DEFINE h == [s \in 1..m |-> BareOf(g, s)]
  <1>3. \A s \in 1..(m - 1) : h[s] = g[s]
    <2>1. \A s \in 1..(m - 1) : s \in 1..m /\ g[s] = BareOf(g, s)
      BY <1>1, <1>2
    <2>2. QED
      BY <2>1
  <1>4. h = [s \in 1..m |-> BareOf(g, s)]
    OBVIOUS
  <1> HIDE DEF h
  <1>5. ASSUME NEW s \in 1..m PROVE BareOf(h, s) = BareOf(g, s)
    <2>1. \A j \in 1..Len(Parents(s)) : Parents(s)[j] \in 1..(m - 1)
      BY <1>1, ParentFacts DEF Sha
    <2>2. \A j \in 1..Len(Parents(s)) : h[Parents(s)[j]] = g[Parents(s)[j]]
      BY <2>1, <1>3
    <2>3. QED
      BY <2>2 DEF BareOf
  <1>6. h = [s \in 1..m |-> BareOf(h, s)]
    BY <1>4, <1>5
  <1>7. QED
    BY <1>6 DEF BareExists

\* So the definitions define what they say.
LEMMA HistoryEquation ==
  Repository(objects) => History = [s \in Sha |-> HistoryOf(History, s)]
  <1> SUFFICES ASSUME Repository(objects)
               PROVE  History = [s \in Sha |-> HistoryOf(History, s)]
    OBVIOUS
  <1> DEFINE S == {m \in Sha : HistoryExists(m)}
  <1>1. HistoryExists(0)
    <2> DEFINE e == [s \in {} |-> {}]
    <2>1. e = [s \in 1..0 |-> HistoryOf(e, s)]
      OBVIOUS
    <2> HIDE DEF e
    <2>2. QED
      BY <2>1 DEF HistoryExists
  <1>2. Len(objects) \in Nat
    BY DEF Repository
  <1>3. ASSUME NEW m \in 1..Len(objects), 1..(m - 1) \subseteq S PROVE m \in S
    <2>1. m - 1 = 0 \/ m - 1 \in 1..(m - 1)
      BY <1>2
    <2>2. HistoryExists(m - 1)
      BY <2>1, <1>1, <1>3
    <2>3. QED
      BY <2>2, HistoryFrom DEF Sha
  <1>4. \A m \in 1..Len(objects) : m \in S
    <2> HIDE DEF S
    <2>1. QED
      BY <1>2, <1>3, Upward
  <1>5. HistoryExists(Len(objects))
    BY <1>1, <1>2, <1>4
  <1>6. QED
    BY <1>5 DEF HistoryExists, History, HistoryOf, Sha

LEMMA BareEquation ==
  Repository(objects) => Bare = [s \in Sha |-> BareOf(Bare, s)]
  <1> SUFFICES ASSUME Repository(objects)
               PROVE  Bare = [s \in Sha |-> BareOf(Bare, s)]
    OBVIOUS
  <1> DEFINE S == {m \in Sha : BareExists(m)}
  <1>1. BareExists(0)
    <2> DEFINE e == [s \in {} |-> {}]
    <2>1. e = [s \in 1..0 |-> BareOf(e, s)]
      OBVIOUS
    <2> HIDE DEF e
    <2>2. QED
      BY <2>1 DEF BareExists
  <1>2. Len(objects) \in Nat
    BY DEF Repository
  <1>3. ASSUME NEW m \in 1..Len(objects), 1..(m - 1) \subseteq S PROVE m \in S
    <2>1. m - 1 = 0 \/ m - 1 \in 1..(m - 1)
      BY <1>2
    <2>2. BareExists(m - 1)
      BY <2>1, <1>1, <1>3
    <2>3. QED
      BY <2>2, BareFrom DEF Sha
  <1>4. \A m \in 1..Len(objects) : m \in S
    <2> HIDE DEF S
    <2>1. QED
      BY <1>2, <1>3, Upward
  <1>5. BareExists(Len(objects))
    BY <1>1, <1>2, <1>4
  <1>6. QED
    BY <1>5 DEF BareExists, Bare, BareOf, Sha

LEMMA OneHistory ==
  ASSUME Repository(objects), NEW s \in Sha
  PROVE  /\ History[s] = {s} \cup UNION {History[Parents(s)[j]] : j \in 1..Len(Parents(s))}
         /\ s \in History[s]
         /\ \A j \in 1..Len(Parents(s)) : History[Parents(s)[j]] \subseteq History[s]
         /\ \A t \in History[s] : t # s =>
               \E j \in 1..Len(Parents(s)) : t \in History[Parents(s)[j]]
  <1>1. History[s] = HistoryOf(History, s)
    BY HistoryEquation
  <1>2. QED
    BY <1>1 DEF HistoryOf

LEMMA OneBare ==
  ASSUME Repository(objects), NEW s \in Sha
  PROVE  Bare[s] = [tree |-> objects[s].tree,
                    parents |-> [j \in 1..Len(Parents(s)) |-> Bare[Parents(s)[j]]]]
  <1>1. Bare[s] = BareOf(Bare, s)
    BY BareEquation
  <1>2. QED
    BY <1>1 DEF BareOf

\* A commit grew from older ones,
LEMMA HistoryBelow ==
  ASSUME Repository(objects)
  PROVE  \A s \in Sha : History[s] \subseteq 1..s
  <1> DEFINE S == {s \in Sha : History[s] \subseteq 1..s}
  <1>1. Len(objects) \in Nat
    BY DEF Repository
  <1>2. ASSUME NEW s \in 1..Len(objects), 1..(s - 1) \subseteq S PROVE s \in S
    <2>1. s \in Sha
      BY DEF Sha
    <2>2. ASSUME NEW t \in History[s], t # s PROVE t \in 1..s
      <3>1. PICK j \in 1..Len(Parents(s)) : t \in History[Parents(s)[j]]
        BY <2>1, <2>2, OneHistory
      <3>2. Parents(s)[j] \in 1..(s - 1)
        BY <2>1, ParentFacts
      <3>3. t \in 1..Parents(s)[j]
        BY <1>2, <3>1, <3>2
      <3>4. QED
        BY <1>1, <3>2, <3>3
    <2>3. s \in 1..s
      BY <1>1
    <2>4. QED
      BY <2>1, <2>2, <2>3
  <1>3. \A s \in 1..Len(objects) : s \in S
    <2> HIDE DEF S
    <2>1. QED
      BY <1>1, <1>2, Upward
  <1>4. QED
    BY <1>3 DEF Sha

\* and from all that these grew from.
LEMMA HistoryClosed ==
  ASSUME Repository(objects)
  PROVE  \A s \in Sha : \A t \in History[s] : t \in Sha /\ History[t] \subseteq History[s]
  <1> DEFINE S == {s \in Sha : \A t \in History[s] : History[t] \subseteq History[s]}
  <1>1. Len(objects) \in Nat
    BY DEF Repository
  <1>2. ASSUME NEW s \in 1..Len(objects), 1..(s - 1) \subseteq S PROVE s \in S
    <2>1. s \in Sha
      BY DEF Sha
    <2>2. ASSUME NEW t \in History[s], t # s PROVE History[t] \subseteq History[s]
      <3>1. PICK j \in 1..Len(Parents(s)) : t \in History[Parents(s)[j]]
        BY <2>1, <2>2, OneHistory
      <3>2. Parents(s)[j] \in S
        BY <1>2, <2>1, ParentFacts
      <3>3. History[t] \subseteq History[Parents(s)[j]]
        BY <3>1, <3>2
      <3>4. QED
        BY <2>1, <3>3, OneHistory
    <2>3. QED
      BY <2>1, <2>2
  <1>3. \A s \in 1..Len(objects) : s \in S
    <2> HIDE DEF S
    <2>1. QED
      BY <1>1, <1>2, Upward
  <1>4. ASSUME NEW s \in Sha, NEW t \in History[s] PROVE t \in Sha
    BY <1>1, HistoryBelow DEF Sha
  <1>5. QED
    BY <1>3, <1>4 DEF Sha

\* Of what has been made, each commit has the history of the one it was made
\* from, identities apart.
LEMMA MadeBare ==
  ASSUME HistoryInv
  PROVE  \A i \in 1..Len(new) : Bare[new[i]] = Bare[order[i]]
  <1>1. TypeOK /\ Repository(objects) /\ Len(new) \in Nat
    BY DEF HistoryInv, TypeOK
  <1> DEFINE S == {i \in 1..Len(new) : Bare[new[i]] = Bare[order[i]]}
  <1>2. ASSUME NEW i \in 1..Len(new), 1..(i - 1) \subseteq S PROVE i \in S
    <2>1. /\ MadeFrom(i) /\ new[i] \in Sha /\ order[i] \in Sha
      BY <1>1 DEF HistoryInv, TypeOK
    <2>2. Len(Parents(new[i])) = Len(Parents(order[i]))
          /\ objects[new[i]].tree = objects[order[i]].tree
      BY <2>1 DEF MadeFrom
    <2>3. ASSUME NEW j \in 1..Len(Parents(order[i]))
          PROVE  Bare[Parents(new[i])[j]] = Bare[Parents(order[i])[j]]
      BY <1>2, <2>1 DEF MadeFrom
    <2>4. [j \in 1..Len(Parents(new[i])) |-> Bare[Parents(new[i])[j]]]
          = [j \in 1..Len(Parents(order[i])) |-> Bare[Parents(order[i])[j]]]
      BY <2>2, <2>3
    <2>5. Bare[new[i]] = Bare[order[i]]
      <3>1. Bare[new[i]] = [tree |-> objects[new[i]].tree,
               parents |-> [j \in 1..Len(Parents(new[i])) |-> Bare[Parents(new[i])[j]]]]
        BY <1>1, <2>1, OneBare
      <3>2. Bare[order[i]] = [tree |-> objects[order[i]].tree,
               parents |-> [j \in 1..Len(Parents(order[i])) |-> Bare[Parents(order[i])[j]]]]
        BY <1>1, <2>1, OneBare
      <3>3. QED
        BY <2>2, <2>4, <3>1, <3>2
    <2>6. QED
      BY <2>5
  <1>3. \A i \in 1..Len(new) : i \in S
    <2> HIDE DEF S
    <2>1. QED
      BY <1>1, <1>2, Upward
  <1>4. QED
    BY <1>3

\* What the base stands on.
Kept == IF base = 0 THEN {} ELSE History[base]

\* What a made commit grew from is made too, down to a base.
LEMMA MadeHistory ==
  ASSUME HistoryInv, Ready
  PROVE  \A i \in 1..Len(new) :
            /\ \A t \in History[new[i]] \ Kept : \E k \in 1..Len(new) : t = new[k]
            /\ tool = "linear" /\ base # 0 => base \in History[new[i]]
  <1>1. TypeOK /\ Repository(objects) /\ Len(new) \in Nat /\ Collected
    BY DEF HistoryInv, TypeOK
  <1> DEFINE S == {i \in 1..Len(new) :
            /\ \A t \in History[new[i]] \ Kept : \E k \in 1..Len(new) : t = new[k]
            /\ tool = "linear" /\ base # 0 => base \in History[new[i]]}
  <1>2. ASSUME NEW i \in 1..Len(new), 1..(i - 1) \subseteq S PROVE i \in S
    <2>1. /\ MadeFrom(i) /\ new[i] \in Sha /\ order[i] \in Sha
      BY <1>1 DEF HistoryInv, TypeOK
    <2>2. Len(Parents(new[i])) = Len(Parents(order[i]))
      BY <2>1 DEF MadeFrom
    <2>3. base = 0 \/ base \in Sha
      BY <1>1 DEF TypeOK
    <2>4. ASSUME NEW j \in 1..Len(Parents(order[i])), base = 0 PROVE Parents(order[i])[j] # base
      BY <1>1, <2>1, <2>4, ParentFacts DEF Sha
    <2>5. ASSUME NEW t \in History[new[i]] \ Kept PROVE \E k \in 1..Len(new) : t = new[k]
      <3>1. CASE t = new[i]
        BY <3>1
      <3>2. CASE t # new[i]
        <4>1. PICK j \in 1..Len(Parents(new[i])) : t \in History[Parents(new[i])[j]]
          BY <1>1, <2>1, <2>5, <3>2, OneHistory
        <4>2. CASE tool = "linear" /\ Parents(order[i])[j] = base /\ Parents(new[i])[j] = base
          <5>1. base # 0
            BY <2>2, <2>4, <4>2
          <5>2. QED
            BY <2>5, <4>1, <4>2, <5>1 DEF Kept
        <4>3. CASE \E k \in 1..(i - 1) :
                      order[k] = Parents(order[i])[j] /\ new[k] = Parents(new[i])[j]
          BY <1>2, <2>5, <4>1, <4>3
        <4>4. QED
          BY <2>1, <2>2, <4>2, <4>3 DEF MadeFrom
      <3>3. QED
        BY <3>1, <3>2
    <2>6. ASSUME tool = "linear", base # 0 PROVE base \in History[new[i]]
      <3>1. PICK p : Parents(order[i]) = <<p>>
        <4>1. CASE i = 1
          <5>1. order # <<>> /\ path = <<base>>
            BY <2>6 DEF Ready
          <5>2. QED
            BY <1>1, <2>6, <4>1, <5>1 DEF Collected
        <4>2. CASE i # 1
          <5>1. i \in 2..Len(order)
            BY <1>1, <4>2 DEF TypeOK
          <5>2. QED
            BY <1>1, <2>6, <5>1 DEF Collected
        <4>3. QED
          BY <4>1, <4>2
      <3>2. 1 \in 1..Len(Parents(order[i])) /\ 1 \in 1..Len(Parents(new[i]))
        BY <2>2, <3>1
      <3>3. History[Parents(new[i])[1]] \subseteq History[new[i]]
        BY <1>1, <2>1, <3>2, OneHistory
      <3>4. base \in History[base]
        BY <1>1, <2>3, <2>6, OneHistory
      <3>5. base \in History[Parents(new[i])[1]]
        BY <1>2, <2>1, <2>6, <3>2, <3>4 DEF MadeFrom
      <3>6. QED
        BY <3>3, <3>5
    <2>7. QED
      BY <2>5, <2>6
  <1>3. \A i \in 1..Len(new) : i \in S
    <2> HIDE DEF S
    <2>1. QED
      BY <1>1, <1>2, Upward
  <1>4. QED
    BY <1>3

\* The history of a commit stays when others are added.
LEMMA NextHistoryEquation ==
  Repository(objects)' => (History = [s \in Sha |-> HistoryOf(History, s)])'
  BY HistoryEquation, PTL

LEMMA HistoryStays ==
  ASSUME Repository(objects), Grown
  PROVE  \A s \in Sha : History'[s] = History[s]
  <1> DEFINE S == {s \in Sha : History'[s] = History[s]}
  <1>1. Len(objects) \in Nat /\ Len(objects') \in Nat /\ Repository(objects')
    BY DEF Repository, Grown
  <1>2. Sha \subseteq Sha'
    BY <1>1 DEF Sha, Grown
  <1>3. History' = [s \in Sha' |-> HistoryOf(History, s)']
    BY <1>1, NextHistoryEquation
  <1>4. ASSUME NEW s \in 1..Len(objects), 1..(s - 1) \subseteq S PROVE s \in S
    <2>1. s \in Sha /\ s \in Sha'
      BY <1>2 DEF Sha
    <2>2. Parents(s)' = Parents(s)
      BY <2>1 DEF Grown, Parents
    <2>3. \A j \in 1..Len(Parents(s)) : History'[Parents(s)[j]] = History[Parents(s)[j]]
      <3>1. \A j \in 1..Len(Parents(s)) : Parents(s)[j] \in 1..(s - 1)
        BY <1>1, <2>1, ParentFacts
      <3>2. QED
        BY <1>4, <3>1
    <2>4. History'[s] = HistoryOf(History, s)'
      BY <1>3, <2>1
    <2>5. HistoryOf(History, s)' = HistoryOf(History, s)
      BY <2>2, <2>3 DEF HistoryOf
    <2>6. History[s] = HistoryOf(History, s)
      BY <2>1, HistoryEquation
    <2>7. QED
      BY <2>1, <2>4, <2>5, <2>6
  <1>5. \A s \in 1..Len(objects) : s \in S
    <2> HIDE DEF S
    <2>1. QED
      BY <1>1, <1>4, Upward
  <1>6. QED
    BY <1>5 DEF Sha

\* p is a parent of s.
ParentOf(p, s) == \E j \in 1..Len(Parents(s)) : Parents(s)[j] = p

\* What has been collected of a graph was asked for by what is collected later,
\* or is being visited.
Wanted(i) ==
    \/ order[i] = head
    \/ \E k \in (i + 1)..Len(order) : ParentOf(order[i], order[k])
    \/ \E k \in 1..Len(path) : ParentOf(order[i], path[k])

\* There is more to rewrite than the call allows.
TooMany == Cardinality(ToRewrite(head)) > limit - (IF base \in History[head] THEN 1 ELSE 0)

\* Nothing is collected without need, and what was refused was too much.
Needed ==
    /\ tool = "graph" => base = 0
    /\ at = "make" /\ tool = "graph" => path = <<>>
    /\ at # "idle" => outcome = "none"
    /\ at = "walk" /\ tool = "graph" => \A i \in 2..Len(path) : ParentOf(path[i], path[i - 1])
    /\ tool = "graph" => \A i \in 1..Len(order) : Wanted(i)
    /\ tool = "linear" => \A i \in 1..Len(order) : order[i] # base
    /\ outcome = "limit" => TooMany

\* What others push, or the call makes, leaves all of it true.
LEMMA TooManyStays ==
  ASSUME HistoryInv, Grown, UNCHANGED <<base, limit, head>>, TooMany
  PROVE  TooMany'
  <1>1. Repository(objects) /\ head \in Sha /\ base \in {0} \cup Sha
    BY DEF HistoryInv, TypeOK
  <1>2. \A s \in Sha : History'[s] = History[s]
    BY <1>1, HistoryStays
  <1>3. History'[head'] = History[head]
    BY <1>1, <1>2
  <1>4. base \in History[head] => History'[base'] = History[base]
    BY <1>1, <1>2, HistoryClosed
  <1>5. ToRewrite(head)' = ToRewrite(head)
    BY <1>3, <1>4 DEF ToRewrite
  <1>6. QED
    BY <1>3, <1>5 DEF TooMany

LEMMA GrownNeeded ==
  ASSUME HistoryInv, Needed, Grown,
         UNCHANGED <<tool, base, limit, head, path, order, outcome>>,
         at' \in {at, "update"}, at' # "idle" => at # "idle"
  PROVE  Needed'
  <1>1. /\ path \in Seq(Sha) /\ order \in Seq(Sha) /\ Len(path) \in Nat /\ Len(order) \in Nat
    BY DEF HistoryInv, TypeOK
  <1>2. \A s \in Sha : Parents(s)' = Parents(s)
    BY DEF Grown, Parents
  <1>3. \A s \in Sha : \A p : ParentOf(p, s)' <=> ParentOf(p, s)
    BY <1>2 DEF ParentOf
  <1>4. outcome' = "limit" => TooMany'
    BY TooManyStays DEF Needed
  <1>5. ASSUME at = "walk", tool = "graph", NEW i \in 2..Len(path)
        PROVE  ParentOf(path[i], path[i - 1])'
    <2>1. i - 1 \in 1..Len(path) /\ path[i - 1] \in Sha
      BY <1>1
    <2>2. ParentOf(path[i], path[i - 1])
      BY <1>5 DEF Needed
    <2>3. Parents(path[i - 1])' = Parents(path[i - 1])
      BY <2>1 DEF Grown, Parents
    <2>4. QED
      BY <2>2, <2>3 DEF ParentOf
  <1>6. ASSUME tool = "graph", NEW i \in 1..Len(order) PROVE Wanted(i)'
    <2>1. Wanted(i)
      BY <1>6 DEF Needed
    <2>2. ASSUME NEW k \in (i + 1)..Len(order), ParentOf(order[i], order[k])
          PROVE  ParentOf(order[i], order[k])'
      <3>1. order[k] \in Sha
        BY <1>1
      <3>2. Parents(order[k])' = Parents(order[k])
        BY <3>1 DEF Grown, Parents
      <3>3. QED
        BY <2>2, <3>2 DEF ParentOf
    <2>3. ASSUME NEW k \in 1..Len(path), ParentOf(order[i], path[k])
          PROVE  ParentOf(order[i], path[k])'
      <3>1. path[k] \in Sha
        BY <1>1
      <3>2. Parents(path[k])' = Parents(path[k])
        BY <3>1 DEF Grown, Parents
      <3>3. QED
        BY <2>3, <3>2 DEF ParentOf
    <2>4. QED
      BY <2>1, <2>2, <2>3 DEF Wanted
  <1>7. QED
    BY <1>4, <1>5, <1>6 DEF Needed

\* A call that stops has forgotten its walk.
LEMMA StopNeeded ==
  ASSUME HistoryInv, Needed, Grown, NEW why, Stop(why), why = "limit" => TooMany
  PROVE  Needed'
  <1>1. Len(<<>>) = 0 /\ order' = <<>> /\ path' = <<>>
    BY EmptySeq DEF Stop
  <1>2. outcome' = "limit" => TooMany'
    BY TooManyStays DEF Stop
  <1>3. QED
    BY <1>1, <1>2 DEF Needed, Stop

\* n different values make a set of n.
LEMMA CountDistinct ==
  ASSUME NEW n \in Nat, NEW f, \A i, k \in 1..n : f[i] = f[k] => i = k,
         NEW T, \A i \in 1..n : f[i] \in T, \A t \in T : \E i \in 1..n : t = f[i]
  PROVE  IsFiniteSet(T) /\ Cardinality(T) = n
  <1> DEFINE g == [i \in 1..n |-> f[i]]
  <1>1. g \in Bijection(1..n, T)
    <2>1. g \in [1..n -> T]
      OBVIOUS
    <2>2. \A i, k \in 1..n : g[i] = g[k] => i = k
      OBVIOUS
    <2>3. \A t \in T : \E i \in 1..n : g[i] = t
      OBVIOUS
    <2> HIDE DEF g
    <2>4. QED
      BY <2>1, <2>2, <2>3 DEF Bijection, Injection, IsInjective, Surjection
  <1>2. ExistsBijection(1..n, T)
    BY <1>1 DEF ExistsBijection
  <1>3. IsFiniteSet(1..n) /\ Cardinality(1..n) = n
    BY FS_Interval
  <1>4. QED
    BY <1>2, <1>3, FS_Bijection

\* What the walk of a graph has found is part of the head's history: what is
\* being visited,
LEMMA VisitedInHistory ==
  ASSUME HistoryInv, Needed, at = "walk", tool = "graph"
  PROVE  \A i \in 1..Len(path) : path[i] \in History[head]
  <1>1. /\ Repository(objects) /\ head \in Sha /\ path \in Seq(Sha) /\ Len(path) \in Nat
        /\ path[1] = head
    BY DEF HistoryInv, TypeOK, Descending
  <1> DEFINE S == {i \in 1..Len(path) : path[i] \in History[head]}
  <1>2. ASSUME NEW i \in 1..Len(path), 1..(i - 1) \subseteq S PROVE i \in S
    <2>1. CASE i = 1
      BY <1>1, <2>1, OneHistory
    <2>2. CASE i # 1
      <3>1. i \in 2..Len(path) /\ i - 1 \in 1..(i - 1) /\ path[i - 1] \in Sha
        BY <1>1, <2>2
      <3>2. PICK j \in 1..Len(Parents(path[i - 1])) : Parents(path[i - 1])[j] = path[i]
        BY <3>1 DEF Needed, ParentOf
      <3>3. path[i - 1] \in History[head]
        BY <1>2, <3>1
      <3>4. path[i] \in Sha
        BY <1>1
      <3>5. path[i] \in History[path[i - 1]]
        BY <1>1, <3>1, <3>2, <3>4, OneHistory
      <3>6. QED
        BY <1>1, <3>3, <3>5, HistoryClosed
    <2>3. QED
      BY <2>1, <2>2
  <1>3. \A i \in 1..Len(path) : i \in S
    <2> HIDE DEF S
    <2>1. QED
      BY <1>1, <1>2, Upward
  <1>4. QED
    BY <1>3

\* and what is collected.
LEMMA CollectedInHistory ==
  ASSUME HistoryInv, Needed, tool = "graph",
         at = "walk" \/ path = <<>>
  PROVE  \A i \in 1..Len(order) : order[i] \in History[head]
  <1>1. /\ Repository(objects) /\ head \in Sha /\ order \in Seq(Sha) /\ Len(order) \in Nat
        /\ path \in Seq(Sha)
    BY DEF HistoryInv, TypeOK
  <1> DEFINE S == {i \in 1..Len(order) : order[i] \in History[head]}
  <1>2. ASSUME NEW s \in Sha, s \in History[head], NEW p, ParentOf(p, s)
        PROVE  p \in History[head]
    <2>1. PICK j \in 1..Len(Parents(s)) : Parents(s)[j] = p
      BY <1>2 DEF ParentOf
    <2>2. p \in Sha
      BY <1>1, <2>1, ParentFacts
    <2>3. p \in History[s]
      BY <1>1, <2>1, <2>2, OneHistory
    <2>4. QED
      BY <1>1, <1>2, <2>3, HistoryClosed
  <1>3. ASSUME NEW i \in 1..Len(order), (i + 1)..Len(order) \subseteq S PROVE i \in S
    <2>1. Wanted(i)
      BY DEF Needed
    <2>2. CASE order[i] = head
      BY <1>1, <2>2, OneHistory
    <2>3. ASSUME NEW k \in (i + 1)..Len(order), ParentOf(order[i], order[k])
          PROVE  i \in S
      <3>1. order[k] \in Sha /\ order[k] \in History[head]
        BY <1>1, <1>3
      <3>2. QED
        BY <1>2, <2>3, <3>1
    <2>4. ASSUME NEW k \in 1..Len(path), ParentOf(order[i], path[k])
          PROVE  i \in S
      <3>1. path # <<>>
        BY <2>4, EmptySeq
      <3>2. path[k] \in Sha /\ path[k] \in History[head]
        BY <1>1, <3>1, VisitedInHistory
      <3>3. QED
        BY <1>2, <2>4, <3>2
    <2>5. QED
      BY <2>1, <2>2, <2>3, <2>4 DEF Wanted
  <1>4. \A i \in 1..Len(order) : i \in S
    <2> HIDE DEF S
    <2>1. QED
      BY <1>1, <1>3, Downward
  <1>5. QED
    BY <1>4

\* What a linear range grew from is the range and what its first commit grew from.
LEMMA LinearHistory ==
  ASSUME HistoryInv, tool = "linear"
  PROVE  \A i \in 1..Len(order) :
            /\ \A k \in 1..i : order[k] \in History[order[i]]
            /\ path # <<>> => History[path[1]] \subseteq History[order[i]]
            /\ \A t \in History[order[i]] :
                  \/ \E k \in 1..i : t = order[k]
                  \/ path # <<>> /\ t \in History[path[1]]
  <1>1. /\ Repository(objects) /\ order \in Seq(Sha) /\ Len(order) \in Nat /\ path \in Seq(Sha)
        /\ Collected
    BY DEF HistoryInv, TypeOK
  <1> DEFINE S == {i \in 1..Len(order) :
            /\ \A k \in 1..i : order[k] \in History[order[i]]
            /\ path # <<>> => History[path[1]] \subseteq History[order[i]]
            /\ \A t \in History[order[i]] :
                  \/ \E k \in 1..i : t = order[k]
                  \/ path # <<>> /\ t \in History[path[1]]}
  <1>2. ASSUME NEW i \in 1..Len(order), 1..(i - 1) \subseteq S PROVE i \in S
    <2>1. order[i] \in Sha
      BY <1>1
    <2>2. order[i] \in History[order[i]]
      BY <1>1, <2>1, OneHistory
    <2>3. CASE i = 1
      <3>1. Parents(order[1]) = path /\ Len(path) \in Nat
        BY <1>1, <2>3, EmptySeq DEF Collected
      <3>2. \A j \in 1..Len(path) : j = 1
        <4>1. at \in {"walk", "make", "update"}
          BY <1>1, EmptySeq DEF HistoryInv, TypeOK
        <4>2. path = <<>> \/ path = <<base>> \/ Len(path) = 1
          BY <4>1 DEF HistoryInv, Following, Ready
        <4>3. Len(path) \in 0..1
          BY <4>2
        <4>4. \A n \in 0..1 : \A j \in 1..n : j = 1
          OBVIOUS
        <4>5. QED
          BY <4>3, <4>4
      <3>3. path # <<>> => 1 \in 1..Len(path)
        BY <1>1, <3>1
      <3>4. QED
        BY <1>1, <2>1, <2>2, <2>3, <3>1, <3>2, <3>3, OneHistory
    <2>4. CASE i # 1
      <3>1. i \in 2..Len(order) /\ i - 1 \in 1..(i - 1) /\ i - 1 \in 1..Len(order)
        BY <1>1, <2>4
      <3>2. Parents(order[i]) = <<order[i - 1]>>
        BY <1>1, <3>1 DEF Collected
      <3>3. Len(Parents(order[i])) = 1 /\ Parents(order[i])[1] = order[i - 1]
        BY <3>2
      <3>4. History[order[i - 1]] \subseteq History[order[i]]
            /\ \A t \in History[order[i]] : t # order[i] => t \in History[order[i - 1]]
        BY <1>1, <2>1, <3>3, OneHistory
      <3>5. i - 1 \in S
        BY <1>2, <3>1
      <3>6. QED
        BY <2>2, <3>4, <3>5
    <2>5. QED
      BY <2>3, <2>4
  <1>3. \A i \in 1..Len(order) : i \in S
    <2> HIDE DEF S
    <2>1. QED
      BY <1>1, <1>2, Upward
  <1>4. QED
    BY <1>3

\* Each operation keeps what is needed.
LEMMA BeginNeeded ==
  ASSUME HistoryInv, NEW t \in {"linear", "graph"}, NEW b \in {0} \cup Sha,
         NEW n \in Limits, Begin(t, b, n)
  PROVE  Needed'
  <1>1. /\ path' = <<ref>> /\ order' = <<>> /\ Len(<<ref>>) = 1 /\ Len(<<>>) = 0
        /\ outcome' = "none" /\ at' = "walk" /\ tool' = t /\ base' = b /\ (t = "graph" => b = 0)
    BY EmptySeq DEF Begin
  <1>2. QED
    BY <1>1 DEF Needed

\* The commit for which there is no room is one more of the head's history.
LEMMA GraphTooLarge ==
  ASSUME HistoryInv, Needed, at = "walk", tool = "graph", NEW j \in Waiting, ~Room
  PROVE  TooMany
  <1> DEFINE s == Last(path)
             p == Parents(s)[j]
             A == {order[i] : i \in 1..Len(order)}
             B == {path[i] : i \in 1..Len(path)}
             C == A \cup B \cup {p}
  <1>1. /\ TypeOK /\ Descending /\ Collected /\ Repository(objects) /\ head \in Sha
        /\ path \in Seq(Sha) /\ order \in Seq(Sha) /\ Len(path) \in Nat \ {0}
        /\ Len(order) \in Nat /\ limit \in Nat /\ Len(objects) \in Nat
    <2>1. TypeOK /\ Descending /\ Collected
      BY DEF HistoryInv
    <2>2. QED
      BY <2>1, EmptySeq DEF TypeOK, Descending, Repository
  <1>2. s \in Sha /\ s = path[Len(path)] /\ Len(path) \in 1..Len(path)
    BY <1>1 DEF Last
  <1>3. p \in Sha /\ p < s /\ ~Visited(p)
    <2>1. j \in 1..Len(Parents(s)) /\ ~Visited(p)
      BY DEF Waiting
    <2>2. p \in Sha /\ p \in 1..(s - 1) /\ s \in Nat
      BY <1>1, <1>2, <2>1, ParentFacts DEF Sha
    <2>3. QED
      BY <2>1, <2>2
  <1>4. p \in History[head]
    <2>1. s \in History[head]
      BY <1>2, VisitedInHistory
    <2>2. p \in History[s]
      <3>1. j \in 1..Len(Parents(s))
        BY DEF Waiting
      <3>2. QED
        BY <1>1, <1>2, <1>3, <3>1, OneHistory
    <2>3. QED
      BY <1>1, <2>1, <2>2, HistoryClosed
  <1>5. C \subseteq History[head]
    BY <1>4, VisitedInHistory, CollectedInHistory
  <1>6. IsFiniteSet(A) /\ Cardinality(A) = Len(order)
    <2>1. \A i, k \in 1..Len(order) : order[i] = order[k] => i = k
      BY <1>1 DEF Collected
    <2>2. /\ \A i \in 1..Len(order) : order[i] \in A
          /\ \A t \in A : \E i \in 1..Len(order) : t = order[i]
      OBVIOUS
    <2> HIDE DEF A
    <2>3. QED
      BY <1>1, <2>1, <2>2, CountDistinct
  <1>7. IsFiniteSet(B) /\ Cardinality(B) = Len(path)
    <2>1. ASSUME NEW i \in 1..Len(path), NEW k \in 1..Len(path), path[i] = path[k]
          PROVE  i = k
      <3>1. path[i] \in Nat /\ path[k] \in Nat
        BY <1>1 DEF Sha
      <3>2. QED
        BY <1>1, <2>1, <3>1 DEF Descending
    <2>2. \A i, k \in 1..Len(path) : path[i] = path[k] => i = k
      BY <2>1
    <2>3. /\ \A i \in 1..Len(path) : path[i] \in B
          /\ \A t \in B : \E i \in 1..Len(path) : t = path[i]
      OBVIOUS
    <2> HIDE DEF B
    <2>4. QED
      BY <1>1, <2>2, <2>3, CountDistinct
  <1>8. A \cap B = {}
    BY <1>1 DEF Descending
  <1>9. p \notin A \cup B
    <2>1. p \notin A
      BY <1>3 DEF Visited
    <2>2. ASSUME NEW i \in 1..Len(path) PROVE path[i] # p
      <3>1. path[i] \in Nat /\ s \in Nat /\ p \in Nat
        BY <1>1, <1>2, <1>3 DEF Sha
      <3>2. path[i] = s \/ s < path[i]
        BY <1>1, <1>2 DEF Descending
      <3>3. QED
        BY <1>3, <3>1, <3>2
    <2>3. QED
      BY <2>1, <2>2
  <1>10. IsFiniteSet(C) /\ Cardinality(C) = Len(order) + Len(path) + 1
    <2> HIDE DEF A, B, p
    <2>1. IsFiniteSet(A \cup B) /\ Cardinality(A \cup B) = Len(order) + Len(path)
      <3>1. /\ IsFiniteSet(A \cup B)
            /\ Cardinality(A \cup B) = Cardinality(A) + Cardinality(B) - Cardinality(A \cap B)
        BY <1>6, <1>7, FS_Union
      <3>2. Cardinality(A \cap B) = 0
        BY <1>8, FS_EmptySet
      <3>3. QED
        BY <1>1, <1>6, <1>7, <3>1, <3>2
    <2>2. QED
      BY <1>9, <2>1, FS_AddElement
  <1>11. ToRewrite(head) = History[head] /\ base \notin History[head]
         /\ IsFiniteSet(History[head])
    <2>1. History[head] \subseteq 1..head /\ head \in Nat
      BY <1>1, HistoryBelow DEF Sha
    <2>2. base = 0
      BY DEF Needed
    <2>3. IsFiniteSet(1..head)
      BY <2>1, FS_Interval
    <2>4. IsFiniteSet(History[head])
      BY <2>1, <2>3, FS_Subset
    <2>5. QED
      BY <2>1, <2>2, <2>4 DEF ToRewrite
  <1>12. Cardinality(C) <= Cardinality(History[head]) /\ Cardinality(History[head]) \in Nat
    <2> HIDE DEF C
    <2>1. QED
      BY <1>5, <1>11, FS_Subset, FS_CardinalityType
  <1>13. QED
    <2>1. Len(order) + Len(path) >= limit
      BY <1>1 DEF Room
    <2>2. QED
      BY <1>1, <1>10, <1>11, <1>12, <2>1 DEF TooMany

LEMMA DescendNeeded ==
  ASSUME HistoryInv, Needed, Descend
  PROVE  Needed'
  <1>1. /\ at = "walk" /\ tool = "graph" /\ UNCHANGED objects /\ Grown
        /\ path \in Seq(Sha) /\ Len(path) \in Nat \ {0} /\ order \in Seq(Sha)
        /\ Len(order) \in Nat /\ Repository(objects)
    BY SameIsGrown, EmptySeq DEF HistoryInv, TypeOK, Descending, Descend
  <1>2. PICK j \in Waiting :
          IF Room THEN /\ path' = Append(path, Parents(Last(path))[j])
                       /\ UNCHANGED <<at, tool, base, limit, head, order, new, outcome>>
                  ELSE Stop("limit")
    BY DEF Descend
  <1>3. CASE ~Room
    BY <1>1, <1>2, <1>3, GraphTooLarge, StopNeeded
  <1>4. CASE Room
    <2> DEFINE s == Last(path)
               p == Parents(s)[j]
    <2>1. /\ path' = Append(path, p)
          /\ UNCHANGED <<objects, at, tool, base, limit, head, order, new, outcome>>
      BY <1>1, <1>2, <1>4
    <2>2. s \in Sha /\ s = path[Len(path)] /\ j \in 1..Len(Parents(s))
      BY <1>1 DEF Last, Waiting
    <2>3. p \in Sha
      BY <1>1, <2>2, ParentFacts
    <2>4. /\ Len(path') = Len(path) + 1
          /\ \A i \in 1..Len(path) : path'[i] = path[i]
          /\ path'[Len(path) + 1] = p
      BY <1>1, <2>1, <2>3, AppendProperties
    <2>5. \A q, c : ParentOf(q, c)' <=> ParentOf(q, c)
      BY <2>1 DEF ParentOf, Parents
    <2>6. ASSUME NEW i \in 2..Len(path') PROVE ParentOf(path'[i], path'[i - 1])
      <3>1. CASE i \in 2..Len(path)
        <4>1. path'[i] = path[i] /\ path'[i - 1] = path[i - 1]
          BY <1>1, <2>4, <3>1
        <4>2. QED
          BY <1>1, <3>1, <4>1 DEF Needed
      <3>2. CASE i = Len(path) + 1
        <4>1. path'[i] = p /\ path'[i - 1] = s
          BY <1>1, <2>2, <2>4, <3>2
        <4>2. QED
          BY <2>2, <4>1 DEF ParentOf
      <3>3. QED
        BY <1>1, <2>4, <3>1, <3>2
    <2>7. ASSUME NEW i \in 1..Len(order) PROVE Wanted(i)'
      <3>1. Wanted(i)
        BY <1>1 DEF Needed
      <3>2. \A k \in 1..Len(path) : k \in 1..Len(path') /\ path'[k] = path[k]
        BY <1>1, <2>4
      <3>3. (\E k \in 1..Len(path) : ParentOf(order[i], path[k]))
            => \E k \in 1..Len(path') : ParentOf(order[i], path'[k])
        BY <3>2
      <3>4. QED
        BY <2>1, <2>5, <3>1, <3>3 DEF Wanted
    <2>8. QED
      BY <1>1, <2>1, <2>5, <2>6, <2>7 DEF Needed
  <1>5. QED
    BY <1>3, <1>4

\* All of a sequence but its last.
LEMMA FrontFacts ==
  ASSUME NEW S, NEW q \in Seq(S), q # <<>>
  PROVE  LET f == SubSeq(q, 1, Len(q) - 1) IN
         /\ f \in Seq(S) /\ Len(f) = Len(q) - 1
         /\ \A i \in 1..(Len(q) - 1) : f[i] = q[i]
  <1> DEFINE f == SubSeq(q, 1, Len(q) - 1)
  <1>1. Len(q) \in Nat \ {0} /\ \A i \in 1..Len(q) : q[i] \in S
    BY EmptySeq
  <1>2. /\ f \in Seq(S)
        /\ Len(f) = IF 1 <= Len(q) - 1 THEN Len(q) - 1 - 1 + 1 ELSE 0
        /\ \A i \in 1..(Len(q) - 1 - 1 + 1) : f[i] = q[1 + i - 1]
    <2>1. \A i \in 1..(Len(q) - 1) : q[i] \in S
      BY <1>1
    <2>2. 1 \in Int /\ Len(q) - 1 \in Int
      BY <1>1
    <2>3. QED
      BY <2>1, <2>2, SubSeqProperties
  <1> HIDE DEF f
  <1>3. Len(f) = Len(q) - 1
    <2>1. Len(q) \in Nat \ {0}
      BY <1>1
    <2>2. Len(f) = IF 1 <= Len(q) - 1 THEN Len(q) - 1 - 1 + 1 ELSE 0
      BY <1>2
    <2>3. \A n \in Nat \ {0} : (IF 1 <= n - 1 THEN n - 1 - 1 + 1 ELSE 0) = n - 1
      OBVIOUS
    <2>4. QED
      BY <2>1, <2>2, <2>3
  <1>4. ASSUME NEW i \in 1..(Len(q) - 1) PROVE f[i] = q[i]
    <2>1. i \in 1..(Len(q) - 1 - 1 + 1) /\ 1 + i - 1 = i
      BY <1>1
    <2>2. QED
      BY <1>2, <2>1
  <1>5. QED
    BY <1>2, <1>3, <1>4 DEF f

LEMMA LeaveNeeded ==
  ASSUME HistoryInv, Needed, Leave
  PROVE  Needed'
  <1> DEFINE s == Last(path)
  <1>1. /\ Descending /\ at = "walk" /\ tool = "graph"
        /\ UNCHANGED <<objects, ref, tool, base, limit, head, new, outcome>>
        /\ order' = Append(order, s)
        /\ path' = SubSeq(path, 1, Len(path) - 1)
        /\ at' = IF Len(path) = 1 THEN "make" ELSE "walk"
        /\ path \in Seq(Sha) /\ Len(path) \in Nat \ {0} /\ order \in Seq(Sha)
        /\ Len(order) \in Nat /\ Repository(objects)
    BY EmptySeq DEF HistoryInv, TypeOK, Descending, Leave
  <1>2. s \in Sha /\ s = path[Len(path)]
    BY <1>1 DEF Last
  <1>3. /\ Len(order') = Len(order) + 1
        /\ \A i \in 1..Len(order) : order'[i] = order[i]
        /\ order'[Len(order) + 1] = s
    BY <1>1, <1>2, AppendProperties
  <1>4. /\ Len(path') = Len(path) - 1 /\ path' \in Seq(Sha)
        /\ \A i \in 1..(Len(path) - 1) : path'[i] = path[i]
    BY <1>1, FrontFacts
  <1>5. \A q, c : ParentOf(q, c)' <=> ParentOf(q, c)
    BY <1>1 DEF ParentOf, Parents
  <1>6. ASSUME NEW i \in 2..Len(path') PROVE ParentOf(path'[i], path'[i - 1])
    <2>1. i \in 2..Len(path) /\ path'[i] = path[i] /\ path'[i - 1] = path[i - 1]
      BY <1>1, <1>4
    <2>2. QED
      BY <1>1, <2>1 DEF Needed
  <1>7. ASSUME NEW i \in 1..Len(order') PROVE Wanted(i)'
    <2>1. CASE i \in 1..Len(order)
      <3>1. Wanted(i) /\ order'[i] = order[i]
        BY <1>1, <1>3, <2>1 DEF Needed
      <3>2. ASSUME NEW k \in (i + 1)..Len(order), ParentOf(order[i], order[k])
            PROVE  \E m \in (i + 1)..Len(order') : ParentOf(order'[i], order'[m])
        <4>1. k \in (i + 1)..Len(order') /\ order'[k] = order[k]
          BY <1>1, <1>3, <2>1, <3>2
        <4>2. QED
          BY <3>1, <3>2, <4>1
      <3>3. ASSUME NEW k \in 1..Len(path), ParentOf(order[i], path[k])
            PROVE  \/ \E m \in (i + 1)..Len(order') : ParentOf(order'[i], order'[m])
                   \/ \E m \in 1..Len(path') : ParentOf(order'[i], path'[m])
        <4>1. CASE k = Len(path)
          <5>1. Len(order) + 1 \in (i + 1)..Len(order') /\ order'[Len(order) + 1] = path[k]
            BY <1>1, <1>2, <1>3, <2>1, <4>1
          <5>2. QED
            BY <3>1, <3>3, <5>1
        <4>2. CASE k # Len(path)
          <5>1. k \in 1..Len(path') /\ path'[k] = path[k]
            BY <1>1, <1>4, <4>2
          <5>2. QED
            BY <3>1, <3>3, <5>1
        <4>3. QED
          BY <4>1, <4>2
      <3>4. QED
        BY <1>1, <1>5, <3>1, <3>2, <3>3 DEF Wanted
    <2>2. CASE i = Len(order) + 1
      <3>1. order'[i] = s
        BY <1>3, <2>2
      <3>2. CASE Len(path) = 1
        BY <1>1, <1>2, <3>1, <3>2 DEF Wanted, Descending
      <3>3. CASE Len(path) # 1
        <4>1. /\ Len(path) \in 2..Len(path) /\ Len(path) - 1 \in 1..Len(path')
              /\ path'[Len(path) - 1] = path[Len(path) - 1]
          BY <1>1, <1>4, <3>3
        <4>2. ParentOf(s, path[Len(path) - 1])
          BY <1>1, <1>2, <4>1 DEF Needed
        <4>3. \E k \in 1..Len(path') : ParentOf(order'[i], path'[k])
          BY <3>1, <4>1, <4>2
        <4>4. QED
          BY <1>5, <4>3 DEF Wanted
      <3>4. QED
        BY <3>2, <3>3
    <2>3. QED
      BY <1>1, <1>3, <2>1, <2>2
  <1>8. at' = "make" => path' = <<>>
    BY <1>1, <1>4, EmptySeq
  <1>9. QED
    BY <1>1, <1>5, <1>6, <1>7, <1>8 DEF Needed

LEMMA FollowNeeded ==
  ASSUME HistoryInv, Needed, Follow
  PROVE  Needed'
  <1> DEFINE s == Last(path)
  <1>1. /\ at = "walk" /\ tool = "linear" /\ UNCHANGED objects /\ Grown /\ ~AtBase
        /\ path \in Seq(Sha) /\ Len(path) = 1 /\ order \in Seq(Sha) /\ Len(order) \in Nat
        /\ base \in {0} \cup Sha
    BY SameIsGrown DEF HistoryInv, TypeOK, Following, Follow
  <1>2. CASE Parents(s) = <<>> /\ base # 0
    <2>1. Stop("unrelated")
      BY <1>2 DEF Follow
    <2>2. QED
      BY <1>1, <2>1, StopNeeded
  <1>3. CASE ~(Parents(s) = <<>> /\ base # 0)
    <2>1. /\ order' = <<s>> \o order
          /\ UNCHANGED <<tool, base, limit, head, outcome>>
      BY <1>3 DEF Follow
    <2>2. s \in Sha /\ s # base
      <3>1. s \in Sha
        BY <1>1 DEF Last
      <3>2. QED
        BY <1>1, <3>1 DEF AtBase, Sha
    <2>3. <<s>> \in Seq(Sha) /\ Len(<<s>>) = 1 /\ <<s>>[1] = s
      BY <2>2
    <2>4. /\ Len(order') = 1 + Len(order)
          /\ \A i \in 1..(1 + Len(order)) :
                order'[i] = IF i <= 1 THEN <<s>>[i] ELSE order[i - 1]
      BY <1>1, <2>1, <2>3, ConcatProperties
    <2>5. ASSUME NEW i \in 1..Len(order') PROVE order'[i] # base
      <3>1. CASE i = 1
        BY <1>1, <2>2, <2>3, <2>4, <3>1
      <3>2. CASE i # 1
        <4>1. i - 1 \in 1..Len(order) /\ order'[i] = order[i - 1]
          BY <1>1, <2>4, <3>2
        <4>2. QED
          BY <1>1, <4>1 DEF Needed
      <3>3. QED
        BY <3>1, <3>2
    <2>6. outcome = "none"
      BY <1>1 DEF Needed
    <2>7. QED
      BY <1>1, <2>1, <2>5, <2>6 DEF Needed
  <1>4. QED
    BY <1>2, <1>3

\* A linear range is collected from the youngest down.
LEMMA LinearAges ==
  ASSUME HistoryInv, tool = "linear"
  PROVE  \A i \in 1..Len(order) :
            /\ path # <<>> => path[1] < order[i]
            /\ \A k \in 1..(i - 1) : order[k] < order[i]
  <1>1. /\ Repository(objects) /\ order \in Seq(Sha) /\ Len(order) \in Nat /\ path \in Seq(Sha)
        /\ Collected
    BY DEF HistoryInv, TypeOK
  <1> DEFINE S == {i \in 1..Len(order) :
            /\ path # <<>> => path[1] < order[i]
            /\ \A k \in 1..(i - 1) : order[k] < order[i]}
  <1>2. ASSUME NEW i \in 1..Len(order), 1..(i - 1) \subseteq S PROVE i \in S
    <2>1. order[i] \in Sha /\ order[i] \in Nat
      BY <1>1 DEF Sha
    <2>2. CASE i = 1
      <3>1. Parents(order[1]) = path
        BY <1>1, <2>2, EmptySeq DEF Collected
      <3>2. path # <<>> => 1 \in 1..Len(path)
        BY <1>1
      <3>3. path # <<>> => path[1] \in 1..(order[1] - 1)
        BY <1>1, <2>1, <2>2, <3>1, <3>2, ParentFacts
      <3>4. QED
        BY <2>1, <2>2, <3>3
    <2>3. CASE i # 1
      <3>1. i \in 2..Len(order) /\ i - 1 \in 1..(i - 1) /\ i - 1 \in 1..Len(order)
        BY <1>1, <2>3
      <3>2. Parents(order[i]) = <<order[i - 1]>>
        BY <1>1, <3>1 DEF Collected
      <3>3. order[i - 1] \in 1..(order[i] - 1)
        <4>1. Len(Parents(order[i])) = 1 /\ Parents(order[i])[1] = order[i - 1]
          BY <3>2
        <4>2. 1 \in 1..Len(Parents(order[i]))
          BY <4>1
        <4>3. Parents(order[i])[1] \in 1..(order[i] - 1)
          BY <1>1, <2>1, <4>2, ParentFacts
        <4>4. QED
          BY <4>1, <4>3
      <3>4. /\ path # <<>> => path[1] < order[i - 1]
            /\ \A k \in 1..(i - 1 - 1) : order[k] < order[i - 1]
        BY <1>2, <3>1
      <3>5. path # <<>> => path[1] < order[i]
        <4>1. path # <<>> => path[1] \in Nat
          BY <1>1 DEF Sha
        <4>2. QED
          BY <2>1, <3>3, <3>4, <4>1
      <3>6. ASSUME NEW k \in 1..(i - 1) PROVE order[k] < order[i]
        <4>1. order[k] \in Nat
          BY <1>1 DEF Sha
        <4>2. k = i - 1 \/ k \in 1..(i - 1 - 1)
          BY <1>1
        <4>3. QED
          BY <2>1, <3>3, <3>4, <4>1, <4>2
      <3>7. QED
        BY <3>5, <3>6
    <2>4. QED
      BY <2>2, <2>3
  <1>3. \A i \in 1..Len(order) : i \in S
    <2> HIDE DEF S
    <2>1. QED
      BY <1>1, <1>2, Upward
  <1>4. QED
    BY <1>3

\* So no commit is in it twice.
LEMMA LinearCount ==
  ASSUME HistoryInv, tool = "linear"
  PROVE  /\ IsFiniteSet({order[i] : i \in 1..Len(order)})
         /\ Cardinality({order[i] : i \in 1..Len(order)}) = Len(order)
  <1>1. order \in Seq(Sha) /\ Len(order) \in Nat
    BY DEF HistoryInv, TypeOK
  <1>2. ASSUME NEW i \in 1..Len(order), NEW k \in 1..Len(order), order[i] = order[k]
        PROVE  i = k
    <2>1. order[i] \in Nat /\ i \in Nat /\ k \in Nat
      BY <1>1 DEF Sha
    <2>2. i < k => order[i] < order[k]
      BY <2>1, LinearAges
    <2>3. k < i => order[k] < order[i]
      BY <2>1, LinearAges
    <2>4. QED
      BY <1>2, <2>1, <2>2, <2>3
  <1>3. \A i, k \in 1..Len(order) : order[i] = order[k] => i = k
    BY <1>2
  <1> DEFINE A == {order[i] : i \in 1..Len(order)}
  <1>4. /\ \A i \in 1..Len(order) : order[i] \in A
        /\ \A t \in A : \E i \in 1..Len(order) : t = order[i]
    OBVIOUS
  <1> HIDE DEF A
  <1>5. IsFiniteSet(A) /\ Cardinality(A) = Len(order)
    BY <1>1, <1>3, <1>4, CountDistinct
  <1>6. QED
    BY <1>5 DEF A

\* The commit before which a linear walk stops is one more, unless it stands on
\* the base.
LEMMA LinearTooLarge ==
  ASSUME HistoryInv, Needed, at = "walk", tool = "linear", Len(order) = limit
  PROVE  TooMany
  <1> DEFINE q == Last(path)
             A == {order[i] : i \in 1..Len(order)}
  <1>1. /\ TypeOK /\ Following /\ Repository(objects) /\ head \in Sha
        /\ path \in Seq(Sha) /\ order \in Seq(Sha) /\ Len(order) \in Nat
        /\ limit \in Nat /\ base \in {0} \cup Sha /\ Len(path) = 1
    BY DEF HistoryInv, TypeOK, Following
  <1>2. q \in Sha /\ q = path[1] /\ path # <<>>
    <2>1. Len(path) = 1 /\ path \in Seq(Sha)
      BY <1>1
    <2>2. q = path[1]
      BY <2>1 DEF Last
    <2>3. path[1] \in Sha
      BY <2>1
    <2>4. path # <<>>
      BY <2>1, EmptySeq
    <2>5. QED
      BY <2>2, <2>3, <2>4
  <1>3. IsFiniteSet(A) /\ Cardinality(A) = Len(order)
    BY LinearCount
  <1>4. A \subseteq History[head] /\ History[q] \subseteq History[head]
        /\ \A t \in History[head] : t \in A \/ t \in History[q]
    <2>1. CASE order = <<>>
      BY <1>1, <1>2, <2>1, EmptySeq DEF Following
    <2>2. CASE order # <<>>
      <3>1. Len(order) \in 1..Len(order) /\ order[Len(order)] = head
        BY <1>1, <2>2, EmptySeq DEF Following, Last
      <3>2. QED
        BY <1>2, <3>1, LinearHistory
    <2>3. QED
      BY <2>1, <2>2
  <1>5. \A t \in A : q < t /\ t \in Nat
    <2>1. ASSUME NEW i \in 1..Len(order) PROVE q < order[i] /\ order[i] \in Nat
      <3>1. q < order[i]
        BY <1>2, LinearAges
      <3>2. QED
        BY <1>1, <3>1 DEF Sha
    <2>2. QED
      BY <2>1
  <1>6. IsFiniteSet(History[head])
    <2>1. History[head] \subseteq 1..head /\ head \in Nat
      BY <1>1, HistoryBelow DEF Sha
    <2>2. IsFiniteSet(1..head)
      BY <2>1, FS_Interval
    <2>3. QED
      BY <2>1, <2>2, FS_Subset
  <1>7. CASE base \in History[head]
    <2>1. base \notin A
      BY <1>1 DEF Needed
    <2>2. base \in History[q]
      BY <1>4, <1>7, <2>1
    <2>3. History[base] \subseteq History[q]
      BY <1>1, <1>2, <2>2, HistoryClosed
    <2>4. History[q] \subseteq 1..q /\ q \in Nat
      BY <1>1, <1>2, HistoryBelow DEF Sha
    <2>5. A \cap History[base] = {}
      BY <1>5, <2>3, <2>4
    <2>6. A \subseteq ToRewrite(head) /\ ToRewrite(head) \subseteq History[head]
      BY <1>4, <1>7, <2>5 DEF ToRewrite
    <2>7. Cardinality(A) <= Cardinality(ToRewrite(head))
          /\ Cardinality(ToRewrite(head)) \in Nat
      <3> HIDE DEF A
      <3>1. IsFiniteSet(ToRewrite(head))
        BY <1>6, <2>6, FS_Subset
      <3>2. QED
        BY <2>6, <3>1, FS_Subset, FS_CardinalityType
    <2>8. QED
      BY <1>1, <1>3, <1>7, <2>7 DEF TooMany
  <1>8. CASE base \notin History[head]
    <2>1. A \cup {q} \subseteq ToRewrite(head) /\ ToRewrite(head) = History[head]
      <3>1. q \in History[q]
        BY <1>1, <1>2, OneHistory
      <3>2. QED
        BY <1>4, <1>8, <3>1 DEF ToRewrite
    <2>2. q \notin A
      <3>1. q \in Nat
        BY <1>2 DEF Sha
      <3>2. QED
        BY <1>5, <3>1
    <2>3. IsFiniteSet(A \cup {q}) /\ Cardinality(A \cup {q}) = Len(order) + 1
      <3> HIDE DEF A, q
      <3>1. QED
        BY <1>3, <2>2, FS_AddElement
    <2>4. Cardinality(A \cup {q}) <= Cardinality(ToRewrite(head))
          /\ Cardinality(ToRewrite(head)) \in Nat
      <3> HIDE DEF A, q
      <3>1. QED
        BY <1>6, <2>1, FS_Subset, FS_CardinalityType
    <2>5. QED
      BY <1>1, <1>8, <2>3, <2>4 DEF TooMany
  <1>9. QED
    BY <1>7, <1>8

LEMMA WalkFailsNeeded ==
  ASSUME HistoryInv, Needed, WalkFails
  PROVE  Needed'
  <1>1. at = "walk" /\ tool = "linear" /\ Grown
    BY SameIsGrown DEF WalkFails
  <1>2. CASE Len(order) = limit /\ Stop("limit")
    BY <1>1, <1>2, LinearTooLarge, StopNeeded
  <1>3. CASE Stop("empty") \/ Stop("merge")
    BY <1>1, <1>3, StopNeeded
  <1>4. QED
    BY <1>2, <1>3 DEF WalkFails

LEMMA NeededInit == Init => Needed
  <1>1. Len(<<>>) = 0
    BY EmptySeq
  <1>2. QED
    BY <1>1 DEF Init, Needed

LEMMA NeededStep == HistoryInv /\ Needed /\ [Next]_vars => Needed'
  <1> SUFFICES ASSUME HistoryInv, Needed, [Next]_vars PROVE Needed'
    OBVIOUS
  <1>1. ASSUME NEW b \in {0} \cup Sha, NEW n \in Limits,
               Begin("linear", b, n) \/ Begin("graph", b, n)
        PROVE  Needed'
    BY <1>1, BeginNeeded
  <1>2. CASE Descend
    BY <1>2, DescendNeeded
  <1>3. CASE Leave
    BY <1>3, LeaveNeeded
  <1>4. CASE Follow
    BY <1>4, FollowNeeded
  <1>5. CASE ReachBase
    BY <1>5, SameIsGrown DEF ReachBase, Needed, TooMany
  <1>6. CASE WalkFails
    BY <1>6, WalkFailsNeeded
  <1>7. CASE Reuse
    BY <1>7, SameIsGrown, GrownNeeded DEF Reuse
  <1>8. CASE Make
    BY <1>8, MakeKeeps, GrownNeeded DEF Make
  <1>9. CASE MakeRefused
    BY <1>9, MakeRefusedKeeps, StopNeeded DEF MakeRefused
  <1>10. CASE Report \/ Fail \/ Update
    <2>1. UNCHANGED objects /\ (Stop("result") \/ Stop("error"))
      BY <1>10 DEF Report, Fail, Update
    <2>2. QED
      BY <2>1, SameIsGrown, StopNeeded
  <1>11. CASE Recheck
    <2>1. Stop("raced") => Needed'
      BY <1>11, SameIsGrown, StopNeeded DEF Recheck
    <2>2. QED
      BY <1>11, <2>1, SameIsGrown, GrownNeeded DEF Recheck
  <1>12. ASSUME NEW c \in Pushed, Push(c) PROVE Needed'
    BY <1>12, PushKeeps, GrownNeeded DEF Push
  <1>13. CASE UNCHANGED vars
    BY <1>13, SameIsGrown, GrownNeeded DEF vars
  <1>14. QED
    BY <1>1, <1>2, <1>3, <1>4, <1>5, <1>6, <1>7, <1>8, <1>9, <1>10, <1>11, <1>12,
       <1>13 DEF Next

\* Whatever is pushed meanwhile, a walk finds what it needs and nothing else.
LEMMA NeededSafety == Spec => [](HistoryInv /\ Needed)
  BY HistoryInit, HistoryStep, NeededInit, NeededStep, PTL DEF Spec

\* Identities apart, a rewritten branch has the history it had, of whatever length
\* and shape it is, and all of it down to the base is the App's.
THEOREM HistoriesStay == Spec => []SameHistory
  <1>1. HistoryInv /\ Needed => SameHistory
    <2> SUFFICES ASSUME HistoryInv, Needed, Finished
                 PROVE  /\ Bare[NewHead] = Bare[head]
                        /\ \A s \in ToRewrite(NewHead) : objects[s].by = "app"
      BY DEF SameHistory
    <2>1. /\ TypeOK /\ Ready /\ Repository(objects) /\ base \in {0} \cup Sha
          /\ new \in Seq(Sha) /\ Len(new) \in Nat /\ new # <<>> /\ Len(new) = Len(order)
      BY DEF HistoryInv, TypeOK, Finished, Made
    <2>2. Len(new) \in 1..Len(new)
      BY <2>1, EmptySeq
    <2>3. NewHead = new[Len(new)] /\ head = order[Len(new)] /\ NewHead \in Sha
      BY <2>1, <2>2 DEF NewHead, Last, Ready
    <2>4. Bare[NewHead] = Bare[head]
      BY <2>2, <2>3, MadeBare
    <2>5. ASSUME NEW s \in ToRewrite(NewHead) PROVE s \in History[NewHead] \ Kept
      <3>1. CASE base \in History[NewHead]
        <4>1. base # 0
          BY <2>1, <2>3, <3>1, HistoryBelow
        <4>2. QED
          BY <2>5, <3>1, <4>1 DEF ToRewrite, Kept
      <3>2. CASE base \notin History[NewHead]
        <4>1. base = 0
          <5>1. tool = "linear" => base = 0
            BY <2>1, <2>2, <2>3, <3>2, MadeHistory
          <5>2. QED
            BY <2>1, <5>1 DEF Needed, TypeOK
        <4>2. QED
          BY <2>5, <3>2, <4>1 DEF ToRewrite, Kept
      <3>3. QED
        BY <3>1, <3>2
    <2>6. ASSUME NEW s \in ToRewrite(NewHead) PROVE objects[s].by = "app"
      <3>1. PICK k \in 1..Len(new) : s = new[k]
        BY <2>1, <2>2, <2>3, <2>5, MadeHistory
      <3>2. MadeFrom(k)
        BY DEF HistoryInv
      <3>3. QED
        BY <3>1, <3>2 DEF MadeFrom
    <2>7. QED
      BY <2>4, <2>6
  <1>2. QED
    BY <1>1, NeededSafety, PTL

\* Of a graph, of whatever size: a commit keeps its sha exactly if all of it was
\* the App's.
LEMMA OthersRewritten ==
  ASSUME HistoryInv, Needed, tool = "graph", Len(new) = Len(order)
  PROVE  \A i \in 1..Len(order) :
            new[i] = order[i] <=> \A s \in History[order[i]] : objects[s].by = "app"
  <1>1. /\ Repository(objects) /\ Collected /\ Len(order) \in Nat
        /\ order \in Seq(Sha) /\ new \in Seq(Sha)
    BY DEF HistoryInv, TypeOK
  <1> DEFINE S == {i \in 1..Len(order) :
            new[i] = order[i] <=> \A s \in History[order[i]] : objects[s].by = "app"}
  <1>2. ASSUME NEW i \in 1..Len(order), 1..(i - 1) \subseteq S PROVE i \in S
    <2>1. /\ MadeFrom(i) /\ new[i] \in Sha /\ order[i] \in Sha
      BY <1>1 DEF HistoryInv
    <2>2. /\ Len(Parents(new[i])) = Len(Parents(order[i]))
          /\ objects[new[i]].tree = objects[order[i]].tree /\ objects[new[i]].by = "app"
      BY <2>1 DEF MadeFrom
    <2>3. ASSUME NEW j \in 1..Len(Parents(order[i]))
          PROVE  \E k \in 1..(i - 1) :
                    order[k] = Parents(order[i])[j] /\ new[k] = Parents(new[i])[j]
      BY <2>1 DEF MadeFrom
    <2>4. ASSUME new[i] = order[i], NEW s \in History[order[i]]
          PROVE  objects[s].by = "app"
      <3>1. CASE s = order[i]
        BY <2>2, <2>4, <3>1
      <3>2. CASE s # order[i]
        <4>1. PICK j \in 1..Len(Parents(order[i])) : s \in History[Parents(order[i])[j]]
          BY <1>1, <2>1, <2>4, <3>2, OneHistory
        <4>2. PICK k \in 1..(i - 1) :
                    order[k] = Parents(order[i])[j] /\ new[k] = Parents(new[i])[j]
          BY <2>3
        <4>3. new[k] = order[k]
          BY <2>4, <4>2
        <4>4. k \in S
          BY <1>2
        <4>5. QED
          BY <4>1, <4>2, <4>3, <4>4
      <3>3. QED
        BY <3>1, <3>2
    <2>5. ASSUME \A s \in History[order[i]] : objects[s].by = "app"
          PROVE  new[i] = order[i]
      <3>1. objects[order[i]].by = "app"
        BY <1>1, <2>1, <2>5, OneHistory
      <3>2. ASSUME NEW j \in 1..Len(Parents(order[i]))
            PROVE  Parents(new[i])[j] = Parents(order[i])[j]
        <4>1. PICK k \in 1..(i - 1) :
                    order[k] = Parents(order[i])[j] /\ new[k] = Parents(new[i])[j]
          BY <2>3
        <4>2. History[order[k]] \subseteq History[order[i]]
          BY <1>1, <2>1, <4>1, OneHistory
        <4>3. k \in S
          BY <1>2
        <4>4. QED
          BY <2>5, <4>1, <4>2, <4>3
      <3>3. /\ Parents(new[i]) \in Seq(Nat) /\ Parents(order[i]) \in Seq(Nat)
            /\ objects[new[i]] \in Commit /\ objects[order[i]] \in Commit
        BY <1>1, <2>1, ParentFacts
      <3>4. Parents(new[i]) = Parents(order[i])
        BY <2>2, <3>2, <3>3, SeqEqual
      <3>5. objects[new[i]] = objects[order[i]]
        BY <2>2, <3>1, <3>3, <3>4 DEF Commit, Parents
      <3>6. QED
        BY <1>1, <2>1, <3>5 DEF Repository, Sha
    <2>6. QED
      BY <2>4, <2>5
  <1>3. \A i \in 1..Len(order) : i \in S
    <2> HIDE DEF S
    <2>1. QED
      BY <1>1, <1>2, Upward
  <1>4. QED
    BY <1>3

\* Whatever its shape, a rewritten graph keeps the sha of a commit exactly if all
\* that the commit grew from was the App's: only others' commits, and what stands
\* on them, are rewritten.
THEOREM OthersOnly == Spec => []OnlyOthersRewritten
  <1>1. HistoryInv /\ Needed => OnlyOthersRewritten
    <2> SUFFICES ASSUME HistoryInv, Needed, Finished, tool = "graph",
                        NEW i \in 1..Len(order)
                 PROVE  new[i] = order[i] <=>
                           \A s \in ToRewrite(order[i]) : objects[s].by = "app"
      BY DEF OnlyOthersRewritten
    <2>1. Repository(objects) /\ order[i] \in Sha
      BY DEF HistoryInv, TypeOK
    <2>2. ToRewrite(order[i]) = History[order[i]]
      <3>1. base = 0 /\ base \notin History[order[i]]
        BY <2>1, HistoryBelow DEF Needed
      <3>2. QED
        BY <3>1 DEF ToRewrite
    <2>3. Len(new) = Len(order)
      BY DEF Finished, Made
    <2>4. QED
      BY <2>2, <2>3, OthersRewritten
  <1>2. QED
    BY <1>1, NeededSafety, PTL

\* A collected graph is closed: what a commit of it grew from is in it.
LEMMA GraphHistory ==
  ASSUME HistoryInv, tool = "graph"
  PROVE  \A i \in 1..Len(order) : \A t \in History[order[i]] :
            \E k \in 1..Len(order) : t = order[k]
  <1>1. Repository(objects) /\ Collected /\ Len(order) \in Nat /\ order \in Seq(Sha)
    BY DEF HistoryInv, TypeOK
  <1> DEFINE S == {i \in 1..Len(order) : \A t \in History[order[i]] :
                      \E k \in 1..Len(order) : t = order[k]}
  <1>2. ASSUME NEW i \in 1..Len(order), 1..(i - 1) \subseteq S PROVE i \in S
    <2>1. ASSUME NEW t \in History[order[i]], t # order[i]
          PROVE  \E k \in 1..Len(order) : t = order[k]
      <3>1. PICK j \in 1..Len(Parents(order[i])) : t \in History[Parents(order[i])[j]]
        BY <1>1, <2>1, OneHistory
      <3>2. PICK k \in 1..(i - 1) : order[k] = Parents(order[i])[j]
        BY <1>1 DEF Collected
      <3>3. k \in S
        BY <1>2
      <3>4. QED
        BY <3>1, <3>2, <3>3
    <2>2. QED
      BY <2>1
  <1>3. \A i \in 1..Len(order) : i \in S
    <2> HIDE DEF S
    <2>1. QED
      BY <1>1, <1>2, Upward
  <1>4. QED
    BY <1>3

\* When the walk has ended well, what it has collected is what is to be rewritten.
LEMMA ExactlyCollected ==
  ASSUME HistoryInv, Needed, at = "make"
  PROVE  /\ {order[i] : i \in 1..Len(order)} = ToRewrite(head)
         /\ Cardinality(ToRewrite(head)) = Len(order)
  <1> DEFINE A == {order[i] : i \in 1..Len(order)}
  <1>1. /\ Repository(objects) /\ Collected /\ Ready /\ head \in Sha
        /\ order \in Seq(Sha) /\ Len(order) \in Nat /\ base \in {0} \cup Sha
        /\ tool \in {"graph", "linear"} /\ order # <<>> /\ path \in Seq(Sha)
    BY DEF HistoryInv, TypeOK, Ready
  <1>2. Len(order) \in 1..Len(order) /\ order[Len(order)] = head
    BY <1>1, EmptySeq DEF Ready, Last
  <1>3. CASE tool = "graph"
    <2>1. ToRewrite(head) = History[head]
      <3>1. base = 0 /\ base \notin History[head]
        BY <1>1, <1>3, HistoryBelow DEF Needed
      <3>2. QED
        BY <3>1 DEF ToRewrite
    <2>2. ToRewrite(head) \subseteq A
      BY <1>2, <1>3, <2>1, GraphHistory
    <2>3. A \subseteq ToRewrite(head)
      <3>1. path = <<>>
        BY <1>3 DEF Needed
      <3>2. QED
        BY <1>3, <2>1, <3>1, CollectedInHistory
    <2>4. \A i, k \in 1..Len(order) : order[i] = order[k] => i = k
      BY <1>1, <1>3 DEF Collected
    <2>5. /\ \A i \in 1..Len(order) : order[i] \in A
          /\ \A t \in A : \E i \in 1..Len(order) : t = order[i]
      OBVIOUS
    <2> HIDE DEF A
    <2>6. Cardinality(A) = Len(order)
      BY <1>1, <2>4, <2>5, CountDistinct
    <2>7. QED
      BY <2>2, <2>3, <2>6 DEF A
  <1>4. CASE tool = "linear"
    <2>1. path = IF base = 0 THEN <<>> ELSE <<base>>
      BY <1>1, <1>4 DEF Ready
    <2>2. A \subseteq History[head]
          /\ \A t \in History[head] \ A : path # <<>> /\ t \in History[path[1]]
      BY <1>2, <1>4, LinearHistory
    <2>3. CASE base = 0
      <3>1. base \notin History[head]
        BY <1>1, <2>3, HistoryBelow
      <3>2. ToRewrite(head) = History[head]
        BY <3>1 DEF ToRewrite
      <3>3. QED
        BY <1>4, <2>1, <2>2, <2>3, <3>2, LinearCount
    <2>4. CASE base # 0
      <3>1. path # <<>> /\ path[1] = base /\ base \in Sha
        BY <1>1, <2>1, <2>4
      <3>2. base \in History[base] /\ History[base] \subseteq History[head]
        BY <1>1, <1>2, <1>4, <3>1, OneHistory, LinearHistory
      <3>3. History[base] \subseteq 1..base
        BY <1>1, <3>1, HistoryBelow
      <3>4. ASSUME NEW i \in 1..Len(order) PROVE order[i] \notin History[base]
        <4>1. base < order[i]
          BY <1>4, <3>1, LinearAges
        <4>2. base \in Nat /\ order[i] \in Nat
          BY <1>1, <3>1 DEF Sha
        <4>3. QED
          BY <3>3, <4>1, <4>2
      <3>5. ToRewrite(head) = History[head] \ History[base]
        BY <3>2 DEF ToRewrite
      <3>6. A = ToRewrite(head)
        BY <2>2, <3>1, <3>4, <3>5
      <3>7. QED
        BY <1>4, <3>6, LinearCount
    <2>5. QED
      BY <2>3, <2>4
  <1>5. QED
    BY <1>1, <1>3, <1>4

\* The limit is exact for every history and every limit: a call goes on with all
\* that it has to rewrite and no more than the limit, or there was more.
THEOREM LimitIsExact == Spec => []LimitExact
  <1>1. HistoryInv /\ Needed => LimitExact
    <2> SUFFICES ASSUME HistoryInv, Needed PROVE LimitExact
      OBVIOUS
    <2>1. ASSUME at = "make"
          PROVE  /\ {order[i] : i \in 1..Len(order)} = ToRewrite(head)
                 /\ Cardinality(ToRewrite(head)) <= limit
      BY <2>1, ExactlyCollected DEF HistoryInv, Ready
    <2>2. QED
      BY <2>1 DEF LimitExact, Needed, TooMany
  <1>2. QED
    BY <1>1, NeededSafety, PTL

-----------------------------------------------------------------------------
(* Ends.  The walk of a graph has no counter; that it ends follows from the *)
(* room there is, of which every commit entered takes a part for good.      *)

\* The most steps a call can be from its end.
CallLeft ==
    CASE at = "idle"    -> 0
      [] at = "update"  -> 1
      [] at = "make"    -> (Len(order) - Len(new)) + 2
      [] at = "walk"    -> (limit + 3) + (2 * ((limit + 1) - (Len(order) + Len(path))) + Len(path))

\* Every step of a call brings it nearer to its end, and no push sets it back.
CallRunsOut ==
    [][at # "idle" => \/ UNCHANGED <<at, path, order, new>>
                      \/ CallLeft' < CallLeft]_vars

\* How long path, order and new are.
LengthsFit ==
    /\ limit \in Nat /\ Len(order) \in Nat /\ Len(path) \in Nat /\ Len(new) \in Nat
    /\ Len(new) <= Len(order)
    /\ at \in {"idle", "walk", "make", "update"}
    /\ at = "walk" => Len(path) > 0 /\ Len(order) + Len(path) <= limit + 1
    /\ at \in {"make", "update"} => Len(order) <= limit

LeftFits ==
    /\ CallLeft \in 0..(3 * limit + 4)
    /\ at = "walk" => CallLeft > limit + 2
    /\ at = "make" => CallLeft = (Len(order) - Len(new)) + 2 /\ CallLeft > 1
    /\ at = "update" => CallLeft = 1
    /\ at = "idle" => CallLeft = 0
    /\ at # "idle" => CallLeft > 0

LEMMA Lengths == HistoryInv => LengthsFit
  <1> SUFFICES ASSUME HistoryInv PROVE LengthsFit
    OBVIOUS
  <1>1. TypeOK
    BY DEF HistoryInv
  <1>2. /\ limit \in Nat /\ Len(order) \in Nat /\ Len(path) \in Nat /\ Len(new) \in Nat
        /\ Len(new) <= Len(order) /\ tool \in {"linear", "graph"}
        /\ at \in {"idle", "walk", "make", "update"}
    BY <1>1, LenProperties DEF TypeOK
  <1>3. at = "walk" /\ tool = "graph" => Len(order) + Len(path) <= limit /\ Len(path) > 0
    BY <1>1, EmptySeq DEF HistoryInv, Descending, TypeOK
  <1>4. at = "walk" /\ tool = "linear" => Len(order) <= limit /\ Len(path) = 1
    BY DEF HistoryInv, Following
  <1>5. at \in {"make", "update"} => Len(order) <= limit
    BY DEF HistoryInv, Ready
  <1> DEFINE n == limit
             o == Len(order)
             p == Len(path)
  <1>6. at = "walk" => p > 0 /\ o + p <= n + 1
    <2>1. /\ n \in Nat /\ o \in Nat /\ p \in Nat
          /\ at = "walk" => (o + p <= n /\ p > 0) \/ (o <= n /\ p = 1)
      BY <1>2, <1>3, <1>4
    <2> HIDE DEF n, o, p
    <2>2. QED
      BY <2>1
  <1>7. QED
    BY <1>2, <1>5, <1>6 DEF LengthsFit

\* What is left of a walk, a making and an update, as numbers.
LEMMA LeftCounted == HistoryInv => LeftFits
  <1> SUFFICES ASSUME HistoryInv PROVE LeftFits
    OBVIOUS
  <1> DEFINE n == limit
             o == Len(order)
             p == Len(path)
             m == Len(new)
  <1>1. /\ n \in Nat /\ o \in Nat /\ p \in Nat /\ m \in Nat /\ m <= o
        /\ at \in {"idle", "walk", "make", "update"}
        /\ at = "walk" => p > 0 /\ o + p <= n + 1
        /\ at \in {"make", "update"} => o <= n
    BY Lengths DEF LengthsFit
  <1>2. /\ at = "idle" => CallLeft = 0
        /\ at = "update" => CallLeft = 1
        /\ at = "make" => CallLeft = (o - m) + 2
        /\ at = "walk" => CallLeft = (n + 3) + (2 * ((n + 1) - (o + p)) + p)
    BY DEF CallLeft
  <1> HIDE DEF n, o, p, m
  <1>3. o + p <= n + 1 /\ p > 0
           => /\ (n + 3) + (2 * ((n + 1) - (o + p)) + p) \in 0..(3 * n + 4)
              /\ (n + 3) + (2 * ((n + 1) - (o + p)) + p) > n + 2
    BY <1>1
  <1>4. o <= n => (o - m) + 2 \in 0..(3 * n + 4) /\ (o - m) + 2 > 1
    BY <1>1
  <1>5. 0 \in 0..(3 * n + 4) /\ 1 \in 0..(3 * n + 4)
    BY <1>1
  <1>6. CallLeft \in 0..(3 * n + 4)
    BY <1>1, <1>2, <1>3, <1>4, <1>5
  <1>7. (at = "walk" => CallLeft > n + 2) /\ (at = "make" => CallLeft > 1)
    BY <1>1, <1>2, <1>3, <1>4
  <1>8. at # "idle" => CallLeft > 0
    BY <1>1, <1>2, <1>7
  <1>9. QED
    BY <1>2, <1>6, <1>7, <1>8 DEF LeftFits, n, o, m

LEMMA CountedNext == HistoryInv' => LengthsFit' /\ LeftFits'
  BY Lengths, LeftCounted, PTL

LEMMA Counted ==
  ASSUME HistoryInv, HistoryInv'
  PROVE  LengthsFit /\ LengthsFit' /\ LeftFits /\ LeftFits'
  BY Lengths, LeftCounted, CountedNext

\* A walk that goes on, or is over.
LEMMA WalkComesNearer ==
  ASSUME HistoryInv, HistoryInv', at = "walk", limit' = limit, new' = <<>>,
         \/ /\ at' = "walk"
            /\ \/ Len(order') = Len(order) /\ Len(path') = Len(path) + 1
               \/ Len(order') = Len(order) + 1 /\ Len(path') \in {Len(path), Len(path) - 1}
         \/ at' = "make"
  PROVE  CallLeft' < CallLeft
  <1> DEFINE n == limit
             o == Len(order)
             p == Len(path)
             q == Len(order')
             r == Len(path')
  <1>1. CallLeft = (n + 3) + (2 * ((n + 1) - (o + p)) + p) /\ CallLeft > n + 2
    BY Counted DEF LeftFits, CallLeft
  <1>2. /\ n \in Nat /\ o \in Nat /\ p \in Nat
        /\ q \in Nat /\ r \in Nat /\ Len(new') = 0
    BY Counted, EmptySeq DEF LengthsFit
  <1>3. CASE at' = "make"
    <2>1. CallLeft' = (q - Len(new')) + 2 /\ q <= n
      BY <1>3, Counted DEF LengthsFit, LeftFits
    <2> HIDE DEF n, q
    <2>2. QED
      BY <1>1, <1>2, <2>1
  <1>4. CASE at' = "walk"
    <2>1. CallLeft' = (n + 3) + (2 * ((n + 1) - (q + r)) + r)
      BY <1>4 DEF CallLeft
    <2>2. \/ q = o /\ r = p + 1
          \/ q = o + 1 /\ r = p
          \/ q = o + 1 /\ r = p - 1
      BY <1>4
    <2> HIDE DEF n, o, p, q, r
    <2>3. QED
      BY <1>1, <1>2, <2>1, <2>2
  <1>5. QED
    BY <1>3, <1>4

LEMMA StopNearer ==
  ASSUME HistoryInv, HistoryInv', at # "idle", NEW why, Stop(why)
  PROVE  CallLeft' < CallLeft
  BY Counted DEF Stop, LeftFits

LEMMA WalkNearer ==
  ASSUME HistoryInv, HistoryInv',
         \/ Descend \/ Leave \/ Follow \/ ReachBase
         \/ WalkFails
  PROVE  CallLeft' < CallLeft
  <1>1. /\ order \in Seq(Sha) /\ path \in Seq(Sha) /\ Repository(objects)
        /\ at = "walk" /\ new = <<>>
    BY DEF HistoryInv, TypeOK, Descend, Leave, Follow, ReachBase, WalkFails
  <1>2. Last(path) \in Sha /\ Len(path) \in 1..Len(path) /\ Len(order) \in Nat
    <2>1. Len(path) > 0 /\ Len(path) \in Nat /\ Len(order) \in Nat
      BY <1>1, Lengths DEF LengthsFit
    <2>2. QED
      BY <1>1, <2>1 DEF Last
  <1>3. CASE \E why : Stop(why)
    BY <1>1, <1>3, StopNearer
  <1>4. CASE Descend /\ ~Stop("limit")
    <2>1. PICK j \in 1..Len(Parents(Last(path))) :
             /\ path' = Append(path, Parents(Last(path))[j])
             /\ UNCHANGED <<at, limit, order, new>>
      BY <1>4 DEF Descend, Waiting
    <2>2. Parents(Last(path))[j] \in Sha
      BY <1>1, <1>2, ParentFacts
    <2>3. Len(path') = Len(path) + 1
      BY <1>1, <2>1, <2>2, AppendProperties
    <2>4. QED
      BY <1>1, <2>1, <2>3, WalkComesNearer
  <1>5. CASE Leave
    <2>1. /\ order' = Append(order, Last(path)) /\ path' = SubSeq(path, 1, Len(path) - 1)
          /\ at' \in {"make", "walk"} /\ UNCHANGED <<limit, new>>
      BY <1>5 DEF Leave
    <2>2. Len(order') = Len(order) + 1
      BY <1>1, <1>2, <2>1, AppendProperties
    <2>3. Len(path') = Len(path) - 1
      <3>1. /\ \A i \in 1..(Len(path) - 1) : path[i] \in Sha
            /\ 1 \in Int /\ Len(path) - 1 \in Int
        BY <1>1, <1>2
      <3>2. Len(path') = IF 1 <= Len(path) - 1 THEN Len(path) - 1 - 1 + 1 ELSE 0
        BY <2>1, <3>1, SubSeqProperties
      <3> DEFINE p == Len(path)
                 q == Len(path')
      <3>3. p \in Nat /\ p > 0 /\ q = IF 1 <= p - 1 THEN p - 1 - 1 + 1 ELSE 0
        BY <1>2, <3>2
      <3>4. q = p - 1
        <4> HIDE DEF p, q
        <4>1. QED
          BY <3>3
      <3>5. QED
        BY <3>4
    <2>4. QED
      BY <1>1, <2>1, <2>2, <2>3, WalkComesNearer
  <1>6. CASE Follow /\ ~Stop("unrelated")
    <2>1. /\ order' = <<Last(path)>> \o order /\ at' \in {"make", "walk"} /\ tool = "linear"
          /\ UNCHANGED <<limit, new, tool>>
      BY <1>6 DEF Follow
    <2>2. Len(order') = Len(order) + 1
      <3>1. <<Last(path)>> \in Seq(Sha) /\ Len(<<Last(path)>>) = 1
        BY <1>2
      <3>2. Len(order') = 1 + Len(order)
        BY <1>1, <2>1, <3>1, ConcatProperties
      <3>3. QED
        BY <1>2, <3>2
    <2>3. Len(path) = 1 /\ (at' = "walk" => Len(path') = 1)
      BY <1>1, <2>1 DEF HistoryInv, Following
    <2>4. QED
      BY <1>1, <2>1, <2>2, <2>3, WalkComesNearer
  <1>7. CASE ReachBase
    BY <1>1, <1>7, WalkComesNearer DEF ReachBase
  <1>8. QED
    BY <1>3, <1>4, <1>5, <1>6, <1>7 DEF WalkFails

\* A rewrite of whatever history takes at most three steps for each commit its
\* limit allows, and four more; pushes that come meanwhile do not prolong it.
THEOREM RewritesEnd == Spec => [](CallLeft \in 0..(3 * limit + 4)) /\ CallRunsOut
  <1>1. HistoryInv => CallLeft \in 0..(3 * limit + 4)
    BY LeftCounted DEF LeftFits
  <1>2. HistoryInv /\ HistoryInv' /\ [Next]_vars
          => [at # "idle" => \/ UNCHANGED <<at, path, order, new>>
                             \/ CallLeft' < CallLeft]_vars
    <2> SUFFICES ASSUME HistoryInv, HistoryInv', [Next]_vars, at # "idle"
                 PROVE  \/ UNCHANGED <<at, path, order, new>>
                        \/ CallLeft' < CallLeft
      OBVIOUS
    <2>1. CASE \E why : Stop(why)
      BY <2>1, StopNearer
    <2>2. CASE Descend \/ Leave \/ Follow \/ ReachBase \/ WalkFails
      BY <2>1, <2>2, WalkNearer DEF WalkFails
    <2>3. CASE Reuse \/ Make
      <3>1. at = "make" /\ at' = "make" /\ order' = order
            /\ \E s : new' = Append(new, s)
        BY <2>3 DEF Reuse, Make
      <3>2. Len(new') = Len(new) + 1
        <4>1. PICK s : new' = Append(new, s)
          BY <3>1
        <4>2. new \in Seq(Sha \cup {s})
          BY DEF HistoryInv, TypeOK
        <4>3. QED
          BY <4>1, <4>2, AppendProperties
      <3>3. /\ CallLeft = (Len(order) - Len(new)) + 2
            /\ CallLeft' = (Len(order) - Len(new')) + 2
        BY <3>1, Counted DEF LeftFits
      <3>4. Len(order) \in Nat /\ Len(new) \in Nat
        BY Lengths DEF LengthsFit
      <3>5. QED
        BY <3>2, <3>3, <3>4
    <2>4. CASE MakeRefused \/ Report \/ Update \/ Fail
      BY <2>1, <2>4 DEF MakeRefused, Report, Update, Fail
    <2>5. CASE Recheck
      <3>1. CASE at' = "update"
        BY <2>5, <3>1, Counted DEF Recheck, LeftFits
      <3>2. CASE Stop("raced")
        BY <2>1, <3>2
      <3>3. QED
        BY <2>5, <3>1, <3>2 DEF Recheck
    <2>6. CASE (\E c \in Pushed : Push(c)) \/ UNCHANGED vars
      BY <2>6 DEF Push, vars
    <2>7. ASSUME NEW b, NEW n, NEW t, Begin(t, b, n) PROVE FALSE
      BY <2>7 DEF Begin
    <2>8. QED
      BY <2>2, <2>3, <2>4, <2>5, <2>6, <2>7 DEF Next
  <1>3. QED
    BY <1>1, <1>2, HistorySafety, PTL DEF Spec, CallRunsOut
=============================================================================
