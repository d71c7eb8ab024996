-------------------------- MODULE ManagementProofs --------------------------
(***************************************************************************)
(* Proofs about the two parts of management, which share nothing: its      *)
(* accounts with the clients made from them, and its log of tool calls.    *)
(*                                                                         *)
(* Accounts, for any number of them, of threads and of administrators: a   *)
(* time stamp is drawn once and stands for an unbroken run of an account's *)
(* records, all with the same settings; so a client that is cached under   *)
(* the time stamp a call read has the settings it read, and a credential   *)
(* that is not older than what the call read, unless set_credential wrote  *)
(* one within the run.                                                     *)
(*                                                                         *)
(* The log, for any number of requests, cleaners and editors: what a trim  *)
(* has read was in force since it began, so its limit is one of those that *)
(* explain what it leaves.                                                 *)
(***************************************************************************)
EXTENDS AccountClients, InvocationLog, FiniteSetTheorems, TLAPS

-----------------------------------------------------------------------------
(* The inductive invariant. *)

\* The table holds the latest of an account's numbered records.
History ==
    /\ \A a \in Account : row[a] \in past /\ row[a].account = a
    /\ \A r \in past : /\ r.at <= row[r.account].at /\ r.at <= commits
                       /\ r.settings <= r.at
    /\ \A q, r \in past : q.account = r.account /\ q.at = r.at => q = r

\* A time stamp stands for a run of records that differ in their credential
\* only, and in that only if set_credential was called.
Runs ==
    /\ \A p, q, r \in past :
          /\ p.account = q.account /\ q.account = r.account
          /\ p.at <= q.at /\ q.at <= r.at /\ p.updated = r.updated
          => q.updated = p.updated
    /\ \A q, r \in past :
          /\ q.account = r.account /\ q.updated = r.updated /\ q.live /\ r.live
          => /\ q.settings = r.settings
             /\ q.cred = r.cred \/ Replaced(q.account, q.updated)

\* The time stamps on the forms are no record's yet.
Stamps ==
    /\ \A r \in past : r.updated <= clock
    /\ \A m \in Admin : form[m] # None =>
          /\ form[m].updated <= clock
          /\ \A r \in past : r.updated # form[m].updated
          /\ \A n \in Admin : form[n] # None /\ form[n].updated = form[m].updated => n = m

\* Client c was made from record r and the credential of q, not older.
Made(c, r, q) ==
    /\ r \in past /\ r.live /\ r.enabled
    /\ r.account = c.account /\ r.updated = c.updated /\ r.settings = c.settings
    /\ q \in past /\ q.live /\ q.account = c.account /\ q.at >= r.at /\ q.cred = c.cred

CacheOK ==
    \A a \in Account : cache[a] # None =>
        cache[a].account = a /\ \E r, q \in past : Made(cache[a], r, q)

\* What t read stood at the time; so did the credential, by the time it has it.
CallOK(t) ==
    /\ call[t].began <= commits
    /\ call[t].at # "idle" =>
        /\ call[t].got \in Client
        /\ \E r \in past :
              /\ Stood(r, t) /\ r.live /\ r.enabled /\ Names(call[t].selector, r)
              /\ r.account = call[t].got.account /\ r.updated = call[t].got.updated
              /\ r.settings = call[t].got.settings
              /\ At(t, "client") =>
                    \E q \in past : Stood(q, t) /\ Made(call[t].got, r, q)
    /\ At(t, "use") =>
        \/ \E q \in past : /\ Stood(q, t) /\ q.live
                           /\ q.account = call[t].got.account
                           /\ q.cred = call[t].got.cred
        \/ Replaced(call[t].got.account, call[t].got.updated)

AccountInv ==
    /\ TypeOK /\ History /\ Runs /\ Stamps /\ CacheOK
    /\ \A t \in Thread : CallOK(t)

-----------------------------------------------------------------------------
(* Types. *)

LEMMA CommitTypes ==
    ASSUME TypeOK, NEW a \in Account, NEW r \in Record, Commit(a, r)
    PROVE  row' \in [Account -> Record] /\ past' \in SUBSET Record /\ commits' \in Nat
  BY DEF TypeOK, Commit

LEMMA WrittenTypes ==
    ASSUME TypeOK, NEW f \in Form
    PROVE  f.account \in Account /\ Written(f) \in Record
  <1>1. f.account \in Account /\ f.alias \in Alias /\ f.enabled \in BOOLEAN /\ f.updated \in Nat
    BY DEF Form
  <1>2. PICK r \in Record : r = row[f.account]
    BY <1>1 DEF TypeOK
  <1>3. commits \in Nat
    BY DEF TypeOK
  <1>4. r.alias \in Alias \cup {None} /\ r.enabled \in BOOLEAN /\ r.cred \in Nat
    BY DEF Record
  <1>5. QED
    BY <1>1, <1>2, <1>3, <1>4 DEF Written, Record

LEMMA ExceptTypes ==
    \A r \in Record, c, n \in Nat :
        /\ [r EXCEPT !.cred = c, !.at = n] \in Record
        /\ [r EXCEPT !.live = FALSE, !.cred = c, !.at = n] \in Record
  BY DEF Record

LEMMA UnbornTypes == \A a \in Account : Unborn(a) \in Record
  BY DEF Unborn, Record

LEMMA GotTypes ==
    ASSUME TypeOK, NEW t \in Thread, call[t].got \in Client
    PROVE  /\ call[t] \in Call /\ call[t].got \in Client
           /\ call[t].got.account \in Account
           /\ row[call[t].got.account] \in Record
           /\ cache[call[t].got.account] \in Client \cup {None}
  <1>1. call[t] \in Call /\ call[t].got \in Client
    BY DEF TypeOK, Call
  <1>2. call[t].got.account \in Account
    BY <1>1 DEF Client
  <1>3. QED
    BY <1>1, <1>2 DEF TypeOK

\* Every variable keeps its type.
LEMMA TypesStep ==
    TypeOK /\ (\A t \in Thread : ~At(t, "idle") => call[t].got \in Client) /\ [Next]_vars => TypeOK'
  <1> SUFFICES ASSUME TypeOK, \A t \in Thread : ~At(t, "idle") => call[t].got \in Client,
                      [Next]_vars
               PROVE  TypeOK'
    OBVIOUS
  <1>1. ASSUME NEW a \in Account, NEW alias \in Alias, NEW enabled \in BOOLEAN,
               Create(a, alias, enabled)
        PROVE  TypeOK'
    <2> DEFINE r == [account |-> a, alias |-> alias, live |-> TRUE, enabled |-> enabled,
                     updated |-> clock + 1, settings |-> commits + 1,
                     cred |-> commits + 1, at |-> commits + 1]
    <2>1. r \in Record
      BY DEF Record, TypeOK
    <2>2. Commit(a, r) /\ clock' = clock + 1 /\ UNCHANGED <<form, cache, call>>
      BY <1>1 DEF Create, Stamp
    <2> HIDE DEF r
    <2>3. QED
      BY <2>1, <2>2, CommitTypes DEF TypeOK
  <1>2. ASSUME NEW m \in Admin, NEW a \in Account, NEW alias \in Alias,
               NEW enabled \in BOOLEAN,
               (\E secret \in BOOLEAN : BeginEdit(m, a, alias, enabled, secret))
               \/ BeginUpdate(m, a, alias, enabled)
        PROVE  TypeOK'
    <2>1. clock' \in Nat /\ UNCHANGED <<row, past, commits, cache, call>>
      BY <1>2 DEF BeginEdit, BeginUpdate, Stamp, TypeOK
    <2>2. \E f \in Form : form' = [form EXCEPT ![m] = f]
      <3>1. CASE BeginUpdate(m, a, alias, enabled)
        <4>1. clock \in Nat /\ {"alias", "enabled"} \in SUBSET {"alias", "enabled", "cred"}
          BY DEF TypeOK
        <4>2. [account |-> a, alias |-> alias, enabled |-> enabled, updated |-> clock + 1,
               columns |-> {"alias", "enabled"}, upsert |-> TRUE] \in Form
          BY <4>1 DEF Form
        <4>3. QED
          BY <3>1, <4>2 DEF BeginUpdate
      <3>2. ASSUME NEW secret \in BOOLEAN, BeginEdit(m, a, alias, enabled, secret)
            PROVE  \E f \in Form : form' = [form EXCEPT ![m] = f]
        <4> DEFINE columns == {c \in {"alias"} : alias # row[a].alias}
                              \cup {c \in {"enabled"} : enabled # row[a].enabled}
                              \cup {c \in {"cred"} : secret}
        <4>1. clock \in Nat /\ columns \in SUBSET {"alias", "enabled", "cred"}
          BY DEF TypeOK
        <4>2. form' = [form EXCEPT ![m] =
                  [account |-> a, alias |-> alias, enabled |-> enabled, updated |-> clock + 1,
                   columns |-> columns, upsert |-> FALSE]]
          BY <3>2 DEF BeginEdit
        <4> HIDE DEF columns
        <4>3. [account |-> a, alias |-> alias, enabled |-> enabled, updated |-> clock + 1,
               columns |-> columns, upsert |-> FALSE] \in Form
          BY <4>1 DEF Form
        <4>4. QED
          BY <4>2, <4>3
      <3>3. QED
        BY <1>2, <3>1, <3>2
    <2>3. QED
      BY <2>1, <2>2 DEF TypeOK
  <1>3. ASSUME NEW m \in Admin, EndEdit(m) \/ DropEdit(m)
        PROVE  TypeOK'
    <2>1. form' \in [Admin -> Form \cup {None}] /\ UNCHANGED <<clock, cache, call>>
      BY <1>3 DEF EndEdit, DropEdit, TypeOK
    <2>2. row' \in [Account -> Record] /\ past' \in SUBSET Record /\ commits' \in Nat
      <3>1. CASE EndEdit(m)
        <4>1. form[m] \in Form /\ Commit(form[m].account, Written(form[m]))
          BY <3>1 DEF EndEdit, TypeOK
        <4>2. QED
          BY <4>1, CommitTypes, WrittenTypes
      <3>2. CASE DropEdit(m)
        BY <3>2 DEF DropEdit, TypeOK
      <3>3. QED
        BY <1>3, <3>1, <3>2
    <2>3. QED
      BY <2>1, <2>2 DEF TypeOK
  <1>4. ASSUME NEW a \in Account, SetCredential(a) \/ Delete(a)
        PROVE  TypeOK'
    <2>1. row[a] \in Record /\ commits + 1 \in Nat /\ 0 \in Nat
      BY DEF TypeOK
    <2>2. row' \in [Account -> Record] /\ past' \in SUBSET Record /\ commits' \in Nat
      <3>1. \E r \in Record : Commit(a, r)
        <4>1. CASE SetCredential(a)
          <5>1. [row[a] EXCEPT !.cred = commits + 1, !.at = commits + 1] \in Record
            BY <2>1, ExceptTypes
          <5>2. QED
            BY <4>1, <5>1 DEF SetCredential
        <4>2. CASE Delete(a)
          <5>1. [row[a] EXCEPT !.live = FALSE, !.cred = 0, !.at = commits + 1] \in Record
            BY <2>1, ExceptTypes
          <5>2. QED
            BY <4>2, <5>1 DEF Delete
        <4>3. QED
          BY <1>4, <4>1, <4>2
      <3>2. QED
        BY <3>1, CommitTypes
    <2>3. QED
      BY <1>4, <2>2 DEF SetCredential, Delete, TypeOK
  <1>5. ASSUME NEW t \in Thread, NEW selector \in Account \cup Alias, NEW a \in Account,
               ReadAccount(t, selector, a)
        PROVE  TypeOK'
    <2> DEFINE c == [at |-> "credential", selector |-> selector, began |-> commits,
                     got |-> [account |-> a, updated |-> row[a].updated,
                              settings |-> row[a].settings, cred |-> 0]]
    <2>1. c \in Call
      BY DEF TypeOK, Record, Call, Client, Step
    <2>2. Goto(t, c) /\ UNCHANGED <<row, past, clock, commits, form, cache>>
      BY <1>5 DEF ReadAccount
    <2> HIDE DEF c
    <2>3. QED
      BY <2>1, <2>2 DEF Goto, TypeOK
  <1>6. Idle \in Call
    BY DEF Idle, Call, Step
  <1>7. ASSUME NEW t \in Thread, ReadCredential(t) \/ GetClient(t)
        PROVE  TypeOK'
    <2>1. call[t].got \in Client
      BY <1>7 DEF ReadCredential, GetClient, At
    <2> DEFINE got == call[t].got
    <2>2. got \in Client /\ call[t] \in Call
      BY <2>1, GotTypes
    <2>3. cache' \in [Account -> Client \cup {None}]
      <3>1. CASE ReadCredential(t)
        BY <3>1 DEF ReadCredential, TypeOK
      <3>2. CASE GetClient(t)
        BY <2>2, <3>2 DEF GetClient, TypeOK
      <3>3. QED
        BY <1>7, <3>1, <3>2
    <2>4. \E c \in Call : Goto(t, c)
      <3>1. CASE ReadCredential(t)
        <4>1. row[got.account].cred \in Nat
          BY <2>1, GotTypes DEF Record
        <4>2. [call[t] EXCEPT !.at = "client", !.got.cred = row[got.account].cred] \in Call
          BY <2>2, <4>1 DEF Call, Step, Client
        <4>3. QED
          BY <1>6, <3>1, <4>2 DEF ReadCredential
      <3>2. CASE GetClient(t)
        <4>1. [call[t] EXCEPT !.at = "use"] \in Call
          BY <2>2 DEF Call, Step
        <4>2. cache[got.account] # None =>
                [call[t] EXCEPT !.at = "use", !.got = cache[got.account]] \in Call
          BY <2>1, <2>2, GotTypes DEF Call, Step
        <4>3. QED
          BY <3>2, <4>1, <4>2 DEF GetClient
      <3>3. QED
        BY <1>7, <3>1, <3>2
    <2>5. UNCHANGED <<row, past, clock, commits, form>>
      BY <1>7 DEF ReadCredential, GetClient
    <2>6. QED
      BY <2>3, <2>4, <2>5 DEF TypeOK, Goto
  <1>8. ASSUME NEW t \in Thread, Return(t)
        PROVE  TypeOK'
    BY <1>6, <1>8 DEF Return, Goto, TypeOK
  <1>9. CASE Restart
    BY <1>6, <1>9 DEF Restart, TypeOK
  <1>10. CASE UNCHANGED vars
    BY <1>10 DEF vars, TypeOK
  <1>11. QED
    BY <1>1, <1>2, <1>3, <1>4, <1>5, <1>7, <1>8, <1>9, <1>10 DEF Next

-----------------------------------------------------------------------------
(* Commits. *)

\* A commit keeps the history and the runs if its record is the account's
\* next and either has a new time stamp or differs in the credential only.
LEMMA CommitKeeps ==
    ASSUME TypeOK, History, Runs, NEW a \in Account, NEW r \in Record, Commit(a, r),
           r.account = a, r.at = commits + 1, r.settings <= commits + 1,
           \/ \A q \in past : q.updated # r.updated
           \/ /\ r.updated = row[a].updated
              /\ r.live => /\ row[a].live /\ r.settings = row[a].settings
                           /\ r.settings < r.at /\ r.cred = r.at
    PROVE  History' /\ Runs'
  <1> USE DEF TypeOK, Commit
  <1>1. past \in SUBSET Record /\ commits \in Nat /\ past' = past \cup {r}
        /\ commits' = commits + 1 /\ row' = [row EXCEPT ![a] = r]
    OBVIOUS
  <1>2. \A q \in Record : q.at \in Nat /\ q.settings \in Nat /\ q.updated \in Nat
                          /\ q.account \in Account
    BY DEF Record
  <1>3. /\ row[a] \in past /\ row[a].account = a
        /\ \A q \in past : q.at <= commits
        /\ \A q \in past : q.account = a => q.at <= row[a].at
    BY <1>1, <1>2 DEF History
  <1>4. History'
    <2>1. \A b \in Account : row'[b] \in past' /\ row'[b].account = b
      BY <1>1 DEF History
    <2>2. \A q \in past' : /\ q.at <= row'[q.account].at /\ q.at <= commits'
                           /\ q.settings <= q.at
      BY <1>1, <1>2, <1>3 DEF History
    <2>3. \A q, p \in past' : q.account = p.account /\ q.at = p.at => q = p
      BY <1>1, <1>2, <1>3 DEF History
    <2>4. QED
      BY <2>1, <2>2, <2>3 DEF History
  <1>5. ASSUME NEW p \in past', NEW q \in past', NEW s \in past',
               p.account = q.account, q.account = s.account,
               p.at <= q.at, q.at <= s.at, p.updated = s.updated
        PROVE  q.updated = p.updated
    <2>1. CASE s # r
      BY <1>1, <1>2, <1>3, <1>5, <2>1 DEF Runs
    <2>2. CASE s = r /\ q = r
      BY <1>5, <2>2
    <2>3. CASE s = r /\ q # r
      <3>1. p \in past /\ q \in past
        BY <1>1, <1>2, <1>3, <1>5, <2>3
      <3>2. r.updated = row[a].updated
        BY <1>5, <2>3, <3>1
      <3>3. p.account = a /\ q.account = a /\ q.at <= row[a].at /\ p.updated = row[a].updated
        BY <1>3, <1>5, <2>3, <3>1, <3>2
      <3>4. QED
        BY <1>3, <1>5, <3>1, <3>3 DEF Runs
    <2>4. QED
      BY <2>1, <2>2, <2>3
  <1>6. \A b, u : Replaced(b, u) => Replaced(b, u)'
    BY <1>1 DEF Replaced
  <1>7. ASSUME NEW q \in past', q.account = a, q.updated = r.updated, q.live, r.live
        PROVE  q.settings = r.settings /\ (q = r \/ Replaced(a, r.updated)')
    <2>1. CASE q \in past
      <3>1. r.updated = row[a].updated /\ row[a].live /\ r.settings = row[a].settings
            /\ r.settings < r.at /\ r.cred = r.at
        BY <1>7, <2>1
      <3>2. q.settings = row[a].settings
        BY <1>3, <1>7, <2>1, <3>1 DEF Runs
      <3>3. r \in past'
        BY <1>1
      <3>4. Replaced(a, r.updated)'
        BY <3>1, <3>3 DEF Replaced
      <3>5. QED
        BY <3>1, <3>2, <3>4
    <2>2. QED
      BY <1>1, <1>7, <2>1
  <1>8. ASSUME NEW q \in past', NEW s \in past',
               q.account = s.account, q.updated = s.updated, q.live, s.live
        PROVE  q.settings = s.settings /\ (q.cred = s.cred \/ Replaced(q.account, q.updated)')
    <2>1. CASE q \in past /\ s \in past
      BY <1>6, <1>8, <2>1 DEF Runs
    <2>2. CASE s = r
      BY <1>7, <1>8, <2>2
    <2>3. CASE q = r
      BY <1>7, <1>8, <2>3
    <2>4. QED
      BY <1>1, <2>1, <2>2, <2>3
  <1>9. QED
    BY <1>4, <1>5, <1>8 DEF Runs

\* What is known of a client stays true as records are added.
LEMMA Monotone ==
    ASSUME past \subseteq past'
    PROVE  /\ \A c, r, q : Made(c, r, q) => Made(c, r, q)'
           /\ \A b, u : Replaced(b, u) => Replaced(b, u)'
  BY DEF Made, Replaced

\* Only later records are added.
Grows == /\ past \subseteq past' /\ commits <= commits'
         /\ \A q \in past' : q \in past \/ q.at > commits

\* A thread that does nothing keeps what it knows while records are added.
LEMMA CallKeeps ==
    ASSUME TypeOK, Grows, NEW t \in Thread, CallOK(t), call'[t] = call[t], commits' \in Nat,
           past' \in SUBSET Record
    PROVE  CallOK(t)'
  <1>1. /\ call[t].began \in Nat /\ commits \in Nat /\ call[t].began <= commits
        /\ \A q \in past \cup past' : q.at \in Nat
    BY DEF TypeOK, Call, Record, CallOK
  <1>2. ASSUME NEW r, Stood(r, t)
        PROVE  Stood(r, t)'
    BY <1>1, <1>2 DEF Grows, Stood
  <1>3. \A s : At(t, s)' = At(t, s)
    BY DEF At
  <1>4. \A c, r, q : Made(c, r, q) => Made(c, r, q)'
    BY Monotone DEF Grows
  <1>5. \A b, u : Replaced(b, u) => Replaced(b, u)'
    BY Monotone DEF Grows
  <1>6. PICK c : c = call[t] /\ c = call'[t]
    OBVIOUS
  <1>7. ASSUME c.at # "idle"
        PROVE  /\ c.got \in Client
               /\ \E r \in past' :
                     /\ Stood(r, t)' /\ r.live /\ r.enabled /\ Names(c.selector, r)
                     /\ r.account = c.got.account /\ r.updated = c.got.updated
                     /\ r.settings = c.got.settings
                     /\ c.at = "client" => \E q \in past' : Stood(q, t)' /\ Made(c.got, r, q)'
    <2>1. PICK r \in past : /\ Stood(r, t) /\ r.live /\ r.enabled /\ Names(c.selector, r)
                            /\ r.account = c.got.account /\ r.updated = c.got.updated
                            /\ r.settings = c.got.settings
                            /\ c.at = "client" =>
                                  \E q \in past : Stood(q, t) /\ Made(c.got, r, q)
      BY <1>6, <1>7 DEF CallOK, At
    <2>2. r \in past' /\ Stood(r, t)'
      BY <1>2, <2>1 DEF Grows
    <2>3. c.at = "client" => \E q \in past' : Stood(q, t)' /\ Made(c.got, r, q)'
      BY <1>2, <1>4, <2>1 DEF Grows
    <2>4. c.got \in Client
      BY <1>6, <1>7 DEF CallOK
    <2>5. QED
      BY <2>1, <2>2, <2>3, <2>4
  <1>8. ASSUME c.at = "use"
        PROVE  \/ \E q \in past' : /\ Stood(q, t)' /\ q.live /\ q.account = c.got.account
                                   /\ q.cred = c.got.cred
               \/ Replaced(c.got.account, c.got.updated)'
    <2>1. \/ \E q \in past : /\ Stood(q, t) /\ q.live /\ q.account = c.got.account
                             /\ q.cred = c.got.cred
          \/ Replaced(c.got.account, c.got.updated)
      BY <1>6, <1>8 DEF CallOK, At
    <2>2. QED
      BY <1>2, <1>5, <2>1 DEF Grows
  <1>9. (call[t].began)' <= commits'
    BY <1>1 DEF Grows
  <1>10. QED
    BY <1>6, <1>7, <1>8, <1>9 DEF CallOK, At

-----------------------------------------------------------------------------
(* The steps of the management service. *)

\* The calls and the cache stand every commit.
LEMMA GrowKeeps ==
    ASSUME AccountInv, TypeOK', History', Runs', Stamps', Grows, UNCHANGED <<cache, call>>
    PROVE  AccountInv'
  <1>1. ASSUME NEW t \in Thread
        PROVE  CallOK(t)'
    BY CallKeeps DEF AccountInv, TypeOK
  <1>2. CacheOK'
    <2> SUFFICES ASSUME NEW a \in Account, cache[a] # None
                 PROVE  cache[a].account = a /\ \E r, q \in past' : Made(cache[a], r, q)'
      BY DEF CacheOK
    <2>1. PICK c, r, q : c = cache[a] /\ c.account = a /\ r \in past /\ q \in past /\ Made(c, r, q)
      BY DEF AccountInv, CacheOK
    <2>2. Made(c, r, q)'
      BY <2>1, Monotone DEF Grows
    <2>3. QED
      BY <2>1, <2>2 DEF Grows, Made
  <1>3. QED
    BY <1>1, <1>2 DEF AccountInv

\* A commit of a next record that keeps the history and the stamps.
LEMMA CommitStep ==
    ASSUME AccountInv, TypeOK', NEW a \in Account, NEW r \in Record, Commit(a, r),
           r.account = a, r.at = commits + 1, r.settings <= commits + 1,
           \/ \A q \in past : q.updated # r.updated
           \/ /\ r.updated = row[a].updated
              /\ r.live => /\ row[a].live /\ r.settings = row[a].settings
                           /\ r.settings < r.at /\ r.cred = r.at,
           Stamps', UNCHANGED <<cache, call>>
    PROVE  AccountInv'
  <1>1. History' /\ Runs'
    BY CommitKeeps DEF AccountInv
  <1>2. Grows
    BY DEF Grows, Commit, AccountInv, TypeOK
  <1>3. QED
    BY <1>1, <1>2, GrowKeeps

LEMMA CreateStep ==
    ASSUME AccountInv, TypeOK', NEW a \in Account, NEW alias \in Alias,
           NEW enabled \in BOOLEAN, Create(a, alias, enabled)
    PROVE  AccountInv'
  <1> DEFINE r == [account |-> a, alias |-> alias, live |-> TRUE, enabled |-> enabled,
                   updated |-> clock + 1, settings |-> commits + 1,
                   cred |-> commits + 1, at |-> commits + 1]
  <1>1. commits \in Nat /\ clock \in Nat /\ past \in SUBSET Record
    BY DEF AccountInv, TypeOK
  <1>2. /\ r \in Record /\ r.account = a /\ r.at = commits + 1
        /\ r.settings <= commits + 1 /\ r.updated = clock + 1
    BY <1>1 DEF Record
  <1>3. Commit(a, r) /\ clock' = clock + 1 /\ UNCHANGED <<form, cache, call>>
    BY DEF Create, Stamp
  <1> HIDE DEF r
  <1>4. \A q \in past : q.updated \in Nat /\ q.updated <= clock
    BY <1>1 DEF AccountInv, Stamps, Record
  <1>5. \A m \in Admin : form[m] # None => form[m].updated \in Nat /\ form[m].updated <= clock
    BY DEF AccountInv, TypeOK, Stamps, Form
  <1>6. Stamps'
    BY <1>1, <1>2, <1>3, <1>4, <1>5 DEF AccountInv, Stamps, Commit
  <1>7. \A q \in past : q.updated # r.updated
    BY <1>1, <1>2, <1>4
  <1>8. QED
    BY <1>2, <1>3, <1>6, <1>7, CommitStep

LEMMA BeginStep ==
    ASSUME AccountInv, TypeOK', NEW m \in Admin, NEW f, f.updated = clock + 1,
           form' = [form EXCEPT ![m] = f], clock' = clock + 1,
           UNCHANGED <<row, past, commits, cache, call>>
    PROVE  AccountInv'
  <1>1. clock \in Nat /\ past \in SUBSET Record /\ form \in [Admin -> Form \cup {None}]
        /\ commits \in Nat
    BY DEF AccountInv, TypeOK
  <1>2. \A q \in past : q.updated \in Nat /\ q.updated <= clock
    BY <1>1 DEF AccountInv, Stamps, Record
  <1>3. \A n \in Admin : form[n] # None => form[n].updated \in Nat /\ form[n].updated <= clock
    BY <1>1 DEF AccountInv, Stamps, Form
  <1>4. Stamps'
    BY <1>1, <1>2, <1>3 DEF AccountInv, Stamps
  <1>5. History' /\ Runs'
    BY DEF AccountInv, History, Runs, Replaced
  <1>6. Grows
    BY <1>1 DEF Grows
  <1>7. QED
    BY <1>4, <1>5, <1>6, GrowKeeps

LEMMA EndStep ==
    ASSUME AccountInv, TypeOK', NEW m \in Admin, EndEdit(m)
    PROVE  AccountInv'
  <1> DEFINE f == form[m]  r == Written(form[m])
  <1>1. f \in Form /\ f # None /\ Commit(f.account, r) /\ form' = [form EXCEPT ![m] = None]
        /\ UNCHANGED <<clock, cache, call>>
    BY DEF EndEdit, AccountInv, TypeOK
  <1>2. r \in Record /\ f.account \in Account
    BY <1>1, WrittenTypes DEF AccountInv
  <1>3. commits \in Nat /\ form \in [Admin -> Form \cup {None}]
    BY DEF AccountInv, TypeOK
  <1>4. /\ r.account = f.account /\ r.at = commits + 1 /\ r.settings <= commits + 1
        /\ r.updated = f.updated
    BY <1>3 DEF Written
  <1>5. \A q \in past : q.updated # r.updated
    BY <1>1, <1>4 DEF AccountInv, Stamps
  <1>6. Stamps'
    <2>1. \A q \in past' : q.updated <= clock
      BY <1>1, <1>4 DEF Commit, AccountInv, Stamps
    <2>2. \A n \in Admin : form'[n] # None => n # m /\ form'[n] = form[n]
      BY <1>1, <1>3
    <2>3. \A n \in Admin : form'[n] # None => form[n].updated # r.updated
      BY <1>1, <1>4, <2>2 DEF AccountInv, Stamps
    <2>4. \A n \in Admin : form'[n] # None => \A q \in past' : q.updated # form[n].updated
      BY <1>1, <2>2, <2>3 DEF Commit, AccountInv, Stamps
    <2>5. QED
      BY <1>1, <2>1, <2>2, <2>4 DEF AccountInv, Stamps
  <1> HIDE DEF f, r
  <1>7. QED
    BY <1>1, <1>2, <1>4, <1>5, <1>6, CommitStep

LEMMA DropStep ==
    ASSUME AccountInv, TypeOK', NEW m \in Admin, DropEdit(m)
    PROVE  AccountInv'
  <1>1. form \in [Admin -> Form \cup {None}] /\ commits \in Nat
    BY DEF AccountInv, TypeOK
  <1>2. Stamps'
    BY <1>1 DEF DropEdit, AccountInv, Stamps
  <1>3. History' /\ Runs'
    BY DEF DropEdit, AccountInv, History, Runs, Replaced
  <1>4. Grows
    BY <1>1 DEF DropEdit, Grows
  <1>5. QED
    BY <1>2, <1>3, <1>4, GrowKeeps DEF DropEdit

\* set_credential and delete keep the time stamp of the record.
LEMMA UnstampedStep ==
    ASSUME AccountInv, TypeOK', NEW a \in Account, SetCredential(a) \/ Delete(a)
    PROVE  AccountInv'
  <1>1. PICK r \in Record : Commit(a, r) /\ r.account = a /\ r.at = commits + 1
                            /\ r.updated = row[a].updated /\ r.settings = row[a].settings
                            /\ (r.live => row[a].live /\ r.cred = r.at)
    <2>1. row[a] \in Record /\ commits + 1 \in Nat /\ 0 \in Nat /\ row[a].account = a
      BY DEF AccountInv, TypeOK, History
    <2>2. CASE SetCredential(a)
      <3>1. [row[a] EXCEPT !.cred = commits + 1, !.at = commits + 1] \in Record
        BY <2>1, ExceptTypes
      <3>2. QED
        BY <2>1, <2>2, <3>1 DEF SetCredential, Record
    <2>3. CASE Delete(a)
      <3>1. [row[a] EXCEPT !.live = FALSE, !.cred = 0, !.at = commits + 1] \in Record
        BY <2>1, ExceptTypes
      <3>2. QED
        BY <2>1, <2>3, <3>1 DEF Delete, Record
    <2>4. QED
      BY <2>2, <2>3
  <1>2. UNCHANGED <<clock, form, cache, call>>
    BY DEF SetCredential, Delete
  <1>3. row[a] \in past /\ row[a] \in Record /\ commits \in Nat
    BY DEF AccountInv, TypeOK, History
  <1>4. row[a].settings <= commits
    BY <1>3 DEF AccountInv, History, Record
  <1>5. r.settings <= commits + 1 /\ r.settings < r.at
    BY <1>1, <1>3, <1>4 DEF Record
  <1>6. Stamps'
    BY <1>1, <1>2, <1>3 DEF Commit, AccountInv, Stamps
  <1>7. QED
    BY <1>1, <1>2, <1>5, <1>6, CommitStep

-----------------------------------------------------------------------------
(* The steps of a call. *)

\* What a step of t has to show: the records stay, the other calls too.
LEMMA CallStep ==
    ASSUME AccountInv, TypeOK', NEW t \in Thread, NEW c, Goto(t, c),
           UNCHANGED <<row, past, clock, commits, form>>, CacheOK', CallOK(t)'
    PROVE  AccountInv'
  <1>1. History' /\ Runs' /\ Stamps'
    BY DEF AccountInv, History, Runs, Stamps, Replaced
  <1>2. Grows /\ past' \in SUBSET Record /\ commits' \in Nat
    BY DEF Grows, AccountInv, TypeOK
  <1>3. ASSUME NEW s \in Thread, s # t
        PROVE  CallOK(s)'
    <2>1. call'[s] = call[s]
      BY <1>3 DEF Goto, AccountInv, TypeOK
    <2>2. QED
      BY <1>2, <2>1, CallKeeps DEF AccountInv
  <1>4. QED
    BY <1>1, <1>3 DEF AccountInv

LEMMA ReadStep ==
    ASSUME AccountInv, TypeOK', NEW t \in Thread, NEW selector \in Account \cup Alias,
           NEW a \in Account, ReadAccount(t, selector, a)
    PROVE  AccountInv'
  <1> DEFINE c == [at |-> "credential", selector |-> selector, began |-> commits,
                   got |-> [account |-> a, updated |-> row[a].updated,
                            settings |-> row[a].settings, cred |-> 0]]
  <1>1. Goto(t, c) /\ UNCHANGED <<row, past, clock, commits, form, cache>>
    BY DEF ReadAccount
  <1>2. call'[t] = c
    BY <1>1 DEF Goto, AccountInv, TypeOK
  <1>3. PICK r \in past : r = row[a]
    BY DEF AccountInv, History
  <1>4. r.account = a /\ r.live /\ r.enabled /\ Names(selector, r)
        /\ \A q \in past : q.account = a => q.at <= r.at
    BY <1>3 DEF AccountInv, History, ReadAccount, Found
  <1>5. Stood(r, t)'
    <2>1. \A q \in past : q.at \in Nat
      BY DEF AccountInv, TypeOK, Record
    <2>2. r \in past'
      BY <1>1
    <2>3. \A q \in past' : q.account = r.account => ~(q.at > r.at)
      BY <1>1, <1>4, <2>1
    <2>4. QED
      BY <2>2, <2>3 DEF Stood
  <1>6. c.got \in Client /\ commits \in Nat
    BY DEF AccountInv, TypeOK, Record, Client
  <1>7. CallOK(t)'
    <2>1. PICK d : d = c
      OBVIOUS
    <2>2. /\ call'[t] = d /\ d.at = "credential" /\ d.began = commits /\ d.got \in Client
          /\ d.selector = selector /\ d.got.account = a /\ d.got.updated = r.updated
          /\ d.got.settings = r.settings
      BY <1>2, <1>3, <1>6, <2>1
    <2>3. r \in past' /\ commits' = commits
      BY <1>1
    <2>4. QED
      BY <1>4, <1>5, <1>6, <2>2, <2>3 DEF CallOK, At
  <1>8. CacheOK'
    BY <1>1 DEF AccountInv, CacheOK, Made
  <1> HIDE DEF c
  <1>9. QED
    BY <1>1, <1>7, <1>8, CallStep

\* A thread that goes to rest knows nothing.
LEMMA RestStep ==
    ASSUME AccountInv, TypeOK', NEW t \in Thread, Goto(t, Idle),
           UNCHANGED <<row, past, clock, commits, form, cache>>
    PROVE  AccountInv'
  <1>1. call'[t] = Idle
    BY DEF Goto, AccountInv, TypeOK
  <1>2. CallOK(t)'
    BY <1>1 DEF CallOK, At, Idle, TypeOK
  <1>3. CacheOK'
    BY DEF AccountInv, CacheOK, Made
  <1>4. QED
    BY <1>2, <1>3, CallStep

LEMMA CredentialStep ==
    ASSUME AccountInv, TypeOK', NEW t \in Thread, ReadCredential(t)
    PROVE  AccountInv'
  <1>1. PICK c : c = call[t]
    OBVIOUS
  <1>2. PICK r \in past : /\ Stood(r, t) /\ r.live /\ r.enabled /\ Names(c.selector, r)
                          /\ r.account = c.got.account /\ r.updated = c.got.updated
                          /\ r.settings = c.got.settings
    BY <1>1 DEF AccountInv, CallOK, ReadCredential, At
  <1>3. c.got \in Client /\ c \in Call /\ c.began <= commits
    BY <1>1 DEF AccountInv, CallOK, ReadCredential, At, TypeOK
  <1>4. c.got.account \in Account
    BY <1>3 DEF Client
  <1>5. PICK q \in past : q = row[c.got.account]
    BY <1>4 DEF AccountInv, History
  <1>6. q.account = c.got.account /\ \A p \in past : p.account = q.account => p.at <= q.at
    BY <1>4, <1>5 DEF AccountInv, History
  <1>7. UNCHANGED <<row, past, clock, commits, form, cache>>
    BY DEF ReadCredential
  <1>8. CacheOK'
    BY <1>7 DEF AccountInv, CacheOK, Made
  <1>9. CASE q.live /\ q.cred # 0
    <2>1. PICK d : d = [c EXCEPT !.at = "client", !.got.cred = q.cred]
      OBVIOUS
    <2>2. Goto(t, d)
      BY <1>1, <1>5, <1>9, <2>1 DEF ReadCredential
    <2>3. /\ d.at = "client" /\ d.began = c.began /\ d.selector = c.selector
          /\ d.got.account = c.got.account /\ d.got.updated = c.got.updated
          /\ d.got.settings = c.got.settings /\ d.got.cred = q.cred
      BY <1>3, <2>1 DEF Call, Client
    <2>4. d.got \in Client
      <3>1. q.cred \in Nat
        BY DEF AccountInv, TypeOK, Record
      <3>2. QED
        BY <1>3, <2>1, <3>1 DEF Call, Client
    <2>5. call'[t] = d
      BY <2>2 DEF Goto, AccountInv, TypeOK
    <2>6. Stood(r, t)' /\ Stood(q, t)'
      <3>1. \A p \in past : p.at \in Nat
        BY DEF AccountInv, TypeOK, Record
      <3>2. \A p \in past : p.account = q.account => ~(p.at > q.at)
        BY <1>6, <3>1
      <3>3. QED
        BY <1>1, <1>2, <1>7, <2>3, <2>5, <3>2 DEF Stood
    <2>7. Made(d.got, r, q)'
      <3>1. q.at >= r.at
        BY <1>2, <1>6 DEF AccountInv, TypeOK, Record
      <3>2. QED
        BY <1>2, <1>6, <1>7, <1>9, <2>3, <3>1 DEF Made
    <2>8. CallOK(t)'
      BY <1>2, <1>3, <1>7, <2>3, <2>4, <2>5, <2>6, <2>7 DEF CallOK, At
    <2>9. QED
      BY <1>7, <1>8, <2>2, <2>8, CallStep
  <1>10. CASE ~(q.live /\ q.cred # 0)
    BY <1>1, <1>5, <1>10, RestStep DEF ReadCredential
  <1>11. QED
    BY <1>9, <1>10

LEMMA ClientStep ==
    ASSUME AccountInv, TypeOK', NEW t \in Thread, GetClient(t)
    PROVE  AccountInv'
  <1>1. PICK c : c = call[t]
    OBVIOUS
  <1> DEFINE a == c.got.account  u == c.got.updated
  <1>2. PICK r \in past : /\ Stood(r, t) /\ r.live /\ r.enabled /\ Names(c.selector, r)
                          /\ r.account = a /\ r.updated = u /\ r.settings = c.got.settings
                          /\ \E q \in past : Stood(q, t) /\ Made(c.got, r, q)
    BY <1>1 DEF AccountInv, CallOK, GetClient, At
  <1>3. c.got \in Client /\ c \in Call /\ c.began <= commits
    BY <1>1 DEF AccountInv, CallOK, GetClient, At, TypeOK
  <1>4. PICK q \in past : Stood(q, t) /\ Made(c.got, r, q)
    BY <1>2
  <1>5. a \in Account
    BY <1>3 DEF Client
  <1>6. UNCHANGED <<row, past, clock, commits, form>>
    BY DEF GetClient
  <1>7. ASSUME NEW d, Goto(t, d), d.at = "use", d.began = c.began, d.selector = c.selector,
               d.got \in Client, d.got.account = a, d.got.updated = u,
               d.got.settings = c.got.settings,
               \/ \E p \in past : Stood(p, t) /\ p.live /\ p.account = a /\ p.cred = d.got.cred
               \/ Replaced(a, u)
        PROVE  CallOK(t)'
    <2>1. call'[t] = d
      BY <1>7 DEF Goto, AccountInv, TypeOK
    <2>2. ASSUME NEW p, Stood(p, t)
          PROVE  Stood(p, t)'
      BY <1>1, <1>6, <1>7, <2>1, <2>2 DEF Stood
    <2>3. Replaced(a, u) => Replaced(a, u)'
      BY <1>6, Monotone
    <2>4. Stood(r, t)' /\ r \in past'
      BY <1>2, <1>6, <2>2
    <2>5. d.began <= commits'
      BY <1>3, <1>6, <1>7
    <2>6. \/ \E p \in past' : Stood(p, t)' /\ p.live /\ p.account = a /\ p.cred = d.got.cred
          \/ Replaced(a, u)'
      BY <1>6, <1>7, <2>2, <2>3
    <2>7. \/ \E p \in past' : Stood(p, t)' /\ p.live /\ p.account = d.got.account
                              /\ p.cred = d.got.cred
          \/ Replaced(d.got.account, d.got.updated)'
      BY <1>7, <2>6
    <2>8. QED
      BY <1>2, <1>7, <2>1, <2>4, <2>5, <2>7 DEF CallOK, At
  <1>8. CASE cache[a] # None /\ cache[a].updated = u
    <2>1. PICK k, o, w : k = cache[a] /\ k.account = a /\ Made(k, o, w)
      BY <1>5, <1>8 DEF AccountInv, CacheOK
    <2>2. k \in Client /\ k.updated = u
      BY <1>5, <1>8, <2>1 DEF AccountInv, TypeOK
    <2>3. /\ o \in past /\ w \in past /\ o.at \in Nat /\ w.at \in Nat /\ r.at \in Nat
          /\ o.live /\ o.account = a /\ o.updated = u /\ o.settings = k.settings
          /\ w.live /\ w.account = a /\ w.at >= o.at /\ w.cred = k.cred
      BY <2>1, <2>2 DEF Made, AccountInv, TypeOK, Record
    <2>4. o.settings = r.settings
      BY <1>2, <2>3 DEF AccountInv, Runs
    <2>5. \/ \E p \in past : Stood(p, t) /\ p.live /\ p.account = a /\ p.cred = k.cred
          \/ Replaced(a, u)
      <3>1. CASE w.at > r.at
        <4>1. \A p \in past : p.at \in Nat
          BY DEF AccountInv, TypeOK, Record
        <4>2. Stood(w, t)
          BY <1>2, <2>3, <3>1, <4>1 DEF Stood
        <4>3. QED
          BY <2>3, <4>2
      <3>2. CASE w.at <= r.at
        <4>1. w.updated = u
          BY <1>2, <2>3, <3>2 DEF AccountInv, Runs
        <4>2. w.cred = r.cred \/ Replaced(a, u)
          BY <1>2, <2>3, <4>1 DEF AccountInv, Runs
        <4>3. QED
          BY <1>2, <2>3, <4>2
      <3>3. QED
        BY <2>3, <3>1, <3>2
    <2>6. PICK d : d = [c EXCEPT !.at = "use", !.got = k]
      OBVIOUS
    <2>7. Goto(t, d) /\ UNCHANGED cache
      BY <1>1, <1>8, <2>1, <2>6 DEF GetClient
    <2>8. d.at = "use" /\ d.began = c.began /\ d.selector = c.selector /\ d.got = k
      BY <1>3, <2>6 DEF Call
    <2>9. CallOK(t)'
      BY <1>2, <1>7, <2>1, <2>2, <2>3, <2>4, <2>5, <2>7, <2>8
    <2>10. CacheOK'
      BY <1>6, <2>7 DEF AccountInv, CacheOK, Made
    <2>11. QED
      BY <1>6, <2>7, <2>9, <2>10, CallStep
  <1>9. CASE ~(cache[a] # None /\ cache[a].updated = u)
    <2>1. PICK d : d = [c EXCEPT !.at = "use"]
      OBVIOUS
    <2>2. Goto(t, d) /\ cache' = [cache EXCEPT ![a] = c.got]
      BY <1>1, <1>9, <2>1 DEF GetClient
    <2>3. d.at = "use" /\ d.began = c.began /\ d.selector = c.selector /\ d.got = c.got
      BY <1>3, <2>1 DEF Call
    <2>4. q.live /\ q.account = a /\ q.cred = c.got.cred
      BY <1>4 DEF Made
    <2>5. CallOK(t)'
      BY <1>3, <1>4, <1>7, <2>2, <2>3, <2>4
    <2>6. Made(c.got, r, q)' /\ r \in past' /\ q \in past'
      BY <1>4, <1>6, Monotone
    <2>7. CacheOK'
      <3>1. ASSUME NEW b \in Account, cache'[b] # None
            PROVE  cache'[b].account = b /\ \E x, y \in past' : Made(cache[b], x, y)'
        <4>1. CASE b = a
          <5>1. cache'[b] = c.got
            BY <2>2, <4>1 DEF AccountInv, TypeOK
          <5>2. QED
            BY <2>6, <4>1, <5>1 DEF Made
        <4>2. CASE b # a
          <5>1. cache'[b] = cache[b]
            BY <2>2, <4>2 DEF AccountInv, TypeOK
          <5>2. QED
            BY <1>6, <3>1, <5>1 DEF AccountInv, CacheOK, Made
        <4>3. QED
          BY <4>1, <4>2
      <3>2. QED
        BY <3>1 DEF CacheOK
    <2>8. QED
      BY <1>6, <2>2, <2>5, <2>7, CallStep
  <1>10. QED
    BY <1>8, <1>9

-----------------------------------------------------------------------------
(* Theorems. *)

LEMMA AccountInit == Init => AccountInv
  <1> SUFFICES ASSUME Init
               PROVE  AccountInv
    OBVIOUS
  <1>1. TypeOK
    BY UnbornTypes DEF Init, TypeOK, Idle, Call, Step
  <1>2. History /\ Runs /\ Stamps
    <2>1. \A q \in past : /\ q.account \in Account /\ q = Unborn(q.account) /\ q.at = 0
                          /\ q.settings = 0 /\ q.updated = 0
      BY DEF Init, Unborn
    <2>2. \A a \in Account : row[a] \in past /\ row[a].account = a /\ row[a].at = 0
      BY DEF Init, Unborn
    <2>3. commits = 0 /\ clock = 0 /\ \A m \in Admin : form[m] = None
      BY DEF Init
    <2>4. History
      BY <2>1, <2>2, <2>3 DEF History
    <2>5. Runs
      BY <2>1 DEF Runs
    <2>6. Stamps
      BY <2>1, <2>3 DEF Stamps
    <2>7. QED
      BY <2>4, <2>5, <2>6
  <1>3. CacheOK /\ \A t \in Thread : CallOK(t)
    BY DEF Init, CacheOK, CallOK, Idle, At
  <1>4. QED
    BY <1>1, <1>2, <1>3 DEF AccountInv

LEMMA AccountNext == AccountInv /\ [Next]_vars => AccountInv'
  <1> SUFFICES ASSUME AccountInv, [Next]_vars
               PROVE  AccountInv'
    OBVIOUS
  <1>1. TypeOK'
    BY TypesStep DEF AccountInv, CallOK, At
  <1>2. ASSUME NEW a \in Account, NEW alias \in Alias, NEW enabled \in BOOLEAN,
               Create(a, alias, enabled)
        PROVE  AccountInv'
    BY <1>1, <1>2, CreateStep
  <1>3. ASSUME NEW m \in Admin, NEW a \in Account, NEW alias \in Alias,
               NEW enabled \in BOOLEAN, NEW secret \in BOOLEAN,
               BeginEdit(m, a, alias, enabled, secret)
        PROVE  AccountInv'
    <2>1. \E f : /\ f.updated = clock + 1 /\ form' = [form EXCEPT ![m] = f]
                 /\ clock' = clock + 1 /\ UNCHANGED <<row, past, commits, cache, call>>
      BY <1>3 DEF BeginEdit, Stamp
    <2>2. QED
      BY <1>1, <2>1, BeginStep
  <1>4. ASSUME NEW m \in Admin, NEW a \in Account, NEW alias \in Alias,
               NEW enabled \in BOOLEAN, BeginUpdate(m, a, alias, enabled)
        PROVE  AccountInv'
    <2>1. \E f : /\ f.updated = clock + 1 /\ form' = [form EXCEPT ![m] = f]
                 /\ clock' = clock + 1 /\ UNCHANGED <<row, past, commits, cache, call>>
      BY <1>4 DEF BeginUpdate, Stamp
    <2>2. QED
      BY <1>1, <2>1, BeginStep
  <1>5. ASSUME NEW m \in Admin, EndEdit(m) \/ DropEdit(m)
        PROVE  AccountInv'
    BY <1>1, <1>5, EndStep, DropStep
  <1>6. ASSUME NEW a \in Account, SetCredential(a) \/ Delete(a)
        PROVE  AccountInv'
    BY <1>1, <1>6, UnstampedStep
  <1>7. ASSUME NEW t \in Thread, NEW s \in Account \cup Alias, NEW a \in Account,
               ReadAccount(t, s, a)
        PROVE  AccountInv'
    BY <1>1, <1>7, ReadStep
  <1>8. ASSUME NEW t \in Thread, ReadCredential(t) \/ GetClient(t)
        PROVE  AccountInv'
    BY <1>1, <1>8, CredentialStep, ClientStep
  <1>9. ASSUME NEW t \in Thread, Return(t)
        PROVE  AccountInv'
    BY <1>1, <1>9, RestStep DEF Return
  <1>10. CASE Restart
    <2>1. History' /\ Runs' /\ Stamps' /\ CacheOK'
      BY <1>10 DEF Restart, AccountInv, History, Runs, Stamps, Replaced, CacheOK
    <2>2. commits' \in Nat
      BY <1>1 DEF TypeOK
    <2>3. \A t \in Thread : CallOK(t)'
      BY <1>10, <2>2 DEF Restart, CallOK, At, Idle
    <2>4. QED
      BY <1>1, <2>1, <2>3 DEF AccountInv
  <1>11. CASE UNCHANGED vars
    <2>1. UNCHANGED <<row, past, clock, commits, form, cache, call>>
      BY <1>11 DEF vars
    <2>2. History' /\ Runs' /\ Stamps'
      BY <2>1 DEF AccountInv, History, Runs, Stamps, Replaced
    <2>3. Grows
      BY <2>1 DEF Grows, AccountInv, TypeOK
    <2>4. QED
      BY <1>1, <2>1, <2>2, <2>3, GrowKeeps
  <1>12. QED
    BY <1>2, <1>3, <1>4, <1>5, <1>6, <1>7, <1>8, <1>9, <1>10, <1>11 DEF Next

\* The inductive invariant: time stamps stand for unbroken runs of an account's
\* records, and every client and every call is explained by records of a run.
THEOREM AccountSafety == Spec => []AccountInv
  BY AccountInit, AccountNext, PTL DEF Spec

\* The variables of the accounts and of the caches keep their types.
THEOREM AccountTypes == Spec => []TypeOK
  <1>1. AccountInv => TypeOK
    BY DEF AccountInv
  <1>2. QED
    BY <1>1, AccountSafety, PTL

\* Whatever the slower calls leave in the cache, a call works with settings the
\* account had, enabled and under the name asked for, while the call went on.
THEOREM SettingsFresh == Spec => []SettingsOfTheCall
  <1>1. AccountInv => SettingsOfTheCall
    BY DEF AccountInv, CallOK, SettingsOfTheCall, At
  <1>2. QED
    BY <1>1, AccountSafety, PTL

\* A call works with a credential the account had while the call went on,
\* unless set_credential replaced one and left the time stamp.
THEOREM CredentialFresh == Spec => []CredentialOfTheCall
  <1>1. AccountInv => CredentialOfTheCall
    BY DEF AccountInv, CallOK, CredentialOfTheCall
  <1>2. QED
    BY <1>1, AccountSafety, PTL

\* What is cached under a time stamp was made from the record with this time
\* stamp, and from its credential or a later one.
THEOREM CacheExplained == Spec => []CacheByVersion
  <1>1. AccountInv => CacheByVersion
    <2> SUFFICES ASSUME AccountInv, NEW a \in Account, cache[a] # None
                 PROVE  \E r \in past :
                          /\ r.account = a /\ r.live /\ r.enabled
                          /\ r.updated = cache[a].updated /\ r.settings = cache[a].settings
                          /\ \/ r.cred = cache[a].cred
                             \/ \E q \in past : /\ q.account = a /\ q.live /\ q.at > r.at
                                                /\ q.cred = cache[a].cred
      BY DEF CacheByVersion
    <2>1. PICK r, q \in past : cache[a].account = a /\ Made(cache[a], r, q)
      BY DEF AccountInv, CacheOK
    <2>2. /\ r.account = a /\ r.live /\ r.enabled /\ r.updated = cache[a].updated
          /\ r.settings = cache[a].settings
          /\ q.live /\ q.account = a /\ q.at >= r.at /\ q.cred = cache[a].cred
      BY <2>1 DEF Made
    <2>3. q = r \/ q.at > r.at
      <3>1. q.at \in Nat /\ r.at \in Nat
        BY DEF AccountInv, TypeOK, Record
      <3>2. q.at = r.at => q = r
        BY <2>2 DEF AccountInv, History
      <3>3. QED
        BY <2>2, <3>1, <3>2
    <2>4. QED
      BY <2>2, <2>3
  <1>2. QED
    BY <1>1, AccountSafety, PTL

-----------------------------------------------------------------------------
(* The log of tool calls. *)

\* What a worker has read was in force since it began, and what is in force now
\* has been noted.
WorkerSafe(w) ==
    /\ stage[w] \in {"received", "checked"} => config \in since[w]
    /\ stage[w] = "checked" => read[w] \in since[w]
    /\ stage[w] = "checked" /\ w \in Event => read[w].enabled

LogSafe == LogTypeOK /\ LogBounded /\ \A w \in Worker : WorkerSafe(w)

LEMMA LogFinite ==
  ASSUME NEW S \in SUBSET Entry
  PROVE  /\ IsFiniteSet(S) /\ Cardinality(S) \in Nat
         /\ \A T \in SUBSET S : Cardinality(T) <= Cardinality(S)
  <1>1. IsFiniteSet(Entry)
    BY LogAssumption, FS_Union DEF Entry
  <1>2. IsFiniteSet(S)
    BY <1>1, FS_Subset
  <1>3. QED
    BY <1>2, FS_Subset, FS_CardinalityType

LEMMA LimitType == \A k \in Settings : Limit(k) \in Nat
  BY LogAssumption DEF Limit, Settings

\* What a trim keeps: no more than the limit.
LEMMA TrimmedFacts ==
  ASSUME NEW R \in SUBSET Entry, NEW k \in Settings, NEW K, Trimmed(R, k, K)
  PROVE  /\ K \in SUBSET R
         /\ Cardinality(K) <= Limit(k)
  <1>1. Limit(k) \in Nat
    BY LimitType
  <1>2. QED
    BY <1>1 DEF Trimmed

LEMMA CallToolLog ==
  ASSUME NEW e \in Event, LogSafe, CallTool(e)
  PROVE  LogSafe'
  <1> USE LogAssumption
  <1>1. LogTypeOK'
    BY DEF CallTool, Move, LogSafe, LogTypeOK, Worker, Stage,
       settings, table, time
  <1>2. LogBounded'
    BY DEF CallTool, Move, LogSafe, LogBounded, table
  <1>3. ASSUME NEW v \in Worker PROVE WorkerSafe(v)'
    BY DEF CallTool, Move, LogSafe, LogTypeOK, WorkerSafe, Worker, Stage, settings
  <1>4. QED
    BY <1>1, <1>2, <1>3 DEF LogSafe

LEMMA FinishLog ==
  ASSUME NEW e \in Event, LogSafe, Finish(e)
  PROVE  LogSafe'
  <1> USE LogAssumption
  <1>1. LogTypeOK'
    BY DEF Finish, Move, LogSafe, LogTypeOK, Worker, Stage,
       settings, table, time
  <1>2. LogBounded'
    BY DEF Finish, Move, LogSafe, LogBounded, table
  <1>3. ASSUME NEW v \in Worker PROVE WorkerSafe(v)'
    BY DEF Finish, Move, LogSafe, LogTypeOK, WorkerSafe, Worker, Stage, settings
  <1>4. QED
    BY <1>1, <1>2, <1>3 DEF LogSafe

LEMMA CancelLog ==
  ASSUME NEW e \in Event, LogSafe, Cancel(e)
  PROVE  LogSafe'
  <1> USE LogAssumption
  <1>1. LogTypeOK'
    BY DEF Cancel, Move, LogSafe, LogTypeOK, Worker, Stage,
       settings, table, time
  <1>2. LogBounded'
    BY DEF Cancel, Move, LogSafe, LogBounded, table
  <1>3. ASSUME NEW v \in Worker PROVE WorkerSafe(v)'
    BY DEF Cancel, Move, LogSafe, LogTypeOK, WorkerSafe, Worker, Stage, settings
  <1>4. QED
    BY <1>1, <1>2, <1>3 DEF LogSafe

LEMMA AnswerLog ==
  ASSUME NEW e \in Event, LogSafe, Answer(e)
  PROVE  LogSafe'
  <1> USE LogAssumption
  <1>1. LogTypeOK'
    BY DEF Answer, LogSafe, LogTypeOK, Worker, Stage,
       settings, table, time
  <1>2. LogBounded'
    BY DEF Answer, LogSafe, LogBounded, table
  <1>3. ASSUME NEW v \in Worker PROVE WorkerSafe(v)'
    BY DEF Answer, LogSafe, LogTypeOK, WorkerSafe, Worker, Stage, settings
  <1>4. QED
    BY <1>1, <1>2, <1>3 DEF LogSafe

LEMMA GiveUpLog ==
  ASSUME NEW e \in Event, LogSafe, GiveUp(e)
  PROVE  LogSafe'
  <1> USE LogAssumption
  <1>1. LogTypeOK'
    BY DEF GiveUp, LogSafe, LogTypeOK, Worker, Stage,
       settings, table, time
  <1>2. LogBounded'
    BY DEF GiveUp, LogSafe, LogBounded, table
  <1>3. ASSUME NEW v \in Worker PROVE WorkerSafe(v)'
    BY DEF GiveUp, LogSafe, LogTypeOK, WorkerSafe, Worker, Stage, settings
  <1>4. QED
    BY <1>1, <1>2, <1>3 DEF LogSafe

LEMMA ReceiveLog ==
  ASSUME NEW e \in Event, LogSafe, Receive(e)
  PROVE  LogSafe'
  <1> USE LogAssumption
  <1>1. LogTypeOK'
    <2>1. LogTypeOK /\ e \in Worker /\ e \in Entry
      BY DEF LogSafe, Worker, Entry
    <2>2. stage' \in [Worker -> Stage]
      BY <2>1 DEF Receive, Move, LogTypeOK, Stage
    <2>3. at' \in [Entry -> Nat] /\ now' \in Nat
      BY <2>1 DEF Receive, LogTypeOK
    <2>4. since' \in [Worker -> SUBSET Settings]
      BY <2>1 DEF Receive, LogTypeOK
    <2>5. QED
      BY <2>1, <2>2, <2>3, <2>4 DEF Receive, LogTypeOK, settings, table
  <1>2. LogBounded'
    BY DEF Receive, Move, LogSafe, LogBounded, table
  <1>3. ASSUME NEW v \in Worker PROVE WorkerSafe(v)'
    BY DEF Receive, Move, LogSafe, LogTypeOK, WorkerSafe, Worker, Stage, settings
  <1>4. QED
    BY <1>1, <1>2, <1>3 DEF LogSafe

LEMMA ReadForAppendLog ==
  ASSUME NEW e \in Event, LogSafe, ReadForAppend(e)
  PROVE  LogSafe'
  <1> USE LogAssumption
  <1>1. LogTypeOK'
    <2>1. LogTypeOK /\ e \in Worker /\ config \in Settings
      BY DEF LogSafe, LogTypeOK, Worker
    <2>2. stage' \in [Worker -> Stage]
      BY <2>1 DEF ReadForAppend, Move, Done, LogTypeOK, Stage
    <2>3. read' \in [Worker -> Settings \cup {Nothing}]
      BY <2>1 DEF ReadForAppend, Done, LogTypeOK
    <2>4. since' \in [Worker -> SUBSET Settings]
      BY <2>1 DEF ReadForAppend, Done, LogTypeOK
    <2>5. QED
      BY <2>1, <2>2, <2>3, <2>4
      DEF ReadForAppend, LogTypeOK, settings, table, time
  <1>2. LogBounded'
    BY DEF ReadForAppend, Move, Done, LogSafe, LogBounded, table
  <1>3. ASSUME NEW v \in Worker PROVE WorkerSafe(v)'
    BY DEF ReadForAppend, Move, Done, LogSafe, LogTypeOK, WorkerSafe, Worker,
       Stage, settings
  <1>4. QED
    BY <1>1, <1>2, <1>3 DEF LogSafe

LEMMA FailLog ==
  ASSUME NEW e \in Event, LogSafe, Fail(e)
  PROVE  LogSafe'
  <1> USE LogAssumption
  <1>1. LogTypeOK'
    BY DEF Fail, Done, Move, LogSafe, LogTypeOK, Worker, Stage,
       settings, table, time
  <1>2. LogBounded'
    BY DEF Fail, Done, Move, LogSafe, LogBounded, table
  <1>3. ASSUME NEW v \in Worker PROVE WorkerSafe(v)'
    BY DEF Fail, Done, Move, LogSafe, LogTypeOK, WorkerSafe, Worker, Stage, settings
  <1>4. QED
    BY <1>1, <1>2, <1>3 DEF LogSafe

LEMMA ReadForCleanupLog ==
  ASSUME NEW w \in Cleaner, LogSafe, ReadForCleanup(w)
  PROVE  LogSafe'
  <1> USE LogAssumption
  <1>1. LogTypeOK'
    <2>1. LogTypeOK /\ w \in Worker /\ config \in Settings
      BY DEF LogSafe, LogTypeOK, Worker
    <2>2. stage' \in [Worker -> Stage]
      BY <2>1 DEF ReadForCleanup, Move, LogTypeOK, Stage
    <2>3. read' \in [Worker -> Settings \cup {Nothing}]
      BY <2>1 DEF ReadForCleanup, LogTypeOK
    <2>4. since' \in [Worker -> SUBSET Settings]
      BY <2>1 DEF ReadForCleanup, LogTypeOK
    <2>5. QED
      BY <2>1, <2>2, <2>3, <2>4
      DEF ReadForCleanup, LogTypeOK, settings, table, time
  <1>2. LogBounded'
    BY DEF ReadForCleanup, Move, LogSafe, LogBounded, table
  <1>3. ASSUME NEW v \in Worker PROVE WorkerSafe(v)'
    BY DEF ReadForCleanup, Move, LogSafe, LogTypeOK, WorkerSafe, Worker, Stage, settings
  <1>4. QED
    BY <1>1, <1>2, <1>3 DEF LogSafe

LEMMA CleanupFailLog ==
  ASSUME NEW w \in Cleaner, LogSafe, CleanupFail(w)
  PROVE  LogSafe'
  <1> USE LogAssumption
  <1>1. LogTypeOK'
    BY DEF CleanupFail, Done, Move, LogSafe, LogTypeOK, Worker, Stage,
       settings, table, time
  <1>2. LogBounded'
    BY DEF CleanupFail, Done, Move, LogSafe, LogBounded, table
  <1>3. ASSUME NEW v \in Worker PROVE WorkerSafe(v)'
    BY DEF CleanupFail, Done, Move, LogSafe, LogTypeOK, WorkerSafe, Worker, Stage, settings
  <1>4. QED
    BY <1>1, <1>2, <1>3 DEF LogSafe

LEMMA ShutdownLog ==
  ASSUME LogSafe, Shutdown
  PROVE  LogSafe'
  <1>1. LogTypeOK'
    BY DEF Shutdown, LogSafe, LogTypeOK, Stage, settings, table, time
  <1>2. LogBounded'
    BY DEF Shutdown, LogSafe, LogBounded, table
  <1>3. ASSUME NEW v \in Worker PROVE WorkerSafe(v)'
    BY DEF Shutdown, LogSafe, LogTypeOK, WorkerSafe, settings
  <1>4. QED
    BY <1>1, <1>2, <1>3 DEF LogSafe

LEMMA ElapseLog ==
  ASSUME LogSafe, Elapse
  PROVE  LogSafe'
  <1>1. LogTypeOK'
    BY DEF Elapse, LogSafe, LogTypeOK, settings, table
  <1>2. LogBounded' /\ \A v \in Worker : WorkerSafe(v)'
    BY DEF Elapse, LogSafe, LogBounded, WorkerSafe, settings, table
  <1>3. QED
    BY <1>1, <1>2 DEF LogSafe

LEMMA RemoveLog ==
  ASSUME LogSafe, RemoveRecords
  PROVE  LogSafe'
  <1>1. log' \in SUBSET log /\ payloads' \subseteq log'
    BY DEF RemoveRecords
  <1>2. LogTypeOK'
    BY <1>1 DEF RemoveRecords, LogSafe, LogTypeOK, settings, time
  <1>3. LogBounded'
    <2>1. PICK l \in explained : Cardinality(log) <= l
      BY DEF LogSafe, LogBounded
    <2>2. log \in SUBSET Entry /\ l \in Nat
      BY DEF LogSafe, LogTypeOK
    <2>3. Cardinality(log') <= Cardinality(log) /\ Cardinality(log) \in Nat
      BY <1>1, <2>2, LogFinite
    <2>4. Cardinality(log') \in Nat
      BY <1>1, <2>2, LogFinite
    <2>5. QED
      BY <2>1, <2>2, <2>3, <2>4 DEF RemoveRecords, LogBounded
  <1>4. ASSUME NEW v \in Worker PROVE WorkerSafe(v)'
    BY DEF RemoveRecords, LogSafe, WorkerSafe, settings
  <1>5. QED
    BY <1>2, <1>3, <1>4 DEF LogSafe

LEMMA LoadSettingsLog ==
  ASSUME NEW a \in Editor, NEW k \in Choice, LogSafe, LoadSettings(a, k)
  PROVE  LogSafe'
  <1>1. LogTypeOK'
    BY DEF LoadSettings, LogSafe, LogTypeOK, table, time
  <1>2. LogBounded' /\ \A v \in Worker : WorkerSafe(v)'
    BY DEF LoadSettings, LogSafe, LogBounded, WorkerSafe, table
  <1>3. QED
    BY <1>1, <1>2 DEF LogSafe

\* A form changes some columns of the row and leaves the others.
LEMMA UpdatedType ==
  ASSUME LogSafe, NEW a \in Editor, editing[a] # Nothing
  PROVE  Updated(editing[a]) \in Settings
  <1>1. /\ config \in Settings /\ editing[a].form \in Settings
    BY LogAssumption DEF LogSafe, LogTypeOK
  <1>2. DOMAIN config = {"enabled", "capture", "limit"}
    BY <1>1 DEF Settings
  <1>3. QED
    BY <1>1, <1>2 DEF Updated, Settings

LEMMA SaveSettingsLog ==
  ASSUME NEW a \in Editor, LogSafe, SaveSettings(a)
  PROVE  LogSafe'
  <1>1. config' \in Settings
    BY UpdatedType DEF SaveSettings
  <1>2. LogTypeOK'
    <2>1. Limit(config') \in Nat
      BY <1>1, LimitType
    <2>2. editing' \in [Editor -> [loaded : Settings, form : Choice] \cup {Nothing}]
      BY DEF SaveSettings, LogSafe, LogTypeOK
    <2>3. since' \in [Worker -> SUBSET Settings]
      BY <1>1 DEF SaveSettings, LogSafe, LogTypeOK
    <2>4. QED
      BY <1>1, <2>1, <2>2, <2>3 DEF SaveSettings, LogSafe, LogTypeOK, time
  <1>3. LogBounded'
    BY DEF SaveSettings, LogSafe, LogBounded
  <1>4. ASSUME NEW v \in Worker PROVE WorkerSafe(v)'
    BY DEF SaveSettings, LogSafe, LogTypeOK, WorkerSafe
  <1>5. QED
    BY <1>2, <1>3, <1>4 DEF LogSafe

\* The transaction of an append or a cleanup by w, of the records R.
LEMMA TrimLogSafe ==
  ASSUME LogSafe, NEW w \in Worker, stage[w] = "checked",
         NEW R \in SUBSET Entry, Trimmed(R, read[w], log'),
         payloads' \subseteq log', explained' = Limits(since[w]),
         NEW s \in {"idle", "closed"}, Done(w, s),
         UNCHANGED <<settings, pending, time>>
  PROVE  LogSafe'
  <1>1. read[w] \in since[w] /\ since[w] \in SUBSET Settings
    BY DEF LogSafe, WorkerSafe, LogTypeOK
  <1>2. log' \in SUBSET R /\ Cardinality(log') <= Limit(read[w])
    BY <1>1, TrimmedFacts DEF LogSafe
  <1>3. explained' \in SUBSET Nat /\ Limit(read[w]) \in explained'
    BY <1>1, LimitType DEF Limits
  <1>4. LogTypeOK'
    BY <1>2, <1>3 DEF Done, Move, LogSafe, LogTypeOK, Stage, settings, time
  <1>5. LogBounded'
    BY <1>2, <1>3 DEF LogBounded
  <1>6. ASSUME NEW v \in Worker PROVE WorkerSafe(v)'
    BY DEF Done, Move, LogSafe, LogTypeOK, WorkerSafe, settings
  <1>7. QED
    BY <1>4, <1>5, <1>6 DEF LogSafe

LEMMA AppendLog ==
  ASSUME NEW e \in Event, LogSafe, Append(e)
  PROVE  LogSafe'
  <1>1. log \cup {e} \in SUBSET Entry /\ e \in Worker
    BY DEF LogSafe, LogTypeOK, Entry, Worker
  <1>2. Trimmed(log \cup {e}, read[e], log') /\ payloads' \subseteq log'
    BY DEF Append
  <1>3. QED
    BY <1>1, <1>2, TrimLogSafe DEF Append

LEMMA CleanupLog ==
  ASSUME NEW w \in Cleaner, LogSafe, Cleanup(w)
  PROVE  LogSafe'
  <1>1. log \in SUBSET Entry /\ w \in Worker
    BY DEF LogSafe, LogTypeOK, Worker
  <1>2. Trimmed(log, read[w], log') /\ payloads' \subseteq log'
    BY DEF Cleanup
  <1>3. QED
    BY <1>1, <1>2, TrimLogSafe DEF Cleanup

\* The invariant of the log.
THEOREM LogSafety == LogSpec => []LogSafe
  <1>1. LogInit => LogSafe
    <2> SUFFICES ASSUME LogInit PROVE LogSafe
      OBVIOUS
    <2>1. Limit(Initial) \in Nat
      BY LogAssumption, LimitType
    <2>2. LogTypeOK
      BY <2>1, LogAssumption DEF LogInit, LogTypeOK, Entry, Stage
    <2>3. LogBounded /\ \A w \in Worker : WorkerSafe(w)
      BY LogAssumption DEF LogInit, LogBounded, WorkerSafe
    <2>4. QED
      BY <2>2, <2>3 DEF LogSafe
  <1>2. LogSafe /\ [LogNext]_logVars => LogSafe'
    <2> SUFFICES ASSUME LogSafe, [LogNext]_logVars PROVE LogSafe'
      OBVIOUS
    <2>1. CASE UNCHANGED logVars
      BY <2>1 DEF logVars, LogSafe, LogTypeOK, LogBounded, WorkerSafe, settings,
           table, time
    <2>2. ASSUME NEW e \in Event,
                 \/ CallTool(e) \/ Finish(e) \/ Cancel(e) \/ Answer(e) \/ GiveUp(e)
                 \/ Receive(e) \/ ReadForAppend(e) \/ Append(e) \/ Fail(e)
          PROVE  LogSafe'
      BY <2>2, CallToolLog, FinishLog, CancelLog, AnswerLog, GiveUpLog, ReceiveLog,
         ReadForAppendLog, AppendLog, FailLog
    <2>3. ASSUME NEW w \in Cleaner,
                 ReadForCleanup(w) \/ Cleanup(w) \/ CleanupFail(w)
          PROVE  LogSafe'
      BY <2>3, ReadForCleanupLog, CleanupLog, CleanupFailLog
    <2>4. ASSUME NEW a \in Editor,
                 SaveSettings(a) \/ \E k \in Choice : LoadSettings(a, k)
          PROVE  LogSafe'
      BY <2>4, SaveSettingsLog, LoadSettingsLog
    <2>5. QED
      BY <2>1, <2>2, <2>3, <2>4, ShutdownLog, RemoveLog, ElapseLog DEF LogNext
  <1>3. QED
    BY <1>1, <1>2, PTL DEF LogSpec

\* Every variable of the log keeps its type.
THEOREM LogTypes == LogSpec => []LogTypeOK
  <1>1. LogSafe => LogTypeOK
    BY DEF LogSafe
  <1>2. QED
    BY <1>1, LogSafety, PTL

\* The log keeps to a limit in force.
THEOREM LogKeepsLimit == LogSpec => []LogBounded
  <1>1. LogSafe => LogBounded
    BY DEF LogSafe
  <1>2. QED
    BY <1>1, LogSafety, PTL

\* Only what the settings allow is recorded.
THEOREM OnlyAllowed == LogSpec => RecordsAllowed
  <1> DEFINE Allowed ==
        \A e \in log' \ log :
           \E k \in since[e] : k.enabled /\ (e \in payloads' => k.capture)
  <1>1. LogSafe /\ [LogNext]_logVars => [Allowed]_logVars
    <2> SUFFICES ASSUME LogSafe, LogNext PROVE Allowed
      OBVIOUS
    <2>1. ASSUME NEW e \in Event, Append(e) PROVE Allowed
      <3>1. /\ log' \subseteq log \cup {e} /\ stage[e] = "checked"
            /\ payloads' \subseteq payloads \cup (IF read[e].capture THEN {e} ELSE {})
        BY <2>1 DEF Append
      <3>2. read[e] \in since[e] /\ read[e].enabled /\ payloads \subseteq log
        BY <3>1 DEF LogSafe, LogTypeOK, WorkerSafe, Worker
      <3>3. QED
        BY <3>1, <3>2
    <2>2. ASSUME NEW e \in Event,
                 \/ CallTool(e) \/ Finish(e) \/ Cancel(e) \/ Answer(e) \/ GiveUp(e)
                 \/ Receive(e) \/ ReadForAppend(e) \/ Fail(e)
          PROVE  Allowed
      BY <2>2 DEF CallTool, Finish, Cancel, Answer, GiveUp, Receive, ReadForAppend,
           Fail, table
    <2>3. ASSUME NEW w \in Cleaner,
                 ReadForCleanup(w) \/ Cleanup(w) \/ CleanupFail(w)
          PROVE  Allowed
      BY <2>3 DEF ReadForCleanup, Cleanup, CleanupFail, table
    <2>4. ASSUME NEW a \in Editor,
                 SaveSettings(a) \/ \E k \in Choice : LoadSettings(a, k)
          PROVE  Allowed
      BY <2>4 DEF SaveSettings, LoadSettings, table
    <2>5. CASE Shutdown \/ RemoveRecords \/ Elapse
      BY <2>5 DEF Shutdown, RemoveRecords, Elapse, table
    <2>6. QED
      BY <2>1, <2>2, <2>3, <2>4, <2>5 DEF LogNext
  <1>2. QED
    BY <1>1, LogSafety, PTL DEF LogSpec, RecordsAllowed
=============================================================================
