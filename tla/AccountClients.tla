--------------------------- MODULE AccountClients ---------------------------
(***************************************************************************)
(* Provider accounts and the clients made from them.  The management       *)
(* service keeps the accounts and their credentials in SQLite, where       *)
(* administrators create, edit and delete them; the GitHub and GitLab      *)
(* servers resolve an account on every tool call, in two transactions of   *)
(* the management service, and keep one client per account, keyed by the   *)
(* account's updated_at.  What is changed is all an account has besides    *)
(* its name: alias, enabled, credential, and the settings (type, URL,      *)
(* certificate), of which only the commit that wrote them matters.         *)
(***************************************************************************)
EXTENDS Naturals

CONSTANTS
    Account,     \* identifiers; one is never used again
    Alias,       \* names an account can be given
    Thread,      \* threads of a module server that run tool calls
    Admin,       \* administrators, or callers of AccountService.update
    MaxClock,    \* bound on the time stamps drawn
    MaxCommits,  \* bound on the changes committed
    None         \* no alias, no client, nothing pending

ASSUME AccountAssumption ==
    /\ Account \cap Alias = {}
    /\ None \notin Account \cup Alias
    /\ MaxClock \in Nat /\ MaxCommits \in Nat

VARIABLES
    row,      \* the accounts' records, with the number of their last commit
    past,     \* all records there ever were
    clock,    \* time stamps drawn so far
    commits,  \* changes committed so far
    form,     \* what each administrator is about to commit
    cache,    \* _clients, _client_cache
    call      \* what each thread is doing

vars == <<row, past, clock, commits, form, cache, call>>

(***************************************************************************)
(* settings and cred are the commits that wrote the settings and the       *)
(* credential; credential 0 is the empty one.                              *)
(***************************************************************************)
Record == [account : Account, alias : Alias \cup {None}, live : BOOLEAN,
           enabled : BOOLEAN, updated : Nat, settings : Nat, cred : Nat, at : Nat]

Unborn(a) == [account |-> a, alias |-> None, live |-> FALSE, enabled |-> FALSE,
              updated |-> 0, settings |-> 0, cred |-> 0, at |-> 0]

\* columns are those the UPDATE statement will name; upsert is save().
Form == [account : Account, alias : Alias, enabled : BOOLEAN, updated : Nat,
         columns : SUBSET {"alias", "enabled", "cred"}, upsert : BOOLEAN]

\* A resolved account, and a client: the record it was made from.
Client == [account : Account, updated : Nat, settings : Nat, cred : Nat]

Step == {"idle", "credential", "client", "use"}

Call == [at : Step, selector : Account \cup Alias \cup {None}, began : Nat,
         got : Client \cup {None}]

Idle == [at |-> "idle", selector |-> None, began |-> 0, got |-> None]

Init ==
    /\ row = [a \in Account |-> Unborn(a)]
    /\ past = {Unborn(a) : a \in Account}
    /\ clock = 0 /\ commits = 0
    /\ form = [m \in Admin |-> None]
    /\ cache = [a \in Account |-> None]
    /\ call = [t \in Thread |-> Idle]

-----------------------------------------------------------------------------
(* The management service. *)

\* Aliases are unique among the records.
Free(alias, a) == \A b \in Account \ {a} : row[b].live => row[b].alias # alias

\* A transaction that makes r the record of account a.
Commit(a, r) ==
    /\ commits < MaxCommits /\ commits' = commits + 1
    /\ row' = [row EXCEPT ![a] = r]
    /\ past' = past \cup {r}

Stamp == clock < MaxClock /\ clock' = clock + 1

Create(a, alias, enabled) ==
    /\ row[a] = Unborn(a)
    /\ Free(alias, a)
    /\ Stamp
    /\ Commit(a, [account |-> a, alias |-> alias, live |-> TRUE, enabled |-> enabled,
                  updated |-> clock + 1, settings |-> commits + 1,
                  cred |-> commits + 1, at |-> commits + 1])
    /\ UNCHANGED <<form, cache, call>>

\* The form is read, the record is loaded, before_edit stamps it; the commit
\* follows.  Only what differs from the loaded record is written.
BeginEdit(m, a, alias, enabled, secret) ==
    /\ form[m] = None
    /\ row[a].live
    /\ Stamp
    /\ form' = [form EXCEPT ![m] =
            [account |-> a, alias |-> alias, enabled |-> enabled, updated |-> clock + 1,
             columns |-> {c \in {"alias"} : alias # row[a].alias}
                         \cup {c \in {"enabled"} : enabled # row[a].enabled}
                         \cup {c \in {"cred"} : secret},
             upsert |-> FALSE]]
    /\ UNCHANGED <<row, past, commits, cache, call>>

\* AccountService.update of an account got before: save writes all columns but
\* the credential, and makes the record again if it is gone.
BeginUpdate(m, a, alias, enabled) ==
    /\ form[m] = None
    /\ row[a].live /\ row[a].enabled
    /\ Stamp
    /\ form' = [form EXCEPT ![m] =
            [account |-> a, alias |-> alias, enabled |-> enabled, updated |-> clock + 1,
             columns |-> {"alias", "enabled"}, upsert |-> TRUE]]
    /\ UNCHANGED <<row, past, commits, cache, call>>

\* Mutant of Written: an edit that replaces nothing but the credential is not stamped.
WrittenUnstamped(f) ==
    LET r == row[f.account] IN
    [account |-> f.account, live |-> TRUE,
     alias |-> IF "alias" \in f.columns THEN f.alias ELSE r.alias,
     enabled |-> IF "enabled" \in f.columns THEN f.enabled ELSE r.enabled,
     cred |-> IF "cred" \in f.columns THEN commits + 1 ELSE r.cred,
     updated |-> IF f.columns = {"cred"} THEN r.updated ELSE f.updated, settings |-> commits + 1, at |-> commits + 1]

Written(f) ==
    LET r == row[f.account] IN
    [account |-> f.account, live |-> TRUE,
     alias |-> IF "alias" \in f.columns THEN f.alias ELSE r.alias,
     enabled |-> IF "enabled" \in f.columns THEN f.enabled ELSE r.enabled,
     cred |-> IF "cred" \in f.columns THEN commits + 1 ELSE r.cred,
     updated |-> f.updated, settings |-> commits + 1, at |-> commits + 1]

\* A deleted record has no credential: the one save makes again is empty.
EndEdit(m) ==
    /\ form[m] # None
    /\ form[m].upsert \/ row[form[m].account].live
    /\ Free(Written(form[m]).alias, form[m].account)
    /\ Commit(form[m].account, Written(form[m]))
    /\ form' = [form EXCEPT ![m] = None]
    /\ UNCHANGED <<clock, cache, call>>

\* Given up, or refused: the record is gone, or the alias is taken.
DropEdit(m) ==
    /\ form[m] # None
    /\ form' = [form EXCEPT ![m] = None]
    /\ UNCHANGED <<row, past, clock, commits, cache, call>>

SetCredential(a) ==
    /\ row[a].live
    /\ Commit(a, [row[a] EXCEPT !.cred = commits + 1, !.at = commits + 1])
    /\ UNCHANGED <<clock, form, cache, call>>

Delete(a) ==
    /\ row[a].live
    /\ Commit(a, [row[a] EXCEPT !.live = FALSE, !.cred = 0, !.at = commits + 1])
    /\ UNCHANGED <<clock, form, cache, call>>

-----------------------------------------------------------------------------
(* A tool call: resolve_account, then the client. *)

At(t, s) == call[t].at = s

Goto(t, c) == call' = [call EXCEPT ![t] = c]

Names(selector, r) == r.account = selector \/ r.alias = selector

Found(a, selector) == row[a].live /\ row[a].enabled /\ Names(selector, row[a])

\* repository.get; who finds nothing is refused and rests.
ReadAccount(t, selector, a) ==
    /\ At(t, "idle")
    /\ Found(a, selector)
    /\ Goto(t, [at |-> "credential", selector |-> selector, began |-> commits,
                got |-> [account |-> a, updated |-> row[a].updated,
                         settings |-> row[a].settings, cred |-> 0]])
    /\ UNCHANGED <<row, past, clock, commits, form, cache>>

\* Mutant of ReadCredential: the credential of whatever account has the name by now.
ReadCredentialAsNamed(t) ==
    /\ At(t, "credential")
    /\ \E a \in Account :
          /\ row[a].live /\ row[a].cred # 0 /\ Names(call[t].selector, row[a])
          /\ Goto(t, [call[t] EXCEPT !.at = "client", !.got.cred = row[a].cred])
    /\ UNCHANGED <<row, past, clock, commits, form, cache>>

\* repository.credential, of the account found, enabled or not
ReadCredential(t) ==
    LET r == row[call[t].got.account] IN
    /\ At(t, "credential")
    /\ \/ /\ r.live /\ r.cred # 0
          /\ Goto(t, [call[t] EXCEPT !.at = "client", !.got.cred = r.cred])
       \/ ~(r.live /\ r.cred # 0) /\ Goto(t, Idle)
    /\ UNCHANGED <<row, past, clock, commits, form, cache>>

\* Mutant of GetClient: a client of a later time stamp is good enough.
GetClientOrNewer(t) ==
    LET got == call[t].got  cached == cache[got.account] IN
    /\ At(t, "client")
    /\ \/ /\ cached # None /\ cached.updated >= got.updated
          /\ Goto(t, [call[t] EXCEPT !.at = "use", !.got = cached])
          /\ UNCHANGED cache
       \/ /\ ~(cached # None /\ cached.updated >= got.updated)
          /\ cache' = [cache EXCEPT ![got.account] = got]
          /\ Goto(t, [call[t] EXCEPT !.at = "use"])
    /\ UNCHANGED <<row, past, clock, commits, form>>

\* Under the lock: the client in the cache, or a new one.
GetClient(t) ==
    LET got == call[t].got  cached == cache[got.account] IN
    /\ At(t, "client")
    /\ \/ /\ cached # None /\ cached.updated = got.updated
          /\ Goto(t, [call[t] EXCEPT !.at = "use", !.got = cached])
          /\ UNCHANGED cache
       \/ /\ ~(cached # None /\ cached.updated = got.updated)
          /\ cache' = [cache EXCEPT ![got.account] = got]
          /\ Goto(t, [call[t] EXCEPT !.at = "use"])
    /\ UNCHANGED <<row, past, clock, commits, form>>

\* The tool is done, or the request to the management service failed.
Return(t) ==
    /\ ~At(t, "idle")
    /\ Goto(t, Idle)
    /\ UNCHANGED <<row, past, clock, commits, form, cache>>

\* The module server starts again.
Restart ==
    /\ cache' = [a \in Account |-> None]
    /\ call' = [t \in Thread |-> Idle]
    /\ UNCHANGED <<row, past, clock, commits, form>>

Next ==
    \/ \E a \in Account, alias \in Alias, enabled \in BOOLEAN :
          \/ Create(a, alias, enabled)
          \/ \E m \in Admin, secret \in BOOLEAN : BeginEdit(m, a, alias, enabled, secret)
          \/ \E m \in Admin : BeginUpdate(m, a, alias, enabled)
    \/ \E m \in Admin : EndEdit(m) \/ DropEdit(m)
    \/ \E a \in Account : SetCredential(a) \/ Delete(a)
    \/ \E t \in Thread, s \in Account \cup Alias, a \in Account : ReadAccount(t, s, a)
    \/ \E t \in Thread : ReadCredential(t) \/ GetClient(t) \/ Return(t)
    \/ Restart

Spec == Init /\ [][Next]_vars

-----------------------------------------------------------------------------
(* Properties. *)

TypeOK ==
    /\ row \in [Account -> Record] /\ past \in SUBSET Record
    /\ clock \in Nat /\ commits \in Nat
    /\ form \in [Admin -> Form \cup {None}]
    /\ cache \in [Account -> Client \cup {None}]
    /\ call \in [Thread -> Call]

\* Record r was in the table at some time since t read the account: no later
\* record of the account is as old as that.
Stood(r, t) ==
    /\ r \in past
    /\ \A q \in past : q.account = r.account /\ q.at > r.at => q.at > call[t].began

\* The settings a tool call works with are those of an enabled account that
\* the selector named at some time during this call: a call that begins after
\* an account was disabled, deleted, renamed or edited never works with what
\* it was before, whatever client a slower call leaves in the cache.
SettingsOfTheCall ==
    \A t \in Thread : At(t, "use") =>
        \E r \in past :
            /\ Stood(r, t) /\ r.live /\ r.enabled
            /\ Names(call[t].selector, r)
            /\ r.account = call[t].got.account
            /\ r.settings = call[t].got.settings

\* set_credential replaced the credential and left the time stamp u.
Replaced(a, u) ==
    \E r \in past : r.account = a /\ r.updated = u /\ r.cred = r.at /\ r.settings < r.at

\* The credential a call works with was the account's at some time during this
\* call, unless set_credential replaced one without a new time stamp: edits,
\* torn resolutions and clients cached by slower calls never bring back an old
\* credential to a call that began after it was replaced.
CredentialOfTheCall ==
    \A t \in Thread : At(t, "use") =>
        \/ \E r \in past : /\ Stood(r, t) /\ r.live
                           /\ r.account = call[t].got.account
                           /\ r.cred = call[t].got.cred
        \/ Replaced(call[t].got.account, call[t].got.updated)

\* What is cached under a time stamp was made from the record with this time
\* stamp, and from its credential or a later one of the same account.
CacheByVersion ==
    \A a \in Account : cache[a] # None =>
        \E r \in past : /\ r.account = a /\ r.live /\ r.enabled
                        /\ r.updated = cache[a].updated
                        /\ r.settings = cache[a].settings
                        /\ \/ r.cred = cache[a].cred
                           \/ \E q \in past : /\ q.account = a /\ q.live /\ q.at > r.at
                                              /\ q.cred = cache[a].cred
=============================================================================
