---------------------------- MODULE InvocationLog ----------------------------
(***************************************************************************)
(* The log of tool calls.  The telemetry middleware of a module server     *)
(* hands the event of a finished call to a task of its own and forgets the *)
(* call; with too many tasks under way it drops the event.  A task posts   *)
(* its event once to management, which dates it on arrival, reads the      *)
(* configuration, and inserts the record and trims the log in one          *)
(* transaction.  The maintenance loop and the Settings page trim the log   *)
(* too; administrators change the settings, clear the log and delete       *)
(* records.                                                                *)
(*                                                                         *)
(* The SQLite driver begins a transaction at its first INSERT, UPDATE or   *)
(* DELETE: what a session read before that may have changed by then.       *)
(* Retention is one length of time for all settings, and horizon the time  *)
(* it reaches back to.  The configuration row is there from the start: the *)
(* runtime reads, and so makes, it before it serves anybody.               *)
(***************************************************************************)
EXTENDS Naturals, FiniteSets

CONSTANTS
    Event,       \* tool calls, and so their events
    Past,        \* records in the log at the start
    Cleaner,     \* the maintenance loop, the button of the Settings page
    Loop,        \* the former
    Editor,      \* administrators saving the Settings form
    Choice,      \* what they submit: [enabled, capture, limit]
    Initial,     \* the configuration at the start
    MaxPending,  \* _MAX_PENDING_EVENTS
    Floor,       \* the limit below which the number of records is not trimmed
    Nothing      \* no configuration read yet, no form being saved

Worker == Event \cup Cleaner
Entry == Event \cup Past
Settings == [enabled : BOOLEAN, capture : BOOLEAN, limit : Nat]

\* max(config.logging_max_records, 100)
Limit(k) == IF k.limit > Floor THEN k.limit ELSE Floor

ASSUME LogAssumption ==
    /\ Choice \subseteq Settings /\ Initial \in Settings
    /\ MaxPending \in Nat \ {0} /\ Floor \in Nat
    /\ Nothing \notin Settings
    /\ IsFiniteSet(Event) /\ IsFiniteSet(Past)
    /\ Cardinality(Past) <= Limit(Initial)
    /\ Event \cap Past = {} /\ Event \cap Cleaner = {} /\ Loop \in Cleaner

VARIABLES
    config,     \* the row of management_config
    editing,    \* for each editor Nothing, or the row loaded and the form
    stage,      \* how far each event and each cleaner is
    pending,    \* the tasks of the middleware
    read,       \* the configuration each worker has read
    since,      \* the configurations in force since each worker began
    log,        \* table invocations
    payloads,   \* the records stored with arguments, result and error
    at,         \* occurred_at of each record; 0 before the start
    now,        \* the next occurred_at
    horizon,    \* records from before it are past their retention
    explained   \* limits in force since the last trim began, see LogBounded

settings == <<config, editing>>
table == <<log, payloads, explained>>
time == <<at, now, horizon>>
logVars == <<settings, stage, pending, read, since, table, time>>

Stage == {"idle", "running", "submitted", "received", "checked", "closed"}

Limits(S) == {Limit(k) : k \in S}

Move(w, s) == stage' = [stage EXCEPT ![w] = s]

\* A worker is done, and its local variables with it.
Done(w, s) ==
    /\ Move(w, s)
    /\ read' = [read EXCEPT ![w] = Nothing]
    /\ since' = [since EXCEPT ![w] = {}]

LogInit ==
    /\ config = Initial
    /\ editing = [a \in Editor |-> Nothing]
    /\ stage = [w \in Worker |-> "idle"]
    /\ pending = {}
    /\ read = [w \in Worker |-> Nothing]
    /\ since = [w \in Worker |-> {}]
    /\ log = Past /\ payloads = {}
    /\ at = [r \in Entry |-> 0]
    /\ now = 1 /\ horizon = 0
    /\ explained = {Limit(Initial)}

-----------------------------------------------------------------------------
(* The middleware of a module server. *)

CallTool(e) ==
    /\ stage[e] = "idle"
    /\ Move(e, "running")
    /\ UNCHANGED <<settings, pending, read, since, table, time>>

\* The tool returned or raised: _submit, and the answer goes to the caller.
Finish(e) ==
    /\ stage[e] = "running"
    /\ IF Cardinality(pending) >= MaxPending
       THEN Move(e, "closed") /\ UNCHANGED pending
       ELSE Move(e, "submitted") /\ pending' = pending \cup {e}
    /\ UNCHANGED <<settings, read, since, table, time>>

\* Cancellation is not an Exception: nothing is submitted.
Cancel(e) ==
    /\ stage[e] = "running"
    /\ Move(e, "closed")
    /\ UNCHANGED <<settings, pending, read, since, table, time>>

\* Management has answered, with 204 or an error; _record swallows it.
Answer(e) ==
    /\ e \in pending /\ stage[e] = "closed"
    /\ pending' = pending \ {e}
    /\ UNCHANGED <<settings, stage, read, since, table, time>>

\* Mutant of GiveUp: the task of a failed request stays in the set.
GiveUpKeeping(e) ==
    /\ e \in pending /\ stage[e] # "closed"
    /\ stage' = [stage EXCEPT ![e] = IF @ = "submitted" THEN "closed" ELSE @]
    /\ UNCHANGED <<settings, pending, read, since, table, time>>

\* The request cannot be made, or timeout_seconds are over.  A request that
\* management has received goes on there.
GiveUp(e) ==
    /\ e \in pending /\ stage[e] # "closed"
    /\ pending' = pending \ {e}
    /\ stage' = [stage EXCEPT ![e] = IF @ = "submitted" THEN "closed" ELSE @]
    /\ UNCHANGED <<settings, read, since, table, time>>

\* The module server stops: calls under way and events not yet sent are lost.
Shutdown ==
    /\ pending' = {}
    /\ stage' = [w \in Worker |-> IF stage[w] \in {"running", "submitted"}
                                  THEN "closed" ELSE stage[w]]
    /\ UNCHANGED <<settings, read, since, table, time>>

-----------------------------------------------------------------------------
(* Management.  Requests are handled in threads of their own. *)

\* The body becomes an Invocation, dated by its default factory.
Receive(e) ==
    /\ stage[e] = "submitted"
    /\ Move(e, "received")
    /\ at' = [at EXCEPT ![e] = now] /\ now' = now + 1
    /\ since' = [since EXCEPT ![e] = {config}]
    /\ UNCHANGED <<settings, pending, read, table, horizon>>

\* append's first statement, and its return if logging is off.
ReadForAppend(e) ==
    /\ stage[e] = "received"
    /\ \/ /\ config.enabled
          /\ read' = [read EXCEPT ![e] = config]
          /\ Move(e, "checked") /\ UNCHANGED since
       \/ ~config.enabled /\ Done(e, "closed")
    /\ UNCHANGED <<settings, pending, table, time>>

\* _cleanup_in_session: K is what it keeps of the records R under k.  Which of
\* several records of the same time go is up to SQLite.
Trimmed(R, k, K) ==
    LET recent == {r \in R : at[r] >= horizon} IN
    /\ K \subseteq recent
    /\ \/ K = recent /\ Cardinality(recent) <= Limit(k)
       \/ Cardinality(K) = Limit(k) /\ Cardinality(recent) > Limit(k)
    /\ \A r \in recent \ K, q \in K : at[r] <= at[q]

\* Mutant of Append: the log is trimmed before the record is added.
AppendTrimmingFirst(e) ==
    /\ stage[e] = "checked"
    /\ \E K \in SUBSET log : Trimmed(log, read[e], K) /\ log' = K \cup {e}
    /\ payloads' = (payloads \cup (IF read[e].capture THEN {e} ELSE {})) \cap log'
    /\ explained' = Limits(since[e])
    /\ Done(e, "closed")
    /\ UNCHANGED <<settings, pending, time>>

\* Mutant of Append: payloads are kept as the settings at the start say.
AppendCapturing(e) ==
    /\ stage[e] = "checked"
    /\ \E K \in SUBSET (log \cup {e}) :
          Trimmed(log \cup {e}, read[e], K) /\ log' = K
    /\ payloads' = (payloads \cup (IF Initial.capture THEN {e} ELSE {})) \cap log'
    /\ explained' = Limits(since[e])
    /\ Done(e, "closed")
    /\ UNCHANGED <<settings, pending, time>>

\* The transaction of append.
Append(e) ==
    /\ stage[e] = "checked"
    /\ \E K \in SUBSET (log \cup {e}) :
          Trimmed(log \cup {e}, read[e], K) /\ log' = K
    /\ payloads' = (payloads \cup (IF read[e].capture THEN {e} ELSE {})) \cap log'
    /\ explained' = Limits(since[e])
    /\ Done(e, "closed")
    /\ UNCHANGED <<settings, pending, time>>

\* The database stays locked, management stops: the transaction rolls back.
Fail(e) ==
    /\ stage[e] \in {"received", "checked"}
    /\ Done(e, "closed")
    /\ UNCHANGED <<settings, pending, table, time>>

\* TelemetryService.cleanup: the read, and the transaction.
ReadForCleanup(w) ==
    /\ stage[w] = "idle"
    /\ read' = [read EXCEPT ![w] = config]
    /\ since' = [since EXCEPT ![w] = {config}]
    /\ Move(w, "checked")
    /\ UNCHANGED <<settings, pending, table, time>>

\* Mutant of Cleanup: nothing is trimmed while logging is off, as in append.
CleanupWhileEnabled(w) ==
    /\ stage[w] = "checked"
    /\ \E K \in SUBSET log : /\ IF read[w].enabled THEN Trimmed(log, read[w], K)
                                                   ELSE K = log
                             /\ log' = K
    /\ payloads' = payloads \cap log'
    /\ explained' = Limits(since[w])
    /\ Done(w, "idle")
    /\ UNCHANGED <<settings, pending, time>>

Cleanup(w) ==
    /\ stage[w] = "checked"
    /\ \E K \in SUBSET log : Trimmed(log, read[w], K) /\ log' = K
    /\ payloads' = payloads \cap log'
    /\ explained' = Limits(since[w])
    /\ Done(w, "idle")
    /\ UNCHANGED <<settings, pending, time>>

\* Mutant of CleanupFail: the exception ends the loop.
CleanupFailEnding(w) ==
    /\ stage[w] = "checked"
    /\ Done(w, "closed")
    /\ UNCHANGED <<settings, pending, table, time>>

\* The exception ends this cycle of the loop; the next one comes.
CleanupFail(w) ==
    /\ stage[w] = "checked"
    /\ Done(w, "idle")
    /\ UNCHANGED <<settings, pending, table, time>>

-----------------------------------------------------------------------------
(* Administrators, and time. *)

\* The record the ORM works on is the row as loaded, ...
LoadSettings(a, k) ==
    /\ editing[a] = Nothing
    /\ editing' = [editing EXCEPT ![a] = [loaded |-> config, form |-> k]]
    /\ UNCHANGED <<config, stage, pending, read, since, table, time>>

\* ... and its UPDATE names the columns that differ from that.
Updated(c) == [f \in DOMAIN config |->
                  IF c.form[f] = c.loaded[f] THEN config[f] ELSE c.form[f]]

SaveSettings(a) ==
    /\ editing[a] # Nothing
    /\ config' = Updated(editing[a])
    /\ editing' = [editing EXCEPT ![a] = Nothing]
    /\ since' = [w \in Worker |-> IF stage[w] \in {"received", "checked"}
                                  THEN since[w] \cup {config'} ELSE since[w]]
    /\ explained' = explained \cup {Limit(config')}
    /\ UNCHANGED <<stage, pending, read, log, payloads, time>>

\* "Clear all logs", and the delete action on chosen records.
RemoveRecords ==
    /\ \E R \in SUBSET log : R # {} /\ log' = log \ R
    /\ payloads' = payloads \cap log'
    /\ UNCHANGED <<settings, stage, pending, read, since, explained, time>>

\* The retention of the records of one more moment ends.
Elapse ==
    /\ horizon < now /\ horizon < Cardinality(Event)
    /\ horizon' = horizon + 1
    /\ UNCHANGED <<settings, stage, pending, read, since, table, at, now>>

-----------------------------------------------------------------------------
LogNext ==
    \/ \E e \in Event : \/ CallTool(e) \/ Finish(e) \/ Cancel(e) \/ Answer(e)
                        \/ GiveUp(e) \/ Receive(e) \/ ReadForAppend(e)
                        \/ Append(e) \/ Fail(e)
    \/ \E w \in Cleaner : ReadForCleanup(w) \/ Cleanup(w) \/ CleanupFail(w)
    \/ \E a \in Editor : SaveSettings(a) \/ \E k \in Choice : LoadSettings(a, k)
    \/ Shutdown \/ RemoveRecords \/ Elapse

\* urlopen has a time-out: a task ends, whatever management does.  The loop goes
\* on for ever, and not every one of its transactions finds the database locked.
LogSpec ==
    /\ LogInit /\ [][LogNext]_logVars
    /\ \A e \in Event : WF_logVars(Answer(e) \/ GiveUp(e))
    /\ WF_logVars(ReadForCleanup(Loop)) /\ SF_logVars(Cleanup(Loop))

-----------------------------------------------------------------------------
(* Properties. *)

LogTypeOK ==
    /\ config \in Settings
    /\ editing \in [Editor -> [loaded : Settings, form : Choice] \cup {Nothing}]
    /\ stage \in [Worker -> Stage]
    /\ pending \subseteq Event
    /\ read \in [Worker -> Settings \cup {Nothing}]
    /\ since \in [Worker -> SUBSET Settings]
    /\ log \subseteq Entry /\ payloads \subseteq log
    /\ at \in [Entry -> Nat] /\ now \in Nat /\ horizon \in Nat
    /\ explained \in SUBSET Nat

\* However many requests are under way, however they overlap with changes of
\* the limit and with each other, the log holds no more records than one of the
\* limits in force since the last append or cleanup began (logging_max_records;
\* docs/management.md: "Retention is enforced both while appending events and
\* by the periodic management maintenance task").
LogBounded == \E l \in explained : Cardinality(log) <= l

\* A record is written only if logging was enabled, and with its payload only
\* if capture was on too, at one moment since its request arrived (README.md:226:
\* Settings "can disable logging, disable payload capture"); requests that are
\* on their way when an administrator switches it off may still be recorded.
RecordsAllowed ==
    [][\A e \in log' \ log :
          \E k \in since[e] : k.enabled /\ (e \in payloads' => k.capture)]_logVars

\* Again and again the log holds no record past its retention, although there
\* may be no append to trim it, logging may be off by then, cycles of the loop
\* fail, and records come in late (docs/management.md:55: "Retention is enforced
\* both while appending events and by the periodic management maintenance task").
RetentionEnforced == []<>(\A r \in log : at[r] >= horizon)

\* No event occupies the middleware for ever, even if management never answers:
\* the place it took among MaxPending is free again.
RoomReturns == \A e \in Event : e \in pending ~> e \notin pending
=============================================================================
