--------------------------- MODULE FileMaintenance ---------------------------
(***************************************************************************)
(* The maintenance loop of the management runtime over the shared file     *)
(* store: every interval it reads the configuration, trims the log of      *)
(* calls (InvocationLog) and, if the configuration it read says so, starts *)
(* a cleanup of old unreferenced files, among client threads that use the  *)
(* store through the file tools and the Files page.                        *)
(***************************************************************************)
EXTENDS FileStore

CONSTANTS
    Janitor,           \* the thread of the maintenance loop
    MaxFailures        \* bound on the errors of the log's cleanup

ASSUME JanitorAssumption == Janitor \in Proc /\ MaxFailures \in Nat

VARIABLES
    enabled,           \* config.file_auto_cleanup_enabled
    cycle,             \* what the loop does next: nothing, trim, clean
    due,               \* enabled, as this cycle has read it
    failures           \* errors of the log's cleanup so far

loop == <<cycle, due, failures>>
mvars == <<vars, enabled, loop>>

MInit == Init /\ enabled = FALSE /\ cycle = "asleep" /\ due = FALSE
         /\ failures = 0

Wake ==
    /\ cycle = "asleep" /\ At(Janitor, "idle")
    /\ cycle' = "log" /\ due' = enabled
    /\ UNCHANGED <<vars, enabled, failures>>

\* telemetry.cleanup, and the decision after it.
TrimLog ==
    /\ cycle = "log"
    /\ cycle' = (IF due THEN "files" ELSE "asleep")
    /\ UNCHANGED <<vars, enabled, due, failures>>

\* Mutant of TrimFail: the exception ends the loop.
TrimFailEnding ==
    /\ cycle = "log" /\ failures < MaxFailures
    /\ cycle' = "ended" /\ failures' = failures + 1
    /\ UNCHANGED <<vars, enabled, due>>

\* Its exception is logged, and ends the cycle before any file is looked at.
TrimFail ==
    /\ cycle = "log" /\ failures < MaxFailures
    /\ cycle' = "asleep" /\ failures' = failures + 1
    /\ UNCHANGED <<vars, enabled, due>>

\* An exception from here on is Abort of the thread, and the loop goes on too.
CleanFiles ==
    /\ cycle = "files"
    /\ \E n \in Limits : Sweep(Janitor, "cleanup", n)
    /\ cycle' = "asleep"
    /\ UNCHANGED <<enabled, due, failures>>

\* An administrator edits the configuration.
Toggle ==
    /\ enabled' = ~enabled
    /\ UNCHANGED <<vars, loop>>

\* The clients, among them the Files page with its own cleanup.
StoreStep ==
    /\ \/ \E p \in Proc \ {Janitor} : Invoke(p)
       \/ \E p \in Proc : Continue(p) \/ Abort(p)
       \/ \E f \in File : Age(f)
    /\ UNCHANGED <<enabled, loop>>

MNext == Wake \/ TrimLog \/ TrimFail \/ CleanFiles \/ Toggle \/ StoreStep

\* A started operation is a running thread, and the loop sleeps a finite
\* interval between its cycles; nobody has to start an operation, to change
\* the configuration or to crash.
MSpec ==
    /\ MInit /\ [][MNext]_mvars
    /\ \A p \in Proc : WF_mvars(Continue(p) /\ UNCHANGED <<enabled, loop>>)
    /\ WF_mvars(Wake) /\ WF_mvars(TrimLog) /\ WF_mvars(CleanFiles)

-----------------------------------------------------------------------------
(* Properties. *)

\* Every operation that is started returns, whatever the others do meanwhile.
OperationsReturn == \A p \in Proc : []<>At(p, "idle")

Stale(f) == f \in Unreferenced /\ f \in aged /\ f \in objects

\* Rows without bytes that are listed before f: info() fails for them, so that
\* no cleanup removes them, and they take their places on every list.
DeadBefore(f) == {g \in Unreferenced \ objects : <<g, f>> \in older}

\* With the cleanup enabled and the references, memberships and collections
\* left alone from some time on, no old unreferenced file stays for ever,
\* whatever else the clients store and delete, unless rows without bytes take
\* up all places of the list before it, again and again.  (While references
\* change, the IntegrityError of one file's late reference ends a cleanup
\* before it reaches the next file.)
StaleFilesGo ==
    (/\ <>[]enabled
     /\ <>[][UNCHANGED <<refs, colls, items>>]_mvars)
    => \A f \in File :
          []<>(Stale(f) => \E n \in Limits : Cardinality(DeadBefore(f)) >= n)
=============================================================================
