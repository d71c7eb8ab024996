------------------------------ MODULE HttpPool ------------------------------
(***************************************************************************)
(* The HTTP/1.1 connection pool of the GitHub and GitLab clients, class    *)
(* PooledHttpTransport of src/src/common/http_transport.py: a LIFO queue   *)
(* of idle connections, a counter under a lock, and threads that take,     *)
(* make, wait for, give back and drop connections.  The operations of the  *)
(* queue and the critical sections of the lock are atomic, and no more.    *)
(***************************************************************************)
EXTENDS Naturals, Sequences, FiniteSets

CONSTANTS
    Thread,      \* threads that make requests
    Conn,        \* connections; a closed one stands for one not made yet
    Max,         \* max_connections
    Attempts,    \* reconnect_retries + 1
    MaxFaults,   \* bound on network faults and on other errors
    None         \* no connection

ASSUME PoolAssumption ==
    /\ Max \in Nat \ {0}
    /\ Attempts \in Nat \ {0}
    /\ MaxFaults \in Nat
    /\ IsFiniteSet(Thread)
    /\ None \notin Conn

VARIABLES
    idle,       \* _connections, the last one on top
    count,      \* _connection_count
    line,       \* of a connection: closed, open, or stale if the server left it
    call,       \* what each thread is doing
    lost,       \* connections leaked by an exception request does not catch
    faults      \* errors so far, but for the discovery that a line is stale

vars == <<idle, count, line, call, lost, faults>>

(***************************************************************************)
(* conn is the connection in the thread's hands; attempt counts from 1;    *)
(* then is where a drop leads to.                                          *)
(***************************************************************************)
Step == {"rest", "take", "reserve", "create", "wait", "send", "drop", "failed"}

Call == [at : Step, conn : Conn \cup {None},
         attempt : 0..Attempts, then : {"rest", "take", "failed"}]

Rest == [at |-> "rest", conn |-> None, attempt |-> 0, then |-> "rest"]

At(p, s) == call[p].at = s

Goto(p, c) == call' = [call EXCEPT ![p] = c]

Fault == faults < MaxFaults /\ faults' = faults + 1

Init ==
    /\ idle = <<>> /\ count = 0
    /\ line = [c \in Conn |-> "closed"]
    /\ call = [p \in Thread |-> Rest]
    /\ lost = 0 /\ faults = 0

-----------------------------------------------------------------------------
(* _acquire *)

Request(p) ==
    /\ At(p, "rest")
    /\ Goto(p, [Rest EXCEPT !.at = "take", !.attempt = 1])
    /\ UNCHANGED <<idle, count, line, lost, faults>>

\* Mutant of Pop: the connection is looked at and stays in the queue.
Peek(p) ==
    /\ idle # <<>>
    /\ Goto(p, [call[p] EXCEPT !.at = "send", !.conn = idle[Len(idle)]])
    /\ UNCHANGED <<idle, count, line, lost, faults>>

Pop(p) ==
    /\ idle # <<>>
    /\ idle' = SubSeq(idle, 1, Len(idle) - 1)
    /\ Goto(p, [call[p] EXCEPT !.at = "send", !.conn = idle[Len(idle)]])
    /\ UNCHANGED <<count, line, lost, faults>>

\* get_nowait() finds a connection, stale or not, or raises Empty.
Take(p) ==
    /\ At(p, "take")
    /\ \/ Pop(p)
       \/ /\ idle = <<>>
          /\ Goto(p, [call[p] EXCEPT !.at = "reserve"])
          /\ UNCHANGED <<idle, count, line, lost, faults>>

\* Mutant of HasRoom: off by one.
HasRoomAtMax == count <= Max

HasRoom == count < Max

Reserve(p) ==
    /\ At(p, "reserve")
    /\ \/ /\ HasRoom
          /\ count' = count + 1
          /\ Goto(p, [call[p] EXCEPT !.at = "create"])
       \/ /\ ~HasRoom
          /\ Goto(p, [call[p] EXCEPT !.at = "wait"])
          /\ UNCHANGED count
    /\ UNCHANGED <<idle, line, lost, faults>>

\* The factory runs outside of the lock.
Create(p) ==
    /\ At(p, "create")
    /\ \E c \in Conn :
          /\ line[c] = "closed"
          /\ line' = [line EXCEPT ![c] = "open"]
          /\ Goto(p, [call[p] EXCEPT !.at = "send", !.conn = c])
    /\ UNCHANGED <<idle, count, lost, faults>>

\* Mutant of CreateFail: the reservation is not given back.
CreateFailKeeping(p) ==
    /\ At(p, "create")
    /\ Fault
    /\ Goto(p, Rest)
    /\ UNCHANGED <<idle, count, line, lost>>

\* The factory raises, and the caller gets its exception.
CreateFail(p) ==
    /\ At(p, "create")
    /\ Fault
    /\ count' = count - 1
    /\ Goto(p, Rest)
    /\ UNCHANGED <<idle, line, lost>>

\* get(timeout) returns a connection that was put back.
Wait(p) ==
    /\ At(p, "wait")
    /\ Pop(p)

\* Mutant of TimeOut: the acquisition starts again.
TimeOutAgain(p) ==
    /\ At(p, "wait")
    /\ idle = <<>>
    /\ Goto(p, [call[p] EXCEPT !.at = "take"])
    /\ UNCHANGED <<idle, count, line, lost, faults>>

\* get(timeout) raises Empty; its error ends the request, a retry too.
TimeOut(p) ==
    /\ At(p, "wait")
    /\ idle = <<>>
    /\ Goto(p, Rest)
    /\ UNCHANGED <<idle, count, line, lost, faults>>

-----------------------------------------------------------------------------
(* The exchange, and _release(reusable=True). *)

\* A complete response.  Unless the server will close it, the connection goes
\* back to the queue.
Answer(p) ==
    LET c == call[p] IN
    /\ At(p, "send")
    /\ line[c.conn] = "open"
    /\ \/ /\ idle' = Append(idle, c.conn)
          /\ Goto(p, Rest)
       \/ /\ Goto(p, [c EXCEPT !.at = "drop", !.then = "rest"])
          /\ UNCHANGED idle
    /\ UNCHANGED <<count, line, lost, faults>>

\* Where a failed attempt leads to, once its connection is dropped.
AfterFailure(c) ==
    IF c.attempt < Attempts THEN [c EXCEPT !.at = "drop", !.then = "take"]
    ELSE [c EXCEPT !.at = "drop", !.then = "failed"]

\* OSError or HTTPException, from a stale line for sure.
Break(p) ==
    LET c == call[p] IN
    /\ At(p, "send")
    /\ \/ line[c.conn] = "stale" /\ UNCHANGED faults
       \/ line[c.conn] = "open" /\ Fault
    /\ Goto(p, AfterFailure(c))
    /\ UNCHANGED <<idle, count, line, lost>>

\* An exception of another class, as the ValueError of an invalid header,
\* passes request by: nobody gives the connection back or counts it off.
Escape(p) ==
    /\ At(p, "send")
    /\ Fault
    /\ lost' = lost + 1
    /\ Goto(p, Rest)
    /\ UNCHANGED <<idle, count, line>>

-----------------------------------------------------------------------------
(* _release(reusable=False) *)

\* max(0, _connection_count - 1)
CountedOff == IF count = 0 THEN 0 ELSE count - 1

Resumed(c) ==
    CASE c.then = "rest"   -> Rest
      [] c.then = "take"   -> [c EXCEPT !.at = "take", !.conn = None,
                                        !.attempt = @ + 1]
      [] c.then = "failed" -> [c EXCEPT !.at = "failed", !.conn = None]

\* Close, then count off, and tell nobody who waits.
Drop(p) ==
    LET c == call[p] IN
    /\ At(p, "drop")
    /\ line' = [line EXCEPT ![c.conn] = "closed"]
    /\ count' = CountedOff
    /\ Goto(p, Resumed(c))
    /\ UNCHANGED <<idle, lost, faults>>

\* close() raises in the handler of request, and the caller gets its exception.
\* After a complete response that will close, http.client has already closed
\* the socket, and close() has nothing left to fail on.
DropRaising(p) ==
    LET c == call[p] IN
    /\ At(p, "drop")
    /\ c.then # "rest"
    /\ Fault
    /\ line' = [line EXCEPT ![c.conn] = "closed"]
    /\ count' = CountedOff
    /\ Goto(p, Rest)
    /\ UNCHANGED <<idle, lost>>

\* raise HttpTransportError("HTTP request failed after reconnect")
Fail(p) ==
    /\ At(p, "failed")
    /\ Goto(p, Rest)
    /\ UNCHANGED <<idle, count, line, lost, faults>>

-----------------------------------------------------------------------------
(* The server closes a connection that lies idle for too long. *)

GoStale(c) ==
    /\ \E i \in 1..Len(idle) : idle[i] = c
    /\ line[c] = "open"
    /\ line' = [line EXCEPT ![c] = "stale"]
    /\ UNCHANGED <<idle, count, call, lost, faults>>

\* The steps a running thread takes by itself.
Proceed(p) ==
    \/ Take(p) \/ Reserve(p) \/ Create(p) \/ CreateFail(p) \/ Wait(p) \/ TimeOut(p)
    \/ Answer(p) \/ Break(p) \/ Escape(p) \/ Drop(p) \/ DropRaising(p) \/ Fail(p)

Next ==
    \/ \E p \in Thread : Request(p) \/ Proceed(p)
    \/ \E c \in Conn : GoStale(c)

\* A thread in a request runs, and its socket and queue calls have timeouts.
Spec == Init /\ [][Next]_vars /\ \A p \in Thread : WF_vars(Proceed(p))

-----------------------------------------------------------------------------
(* Properties. *)

InHand(p) == call[p].at \in {"send", "drop"}

TypeOK ==
    /\ idle \in Seq(Conn)
    /\ count \in Nat
    /\ line \in [Conn -> {"closed", "open", "stale"}]
    /\ call \in [Thread -> Call]
    /\ \A p \in Thread : InHand(p) => call[p].conn \in Conn
    /\ lost \in Nat /\ faults \in 0..MaxFaults

\* No two threads, nor a thread and the queue, nor two places in the queue
\* have the same connection, and none that is closed is in use or in the queue:
\* whoever sends on a connection is alone on it.
Exclusive ==
    /\ \A i, j \in 1..Len(idle) : idle[i] = idle[j] => i = j
    /\ \A i \in 1..Len(idle) : line[idle[i]] # "closed"
    /\ \A p \in Thread : InHand(p) =>
          /\ line[call[p].conn] # "closed"
          /\ \A i \in 1..Len(idle) : idle[i] # call[p].conn
          /\ \A q \in Thread : InHand(q) /\ call[q].conn = call[p].conn => q = p

Counted == {p \in Thread : call[p].at \in {"create", "send", "drop"}}

\* The counter is the number of connections that lie idle, are being made, are
\* in use or are lost.
Accounting == count = Len(idle) + Cardinality(Counted) + lost

Live == {c \in Conn : line[c] # "closed"}

\* There are never more connections than the pool may have, and the counter
\* that sees to it is exact, whichever way requests have ended: otherwise the
\* limit would be passed, or shrink, later.
WithinMax == Accounting /\ Cardinality(Live) <= Max

\* Every request returns, with an answer or an error, whatever becomes of its
\* connections and of the other threads.
RequestsReturn == \A p \in Thread : []<>At(p, "rest")
=============================================================================
