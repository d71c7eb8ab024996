--------------------------- MODULE HttpPoolProofs ---------------------------
(***************************************************************************)
(* The invariants of the connection pool, for any number of threads and    *)
(* connections.  Every step is one of the nine moves below; each invariant *)
(* is then preserved move by move.  The last part bounds a request.        *)
(***************************************************************************)
EXTENDS HttpPool, FiniteSetTheorems, SequenceTheorems, TLAPS

Out == {"rest", "take", "reserve", "wait", "failed"}

Holding == {p \in Thread : InHand(p)}

\* A connection that exists lies idle, is in use or is lost, and in one way only.
Placed == IsFiniteSet(Live) /\ Cardinality(Live) = Len(idle) + Cardinality(Holding) + lost

\* A drop leads to another attempt only while one is left.
Budget == \A p \in Thread : At(p, "drop") /\ call[p].then = "take" => call[p].attempt < Attempts

PoolInv == TypeOK /\ Budget /\ Exclusive /\ Accounting /\ Placed /\ count <= Max

-----------------------------------------------------------------------------
(* The moves: thread p comes to c. *)

Comes(p, c) == p \in Thread /\ c \in Call /\ call' = [call EXCEPT ![p] = c]

Roam(p, c) ==
    /\ Comes(p, c) /\ call[p].at \in Out /\ c.at \in Out
    /\ UNCHANGED <<idle, count, line, lost>>

Grasp(p, c) ==
    /\ Comes(p, c) /\ call[p].at \in Out /\ c.at = "send"
    /\ idle # <<>> /\ c.conn = idle[Len(idle)] /\ idle' = SubSeq(idle, 1, Len(idle) - 1)
    /\ UNCHANGED <<count, line, lost>>

Book(p, c) ==
    /\ Comes(p, c) /\ call[p].at \in Out /\ c.at = "create"
    /\ count < Max /\ count' = count + 1
    /\ UNCHANGED <<idle, line, lost>>

Make(p, c) ==
    /\ Comes(p, c) /\ call[p].at = "create" /\ c.at = "send"
    /\ c.conn \in Conn /\ line[c.conn] = "closed" /\ line' = [line EXCEPT ![c.conn] = "open"]
    /\ UNCHANGED <<idle, count, lost>>

Unbook(p, c) ==
    /\ Comes(p, c) /\ call[p].at = "create" /\ c.at \in Out
    /\ count' = count - 1
    /\ UNCHANGED <<idle, line, lost>>

PutBack(p, c) ==
    /\ Comes(p, c) /\ call[p].at = "send" /\ c.at \in Out
    /\ idle' = Append(idle, call[p].conn)
    /\ UNCHANGED <<count, line, lost>>

Keep(p, c) ==
    /\ Comes(p, c) /\ call[p].at = "send" /\ c.at = "drop" /\ c.conn = call[p].conn
    /\ c.then = "take" => c.attempt < Attempts
    /\ UNCHANGED <<idle, count, line, lost>>

Lose(p, c) ==
    /\ Comes(p, c) /\ call[p].at = "send" /\ c.at \in Out
    /\ lost' = lost + 1
    /\ UNCHANGED <<idle, count, line>>

Discard(p, c) ==
    /\ Comes(p, c) /\ call[p].at = "drop" /\ c.at \in Out
    /\ line' = [line EXCEPT ![call[p].conn] = "closed"] /\ count' = CountedOff
    /\ UNCHANGED <<idle, lost>>

Move(p, c) ==
    \/ Roam(p, c) \/ Grasp(p, c) \/ Book(p, c) \/ Make(p, c) \/ Unbook(p, c)
    \/ PutBack(p, c) \/ Keep(p, c) \/ Lose(p, c) \/ Discard(p, c)

\* Or a line goes stale, or nothing of all this changes.
Ages ==
    /\ UNCHANGED <<idle, count, call, lost>>
    /\ \/ UNCHANGED line
       \/ \E c \in Conn : line[c] = "open" /\ line' = [line EXCEPT ![c] = "stale"]

Faults == faults' \in 0..MaxFaults

LEMMA RestIsACall == Rest \in Call /\ Rest.at = "rest"
  BY PoolAssumption DEF Rest, Call, Step

LEMMA TopOfIdle == TypeOK /\ idle # <<>> => idle[Len(idle)] \in Conn
  BY DEF TypeOK

\* A step of Next is a move of a thread, or a line goes stale.
LEMMA Moves ==
  ASSUME TypeOK, Budget, [Next]_vars
  PROVE  Faults /\ (Ages \/ \E p \in Thread, c \in Call : Move(p, c))
<1> USE PoolAssumption
<1>0. call \in [Thread -> Call] /\ lost \in Nat /\ count \in Nat /\ faults \in 0..MaxFaults
      /\ \A p \in Thread : InHand(p) => call[p].conn \in Conn
  BY DEF TypeOK
<1>1. ASSUME NEW p \in Thread, Request(p)
      PROVE  Faults /\ \E c \in Call : Move(p, c)
  <2> DEFINE d == [Rest EXCEPT !.at = "take", !.attempt = 1]
  <2>1. d \in Call /\ d.at = "take"
    <3>1. 1 \in 0..Attempts
      BY PoolAssumption
    <3> QED
      BY <3>1, RestIsACall DEF Call, Step
  <2>2. Comes(p, d)
    BY <1>1, <2>1 DEF Request, Goto, Comes
  <2> HIDE DEF d
  <2>3. Roam(p, d)
    BY <1>1, <2>1, <2>2 DEF Request, At, Roam, Out
  <2> QED
    BY <1>0, <1>1, <2>1, <2>3 DEF Move, Faults, Request
<1>2. ASSUME NEW p \in Thread, call[p].at \in Out, Pop(p)
      PROVE  Faults /\ \E c \in Call : Move(p, c)
  <2> DEFINE d == [call[p] EXCEPT !.at = "send", !.conn = idle[Len(idle)]]
  <2>0. idle # <<>> /\ idle[Len(idle)] \in Conn
    BY <1>2, TopOfIdle DEF Pop
  <2>1. d \in Call /\ d.at = "send" /\ d.conn = idle[Len(idle)]
    BY <1>0, <2>0 DEF Call, Step
  <2>2. Comes(p, d)
    BY <1>2, <2>1 DEF Pop, Goto, Comes
  <2> HIDE DEF d
  <2>3. Grasp(p, d)
    BY <1>2, <2>0, <2>1, <2>2 DEF Pop, Grasp
  <2> QED
    BY <1>0, <1>2, <2>1, <2>3 DEF Move, Faults, Pop
<1>3. ASSUME NEW p \in Thread, Take(p)
      PROVE  Faults /\ \E c \in Call : Move(p, c)
  <2>1. CASE Pop(p)
    BY <1>2, <1>3, <2>1 DEF Take, At, Out
  <2>2. CASE ~Pop(p)
    <3> DEFINE d == [call[p] EXCEPT !.at = "reserve"]
    <3>1. d \in Call /\ d.at = "reserve"
      BY <1>0 DEF Call, Step
    <3>2. Comes(p, d)
      BY <1>3, <2>2, <3>1 DEF Take, Goto, Comes
    <3> HIDE DEF d
    <3>3. Roam(p, d)
      BY <1>3, <2>2, <3>1, <3>2 DEF Take, At, Roam, Out
    <3> QED
      BY <1>0, <1>3, <2>2, <3>1, <3>3 DEF Move, Faults, Take
  <2> QED
    BY <2>1, <2>2
<1>4. ASSUME NEW p \in Thread, Reserve(p)
      PROVE  Faults /\ \E c \in Call : Move(p, c)
  <2>1. CASE HasRoom
    <3> DEFINE d == [call[p] EXCEPT !.at = "create"]
    <3>1. d \in Call /\ d.at = "create"
      BY <1>0 DEF Call, Step
    <3>2. Comes(p, d)
      BY <1>4, <2>1, <3>1 DEF Reserve, Goto, Comes
    <3> HIDE DEF d
    <3>3. Book(p, d)
      BY <1>4, <2>1, <3>1, <3>2 DEF Reserve, At, Book, Out, HasRoom
    <3> QED
      BY <1>0, <1>4, <3>1, <3>3 DEF Move, Faults, Reserve
  <2>2. CASE ~HasRoom
    <3> DEFINE d == [call[p] EXCEPT !.at = "wait"]
    <3>1. d \in Call /\ d.at = "wait"
      BY <1>0 DEF Call, Step
    <3>2. Comes(p, d)
      BY <1>4, <2>2, <3>1 DEF Reserve, Goto, Comes
    <3> HIDE DEF d
    <3>3. Roam(p, d)
      BY <1>4, <2>2, <3>1, <3>2 DEF Reserve, At, Roam, Out
    <3> QED
      BY <1>0, <1>4, <3>1, <3>3 DEF Move, Faults, Reserve
  <2> QED
    BY <2>1, <2>2
<1>5. ASSUME NEW p \in Thread, Create(p)
      PROVE  Faults /\ \E c \in Call : Move(p, c)
  <2>1. PICK c \in Conn :
          /\ line[c] = "closed"
          /\ line' = [line EXCEPT ![c] = "open"]
          /\ Goto(p, [call[p] EXCEPT !.at = "send", !.conn = c])
    BY <1>5 DEF Create
  <2> DEFINE d == [call[p] EXCEPT !.at = "send", !.conn = c]
  <2>2. d \in Call /\ d.at = "send" /\ d.conn = c
    BY <1>0 DEF Call, Step
  <2>3. Comes(p, d)
    BY <2>1, <2>2 DEF Goto, Comes
  <2> HIDE DEF d
  <2>4. Make(p, d)
    BY <1>5, <2>1, <2>2, <2>3 DEF Create, At, Make
  <2> QED
    BY <1>0, <1>5, <2>2, <2>4 DEF Move, Faults, Create
<1>6. ASSUME NEW p \in Thread, CreateFail(p)
      PROVE  Faults /\ \E c \in Call : Move(p, c)
  <2>1. Unbook(p, Rest)
    BY <1>6, RestIsACall DEF CreateFail, Goto, At, Comes, Unbook, Out
  <2> QED
    BY <1>0, <1>6, <2>1, RestIsACall DEF Move, Faults, CreateFail, Fault
<1>7. ASSUME NEW p \in Thread, TimeOut(p) \/ Fail(p)
      PROVE  Faults /\ \E c \in Call : Move(p, c)
  <2>1. Roam(p, Rest)
    BY <1>7, RestIsACall DEF TimeOut, Fail, Goto, At, Comes, Roam, Out
  <2> QED
    BY <1>0, <1>7, <2>1, RestIsACall DEF Move, Faults, TimeOut, Fail
<1>8. ASSUME NEW p \in Thread, Answer(p)
      PROVE  Faults /\ \E c \in Call : Move(p, c)
  <2> DEFINE d == [call[p] EXCEPT !.at = "drop", !.then = "rest"]
  <2>1. d \in Call /\ d.at = "drop" /\ d.conn = call[p].conn /\ d.then = "rest"
    BY <1>0 DEF Call, Step
  <2>2. CASE idle' = Append(idle, call[p].conn) /\ Goto(p, Rest)
    <3>1. PutBack(p, Rest)
      BY <1>8, <2>2, RestIsACall DEF Answer, Goto, At, Comes, PutBack, Out
    <3> QED
      BY <1>0, <1>8, <3>1, RestIsACall DEF Move, Faults, Answer
  <2>3. CASE Goto(p, d) /\ UNCHANGED idle
    <3>1. Comes(p, d)
      BY <2>1, <2>3 DEF Goto, Comes
    <3> HIDE DEF d
    <3>2. Keep(p, d)
      BY <1>8, <2>1, <2>3, <3>1 DEF Answer, At, Keep
    <3> QED
      BY <1>0, <1>8, <2>1, <3>2 DEF Move, Faults, Answer
  <2> QED
    BY <1>8, <2>2, <2>3 DEF Answer
<1>9. ASSUME NEW p \in Thread, Break(p)
      PROVE  Faults /\ \E c \in Call : Move(p, c)
  <2> DEFINE d == AfterFailure(call[p])
  <2>1. d \in Call /\ d.at = "drop" /\ d.conn = call[p].conn
        /\ (d.then = "take" => d.attempt < Attempts)
    BY <1>0 DEF Call, Step, AfterFailure
  <2>2. Comes(p, d)
    BY <1>9, <2>1 DEF Break, Goto, Comes
  <2> HIDE DEF d
  <2>3. Keep(p, d)
    BY <1>9, <2>1, <2>2 DEF Break, At, Keep
  <2>4. Faults
    BY <1>0, <1>9 DEF Break, Fault, Faults
  <2> QED
    BY <2>1, <2>3, <2>4 DEF Move
<1>10. ASSUME NEW p \in Thread, Escape(p)
       PROVE  Faults /\ \E c \in Call : Move(p, c)
  <2>1. Lose(p, Rest)
    BY <1>10, RestIsACall DEF Escape, Goto, At, Comes, Lose, Out
  <2> QED
    BY <1>0, <1>10, <2>1, RestIsACall DEF Move, Faults, Escape, Fault
<1>11. ASSUME NEW p \in Thread, Drop(p)
       PROVE  Faults /\ \E c \in Call : Move(p, c)
  <2> DEFINE d == Resumed(call[p])
  <2>0. call[p] \in Call /\ (call[p].then = "take" => call[p].attempt + 1 \in 0..Attempts)
    BY <1>0, <1>11 DEF Budget, Drop, Call
  <2>1. d \in Call /\ d.at \in Out
    <3>1. CASE call[p].then = "rest"
      BY <3>1, RestIsACall DEF Resumed, Out
    <3>2. CASE call[p].then = "take"
      <4>1. d = [call[p] EXCEPT !.at = "take", !.conn = None,
                                !.attempt = @ + 1]
        BY <3>2 DEF Resumed
      <4> QED
        BY <2>0, <3>2, <4>1 DEF Call, Step, Out
    <3>3. CASE call[p].then = "failed"
      <4>1. d = [call[p] EXCEPT !.at = "failed", !.conn = None]
        BY <3>3 DEF Resumed
      <4> QED
        BY <2>0, <3>3, <4>1 DEF Call, Step, Out
    <3> QED
      BY <2>0, <3>1, <3>2, <3>3 DEF Call
  <2>2. Comes(p, d)
    BY <1>11, <2>1 DEF Drop, Goto, Comes
  <2> HIDE DEF d
  <2>3. Discard(p, d)
    BY <1>11, <2>1, <2>2 DEF Drop, At, Discard
  <2> QED
    BY <1>0, <1>11, <2>1, <2>3 DEF Move, Faults, Drop
<1>12. ASSUME NEW p \in Thread, DropRaising(p)
       PROVE  Faults /\ \E c \in Call : Move(p, c)
  <2>1. Discard(p, Rest)
    BY <1>12, RestIsACall DEF DropRaising, Goto, At, Comes, Discard, Out
  <2> QED
    BY <1>0, <1>12, <2>1, RestIsACall DEF Move, Faults, DropRaising, Fault
<1>13. ASSUME NEW p \in Thread, Wait(p)
       PROVE  Faults /\ \E c \in Call : Move(p, c)
  BY <1>2, <1>13 DEF Wait, At, Out
<1>14. ASSUME NEW c \in Conn, GoStale(c)
       PROVE  Faults /\ Ages
  BY <1>0, <1>14 DEF GoStale, Ages, Faults
<1>15. CASE UNCHANGED vars
  BY <1>0, <1>15 DEF vars, Ages, Faults
<1> QED
  BY <1>1, <1>3, <1>4, <1>5, <1>6, <1>7, <1>8, <1>9, <1>10, <1>11, <1>12, <1>13, <1>14, <1>15
  DEF Next, Proceed
-----------------------------------------------------------------------------
(* What a move does to the sets of the threads. *)

LEMMA Threads ==
  ASSUME call \in [Thread -> Call], NEW p \in Thread, NEW c \in Call,
         call' = [call EXCEPT ![p] = c]
  PROVE  /\ call' \in [Thread -> Call] /\ call'[p] = c
         /\ \A q \in Thread : q # p => call'[q] = call[q]
         /\ Counted' = (Counted \ {p}) \cup (IF c.at \in {"create", "send", "drop"} THEN {p} ELSE {})
         /\ Holding' = (Holding \ {p}) \cup (IF c.at \in {"send", "drop"} THEN {p} ELSE {})
<1>1. /\ call' \in [Thread -> Call] /\ call'[p] = c
      /\ \A q \in Thread : q # p => call'[q] = call[q]
  OBVIOUS
<1> QED
  BY <1>1 DEF Counted, Holding, InHand

LEMMA Plus == ASSUME NEW S, NEW x, IsFiniteSet(S), x \notin S
              PROVE  IsFiniteSet(S \cup {x}) /\ Cardinality(S \cup {x}) = Cardinality(S) + 1
  BY FS_AddElement

LEMMA Minus == ASSUME NEW S, NEW x, IsFiniteSet(S), x \in S
               PROVE  IsFiniteSet(S \ {x}) /\ Cardinality(S \ {x}) = Cardinality(S) - 1
  BY FS_RemoveElement

LEMMA FiniteThreads ==
  /\ IsFiniteSet(Counted) /\ Cardinality(Counted) \in Nat
  /\ IsFiniteSet(Holding) /\ Cardinality(Holding) \in Nat
<1>1. Counted \subseteq Thread /\ Holding \subseteq Thread
  BY DEF Counted, Holding
<1> QED
  BY <1>1, PoolAssumption, FS_Subset, FS_CardinalityType

(* The lengths of the queue. *)
LEMMA Lengths ==
  ASSUME NEW S, NEW s \in Seq(S)
  PROVE  /\ Len(s) \in Nat
         /\ s # <<>> => /\ Len(SubSeq(s, 1, Len(s) - 1)) = Len(s) - 1
                        /\ SubSeq(s, 1, Len(s) - 1) \in Seq(S)
                        /\ \A i \in 1..(Len(s) - 1) : SubSeq(s, 1, Len(s) - 1)[i] = s[i]
         /\ \A x \in S : /\ Append(s, x) \in Seq(S) /\ Len(Append(s, x)) = Len(s) + 1
                         /\ \A i \in 1..Len(s) : Append(s, x)[i] = s[i]
                         /\ Append(s, x)[Len(s) + 1] = x
<1>1. Len(s) \in Nat
  OBVIOUS
<1>2. ASSUME s # <<>>
      PROVE  /\ Len(SubSeq(s, 1, Len(s) - 1)) = Len(s) - 1
             /\ SubSeq(s, 1, Len(s) - 1) \in Seq(S)
             /\ \A i \in 1..(Len(s) - 1) : SubSeq(s, 1, Len(s) - 1)[i] = s[i]
  <2> DEFINE n == Len(s) - 1
             t == SubSeq(s, 1, n)
  <2>1. n \in Nat /\ \A i \in 1..n : i \in 1..Len(s)
    BY <1>1, <1>2, EmptySeq
  <2>2. \A i \in 1..n : s[i] \in S
    BY <2>1, ElementOfSeq
  <2>3. n - 1 + 1 = n /\ \A i \in 1..n : 1 + i - 1 = i
    BY <2>1
  <2> HIDE DEF n
  <2>4. /\ t \in Seq(S)
        /\ Len(t) = IF 1 <= n THEN n - 1 + 1 ELSE 0
        /\ \A i \in 1..(n - 1 + 1) : t[i] = s[1 + i - 1]
    BY <2>1, <2>2, SubSeqProperties
  <2> HIDE DEF t
  <2>5. Len(t) = n /\ t \in Seq(S) /\ \A i \in 1..n : t[i] = s[i]
    BY <2>1, <2>3, <2>4
  <2> QED
    BY <2>5 DEF n, t
<1>3. ASSUME NEW x \in S
      PROVE  /\ Append(s, x) \in Seq(S) /\ Len(Append(s, x)) = Len(s) + 1
             /\ \A i \in 1..Len(s) : Append(s, x)[i] = s[i]
             /\ Append(s, x)[Len(s) + 1] = x
  BY <1>1, AppendProperties
<1> QED
  BY <1>1, <1>2, <1>3

-----------------------------------------------------------------------------
(* Types *)

LEMMA TypesAgain ==
  ASSUME PoolInv, [Next]_vars
  PROVE  TypeOK' /\ Budget'
<1>0. /\ TypeOK /\ Budget /\ idle \in Seq(Conn) /\ count \in Nat /\ lost \in Nat
      /\ line \in [Conn -> {"closed", "open", "stale"}]
      /\ call \in [Thread -> Call] /\ \A p \in Thread : InHand(p) => call[p].conn \in Conn
  BY DEF PoolInv, TypeOK
<1>1. Faults /\ (Ages \/ \E p \in Thread, c \in Call : Move(p, c))
  BY <1>0, Moves
<1>2. CASE Ages
  BY <1>0, <1>1, <1>2 DEF Ages, Faults, TypeOK, Budget, InHand, At
<1>3. ASSUME NEW p \in Thread, NEW c \in Call, Move(p, c)
      PROVE  TypeOK' /\ Budget'
  <2>1. Comes(p, c)
    BY <1>3 DEF Move, Roam, Grasp, Book, Make, Unbook, PutBack, Keep, Lose, Discard
  <2>2. /\ call' \in [Thread -> Call] /\ call'[p] = c
        /\ \A q \in Thread : q # p => call'[q] = call[q]
    BY <1>0, <2>1, Threads DEF Comes
  <2>3. idle' \in Seq(Conn)
    <3>1. CASE Grasp(p, c)
      BY <1>0, <3>1, Lengths DEF Grasp
    <3>2. CASE PutBack(p, c)
      <4>1. call[p].conn \in Conn
        BY <1>0, <3>2 DEF PutBack, InHand
      <4> QED
        BY <1>0, <3>2, <4>1, Lengths DEF PutBack
    <3> QED
      BY <1>0, <1>3, <3>1, <3>2 DEF Move, Roam, Book, Make, Unbook, Keep, Lose, Discard
  <2>4. count' \in Nat
    <3>1. CASE Unbook(p, c)
      <4>1. p \in Counted
        BY <3>1 DEF Unbook, Counted
      <4>2. Cardinality(Counted) > 0
        BY <4>1, FiniteThreads, FS_EmptySet
      <4>3. count > 0
        BY <1>0, <4>2, Lengths, FiniteThreads DEF PoolInv, Accounting
      <4> QED
        BY <1>0, <3>1, <4>3 DEF Unbook
    <3> QED
      BY <1>0, <1>3, <3>1
      DEF Move, Roam, Grasp, Book, Make, PutBack, Keep, Lose, Discard, CountedOff
  <2>5. lost' \in Nat /\ line' \in [Conn -> {"closed", "open", "stale"}]
    BY <1>0, <1>3 DEF Move, Roam, Grasp, Book, Make, Unbook, PutBack, Keep, Lose, Discard
  <2>6. c.at \in {"send", "drop"} => c.conn \in Conn
    <3>1. CASE Grasp(p, c)
      BY <1>0, <3>1, TopOfIdle DEF Grasp
    <3>2. CASE Keep(p, c)
      BY <1>0, <3>2 DEF Keep, InHand
    <3> QED
      BY <1>3, <3>1, <3>2 DEF Move, Roam, Book, Make, Unbook, PutBack, Lose, Discard, Out
  <2>7. (\A q \in Thread : InHand(q) => call[q].conn \in Conn)'
    BY <1>0, <2>2, <2>6 DEF InHand
  <2>8. c.at = "drop" => (c.then = "take" => c.attempt < Attempts)
    BY <1>3 DEF Move, Roam, Grasp, Book, Make, Unbook, PutBack, Keep, Lose, Discard, Out
  <2>9. Budget'
    BY <1>0, <2>2, <2>8 DEF Budget, At
  <2> QED
    BY <1>1, <2>2, <2>3, <2>4, <2>5, <2>7, <2>9 DEF TypeOK, Faults
<1> QED
  BY <1>1, <1>2, <1>3

-----------------------------------------------------------------------------
(* Nobody shares a connection. *)

LEMMA ExclusiveAgain ==
  ASSUME PoolInv, [Next]_vars
  PROVE  Exclusive'
<1>0. /\ TypeOK /\ Budget /\ Exclusive /\ idle \in Seq(Conn)
      /\ line \in [Conn -> {"closed", "open", "stale"}]
      /\ call \in [Thread -> Call] /\ \A p \in Thread : InHand(p) => call[p].conn \in Conn
  BY DEF PoolInv, TypeOK
<1>i. /\ Len(idle) \in Nat /\ \A i \in 1..Len(idle) : idle[i] \in Conn
  BY <1>0, Lengths, ElementOfSeq
<1>1. Ages \/ \E p \in Thread, c \in Call : Move(p, c)
  BY <1>0, Moves
<1>2. CASE Ages
  BY <1>0, <1>i, <1>2 DEF Ages, Exclusive, InHand
<1>3. ASSUME NEW p \in Thread, NEW c \in Call, Move(p, c)
      PROVE  Exclusive'
  <2>0. Comes(p, c)
    BY <1>3 DEF Move, Roam, Grasp, Book, Make, Unbook, PutBack, Keep, Lose, Discard
  <2>1. /\ call'[p] = c
        /\ \A q \in Thread : q # p => call'[q] = call[q]
    BY <1>0, <2>0, Threads DEF Comes
  <2>2. CASE c.at \in Out \cup {"create"} /\ UNCHANGED <<idle, line>>
    BY <1>0, <2>1, <2>2 DEF Exclusive, InHand, Out
  <2>3. CASE Grasp(p, c)
    <3>1. /\ Len(idle') = Len(idle) - 1 /\ Len(idle) \in 1..Len(idle)
          /\ \A i \in 1..Len(idle') : i \in 1..Len(idle) /\ i # Len(idle) /\ idle'[i] = idle[i]
      BY <1>0, <1>i, <2>3, Lengths, EmptySeq DEF Grasp
    <3>2. \A i, j \in 1..Len(idle') : idle'[i] = idle'[j] => i = j
      BY <1>0, <3>1 DEF Exclusive
    <3>3. \A i \in 1..Len(idle') : line'[idle'[i]] # "closed" /\ idle'[i] # c.conn
      BY <1>0, <2>3, <3>1 DEF Exclusive, Grasp
    <3>4. ASSUME NEW q \in Thread, InHand(q)', q # p
          PROVE  /\ line'[call'[q].conn] # "closed" /\ call'[q].conn # c.conn
                 /\ \A i \in 1..Len(idle') : idle'[i] # call'[q].conn
                 /\ \A r \in Thread : r # p /\ InHand(r)' /\ call'[r].conn = call'[q].conn => r = q
      BY <1>0, <2>1, <2>3, <3>1, <3>4 DEF Exclusive, Grasp, InHand
    <3>5. line'[c.conn] # "closed"
      BY <1>0, <2>3, <3>1 DEF Exclusive, Grasp
    <3> QED
      BY <2>1, <3>2, <3>3, <3>4, <3>5 DEF Exclusive, InHand
  <2>4. CASE Make(p, c)
    <3>1. \A q \in Thread : InHand(q) => call[q].conn # c.conn
      BY <1>0, <2>4 DEF Exclusive, Make
    <3>2. \A i \in 1..Len(idle) : idle[i] # c.conn
      BY <1>0, <2>4 DEF Exclusive, Make
    <3>3. line' = [line EXCEPT ![c.conn] = "open"] /\ idle' = idle /\ c.conn \in Conn
      BY <2>4 DEF Make
    <3> QED
      BY <1>0, <1>i, <2>1, <3>1, <3>2, <3>3 DEF Exclusive, InHand
  <2>5. CASE PutBack(p, c)
    <3>0. InHand(p) /\ call[p].conn \in Conn /\ c.at \notin {"send", "drop"} /\ line' = line
      BY <1>0, <2>5 DEF PutBack, InHand, Out
    <3>1. /\ Len(idle') = Len(idle) + 1 /\ idle'[Len(idle) + 1] = call[p].conn
          /\ \A i \in 1..Len(idle) : idle'[i] = idle[i]
          /\ \A i \in 1..Len(idle') : i \in 1..Len(idle) \/ i = Len(idle) + 1
      BY <1>0, <1>i, <2>5, <3>0, Lengths DEF PutBack
    <3>2. \A i, j \in 1..Len(idle') : idle'[i] = idle'[j] => i = j
      BY <1>0, <3>0, <3>1 DEF Exclusive
    <3>3. \A i \in 1..Len(idle') : line'[idle'[i]] # "closed"
      BY <1>0, <3>0, <3>1 DEF Exclusive
    <3>4. ASSUME NEW q \in Thread, InHand(q)'
          PROVE  /\ q # p /\ InHand(q) /\ call'[q] = call[q]
                 /\ \A i \in 1..Len(idle') : idle'[i] # call'[q].conn
      BY <1>0, <2>1, <3>0, <3>1, <3>4 DEF Exclusive, InHand
    <3> QED
      BY <1>0, <3>0, <3>2, <3>3, <3>4 DEF Exclusive
  <2>6. CASE Keep(p, c)
    <3>1. /\ UNCHANGED <<idle, line>> /\ c.conn = call[p].conn
          /\ \A q \in Thread : InHand(q)' => InHand(q) /\ call'[q].conn = call[q].conn
      BY <2>1, <2>6 DEF Keep, InHand
    <3> QED
      BY <1>0, <3>1 DEF Exclusive
  <2>7. CASE Discard(p, c)
    <3>0. InHand(p) /\ c.at \notin {"send", "drop"} /\ idle' = idle
          /\ line' = [line EXCEPT ![call[p].conn] = "closed"]
      BY <2>7 DEF Discard, InHand, Out
    <3>1. \A i \in 1..Len(idle) : line'[idle[i]] # "closed"
      BY <1>0, <1>i, <3>0 DEF Exclusive
    <3>2. ASSUME NEW q \in Thread, InHand(q)'
          PROVE  q # p /\ InHand(q) /\ call'[q] = call[q] /\ line'[call[q].conn] # "closed"
      BY <1>0, <2>1, <3>0, <3>2 DEF Exclusive, InHand
    <3> QED
      BY <1>0, <3>0, <3>1, <3>2 DEF Exclusive
  <2> QED
    BY <1>3, <2>2, <2>3, <2>4, <2>5, <2>6, <2>7 DEF Move, Roam, Book, Unbook, Lose
<1> QED
  BY <1>1, <1>2, <1>3

-----------------------------------------------------------------------------
(* The counter, and the number of connections there are. *)

LEMMA CountsAgain ==
  ASSUME PoolInv, [Next]_vars
  PROVE  Accounting' /\ Placed' /\ count' <= Max
<1>0. /\ TypeOK /\ Budget /\ Exclusive /\ Accounting /\ Placed /\ count <= Max
      /\ idle \in Seq(Conn) /\ count \in Nat /\ lost \in Nat /\ Max \in Nat
      /\ line \in [Conn -> {"closed", "open", "stale"}]
      /\ call \in [Thread -> Call] /\ \A p \in Thread : InHand(p) => call[p].conn \in Conn
  BY PoolAssumption DEF PoolInv, TypeOK
<1>i. Len(idle) \in Nat
  BY <1>0, Lengths
<1>f. /\ IsFiniteSet(Counted) /\ Cardinality(Counted) \in Nat
      /\ IsFiniteSet(Holding) /\ Cardinality(Holding) \in Nat
  BY FiniteThreads
<1>1. Ages \/ \E p \in Thread, c \in Call : Move(p, c)
  BY <1>0, Moves
<1>2. CASE Ages
  <2>1. Live' = Live
    BY <1>0, <1>2 DEF Ages, Live
  <2>2. Counted' = Counted /\ Holding' = Holding
    BY <1>2 DEF Ages, Counted, Holding, InHand
  <2> QED
    BY <1>0, <1>2, <2>1, <2>2 DEF Ages, Accounting, Placed
<1>3. ASSUME NEW p \in Thread, NEW c \in Call, Move(p, c)
      PROVE  Accounting' /\ Placed' /\ count' <= Max
  <2>0. Comes(p, c)
    BY <1>3 DEF Move, Roam, Grasp, Book, Make, Unbook, PutBack, Keep, Lose, Discard
  <2>1. /\ Counted' = (Counted \ {p}) \cup (IF c.at \in {"create", "send", "drop"} THEN {p} ELSE {})
        /\ Holding' = (Holding \ {p}) \cup (IF c.at \in {"send", "drop"} THEN {p} ELSE {})
    BY <1>0, <2>0, Threads DEF Comes
  <2>2. p \in Counted <=> call[p].at \in {"create", "send", "drop"}
    BY DEF Counted
  <2>3. p \in Holding <=> call[p].at \in {"send", "drop"}
    BY DEF Holding, InHand
  <2>4. line' = line => Live' = Live
    BY DEF Live
  <2>5. CASE Roam(p, c)
    <3>1. Counted' = Counted /\ Holding' = Holding
      BY <2>1, <2>2, <2>3, <2>5 DEF Roam, Out
    <3> QED
      BY <1>0, <2>4, <2>5, <3>1 DEF Roam, Accounting, Placed
  <2>6. CASE Grasp(p, c)
    <3>1. Counted' = Counted \cup {p} /\ p \notin Counted /\ Holding' = Holding \cup {p} /\ p \notin Holding
      BY <2>1, <2>2, <2>3, <2>6 DEF Grasp, Out
    <3>2. Cardinality(Counted') = Cardinality(Counted) + 1 /\ Cardinality(Holding') = Cardinality(Holding) + 1
      BY <1>f, <3>1, Plus
    <3>3. Len(idle') = Len(idle) - 1
      BY <1>0, <2>6, Lengths DEF Grasp
    <3>4. Live' = Live /\ count' = count /\ lost' = lost
      BY <2>4, <2>6 DEF Grasp
    <3>5. Accounting' /\ count' <= Max
      BY <1>0, <1>i, <1>f, <3>2, <3>3, <3>4 DEF Accounting
    <3>6. Placed'
      BY <1>0, <1>i, <1>f, <3>2, <3>3, <3>4 DEF Placed
    <3> QED
      BY <3>5, <3>6
  <2>7. CASE Book(p, c)
    <3>1. Counted' = Counted \cup {p} /\ p \notin Counted /\ Holding' = Holding
      BY <2>1, <2>2, <2>3, <2>7 DEF Book, Out
    <3>2. Cardinality(Counted') = Cardinality(Counted) + 1
      BY <1>f, <3>1, Plus
    <3>3. Live' = Live /\ count < Max /\ count' = count + 1 /\ lost' = lost /\ idle' = idle
      BY <2>4, <2>7 DEF Book
    <3> QED
      BY <1>0, <1>i, <1>f, <3>1, <3>2, <3>3 DEF Accounting, Placed
  <2>8. CASE Make(p, c)
    <3>1. Counted' = Counted /\ Holding' = Holding \cup {p} /\ p \notin Holding
      BY <2>1, <2>2, <2>3, <2>8 DEF Make
    <3>2. Cardinality(Holding') = Cardinality(Holding) + 1
      BY <1>f, <3>1, Plus
    <3>3. Live' = Live \cup {c.conn} /\ c.conn \notin Live
      BY <1>0, <2>8 DEF Make, Live
    <3>4. IsFiniteSet(Live') /\ Cardinality(Live') = Cardinality(Live) + 1
      BY <1>0, <3>3, Plus DEF Placed
    <3>5. UNCHANGED <<idle, count, lost>>
      BY <2>8 DEF Make
    <3>6. Accounting' /\ count' <= Max
      BY <1>0, <3>1, <3>5 DEF Accounting
    <3>7. Placed'
      BY <1>0, <1>i, <1>f, <3>2, <3>4, <3>5 DEF Placed
    <3> QED
      BY <3>6, <3>7
  <2>9. CASE Unbook(p, c)
    <3>1. Counted' = Counted \ {p} /\ p \in Counted /\ Holding' = Holding
      BY <2>1, <2>2, <2>3, <2>9 DEF Unbook, Out
    <3>2. Cardinality(Counted') = Cardinality(Counted) - 1
      BY <1>f, <3>1, Minus
    <3>3. Live' = Live /\ count' = count - 1 /\ lost' = lost /\ idle' = idle
      BY <2>4, <2>9 DEF Unbook
    <3> QED
      BY <1>0, <1>i, <1>f, <3>1, <3>2, <3>3 DEF Accounting, Placed
  <2>10. CASE PutBack(p, c)
    <3>1. Counted' = Counted \ {p} /\ p \in Counted /\ Holding' = Holding \ {p} /\ p \in Holding
      BY <2>1, <2>2, <2>3, <2>10 DEF PutBack, Out
    <3>2. Cardinality(Counted') = Cardinality(Counted) - 1 /\ Cardinality(Holding') = Cardinality(Holding) - 1
      BY <1>f, <3>1, Minus
    <3>3. Len(idle') = Len(idle) + 1
      <4>1. call[p].conn \in Conn
        BY <1>0, <2>10 DEF PutBack, InHand
      <4> QED
        BY <1>0, <2>10, <4>1, Lengths DEF PutBack
    <3>4. Live' = Live /\ count' = count /\ lost' = lost
      BY <2>4, <2>10 DEF PutBack
    <3>5. Accounting' /\ count' <= Max
      BY <1>0, <1>i, <1>f, <3>2, <3>3, <3>4 DEF Accounting
    <3>6. Placed'
      BY <1>0, <1>i, <1>f, <3>2, <3>3, <3>4 DEF Placed
    <3> QED
      BY <3>5, <3>6
  <2>11. CASE Keep(p, c)
    <3>1. Counted' = Counted /\ Holding' = Holding
      BY <2>1, <2>2, <2>3, <2>11 DEF Keep
    <3> QED
      BY <1>0, <2>4, <2>11, <3>1 DEF Keep, Accounting, Placed
  <2>12. CASE Lose(p, c)
    <3>1. Counted' = Counted \ {p} /\ p \in Counted /\ Holding' = Holding \ {p} /\ p \in Holding
      BY <2>1, <2>2, <2>3, <2>12 DEF Lose, Out
    <3>2. Cardinality(Counted') = Cardinality(Counted) - 1 /\ Cardinality(Holding') = Cardinality(Holding) - 1
      BY <1>f, <3>1, Minus
    <3>3. Live' = Live /\ count' = count /\ lost' = lost + 1 /\ idle' = idle
      BY <2>4, <2>12 DEF Lose
    <3>4. Accounting' /\ count' <= Max
      <4>1. Cardinality(Counted') + lost' = Cardinality(Counted) + lost
        BY <1>0, <1>f, <3>2, <3>3
      <4>2. count = Len(idle) + (Cardinality(Counted) + lost)
        BY <1>0, <1>i, <1>f DEF Accounting
      <4>3. Cardinality(Counted') \in Nat /\ lost' \in Nat
        BY <1>0, <1>f, <3>1, <3>3, FS_Subset, FS_CardinalityType
      <4>4. count' = Len(idle') + Cardinality(Counted') + lost'
        BY <1>i, <3>3, <4>1, <4>2, <4>3
      <4> QED
        BY <1>0, <3>3, <4>4 DEF Accounting
    <3>5. Placed'
      BY <1>0, <1>i, <1>f, <3>2, <3>3 DEF Placed
    <3> QED
      BY <3>4, <3>5
  <2>13. CASE Discard(p, c)
    <3>0. InHand(p) /\ call[p].conn \in Conn
      BY <1>0, <2>13 DEF Discard, InHand
    <3>1. Counted' = Counted \ {p} /\ p \in Counted /\ Holding' = Holding \ {p} /\ p \in Holding
      BY <2>1, <2>2, <2>3, <2>13 DEF Discard, Out
    <3>2. Cardinality(Counted') = Cardinality(Counted) - 1 /\ Cardinality(Holding') = Cardinality(Holding) - 1
      BY <1>f, <3>1, Minus
    <3>3. Live' = Live \ {call[p].conn} /\ call[p].conn \in Live
      BY <1>0, <2>13, <3>0 DEF Discard, Live, Exclusive
    <3>4. IsFiniteSet(Live') /\ Cardinality(Live') = Cardinality(Live) - 1
      BY <1>0, <3>3, Minus DEF Placed
    <3>5. Cardinality(Counted) > 0
      BY <1>f, <3>1, FS_EmptySet
    <3>6. count > 0
      BY <1>0, <1>i, <1>f, <3>5 DEF Accounting
    <3>7. count' = count - 1 /\ lost' = lost /\ idle' = idle
      BY <1>0, <2>13, <3>6 DEF Discard, CountedOff
    <3>8. Accounting' /\ count' <= Max
      BY <1>0, <1>i, <1>f, <3>2, <3>7 DEF Accounting
    <3>9. Placed'
      BY <1>0, <1>i, <1>f, <3>2, <3>4, <3>7 DEF Placed
    <3> QED
      BY <3>8, <3>9
  <2> QED
    BY <1>3, <2>5, <2>6, <2>7, <2>8, <2>9, <2>10, <2>11, <2>12, <2>13 DEF Move
<1> QED
  BY <1>1, <1>2, <1>3

-----------------------------------------------------------------------------
(* The theorems. *)

LEMMA PoolInit == Init => PoolInv
<1> SUFFICES ASSUME Init
             PROVE  PoolInv
  OBVIOUS
<1>1. /\ idle = <<>> /\ Len(idle) = 0 /\ idle \in Seq(Conn) /\ count = 0 /\ lost = 0 /\ faults = 0
      /\ line = [c \in Conn |-> "closed"] /\ call = [p \in Thread |-> Rest]
  BY DEF Init
<1>2. \A p \in Thread : call[p].at = "rest"
  BY <1>1, RestIsACall
<1>3. Live = {} /\ Counted = {} /\ Holding = {}
  BY <1>1, <1>2 DEF Live, Counted, Holding, InHand
<1>4. TypeOK
  BY <1>1, <1>2, RestIsACall, PoolAssumption DEF TypeOK, InHand
<1>5. Budget /\ Exclusive
  BY <1>1, <1>2 DEF Budget, At, Exclusive, InHand
<1>6. Accounting /\ Placed /\ count <= Max
  BY <1>1, <1>3, FS_EmptySet, PoolAssumption DEF Accounting, Placed
<1> QED
  BY <1>4, <1>5, <1>6 DEF PoolInv

\* The invariants of the pool hold in every reachable state.
THEOREM PoolSafety == Spec => []PoolInv
<1>1. PoolInv /\ [Next]_vars => PoolInv'
  BY TypesAgain, ExclusiveAgain, CountsAgain DEF PoolInv
<1> QED
  BY <1>1, PoolInit, PTL DEF Spec

\* Every variable keeps its type; the counter is never negative.
THEOREM PoolTypes == Spec => []TypeOK
<1>1. PoolInv => TypeOK
  BY DEF PoolInv
<1> QED
  BY <1>1, PoolSafety, PTL

\* Whoever sends on a connection is alone on it, and no closed connection is
\* handed out.
THEOREM Alone == Spec => []Exclusive
<1>1. PoolInv => Exclusive
  BY DEF PoolInv
<1> QED
  BY <1>1, PoolSafety, PTL

\* The counter is exact, whichever way requests end: max(0, ...) never acts.
THEOREM Exact == Spec => []Accounting
<1>1. PoolInv => Accounting
  BY DEF PoolInv
<1> QED
  BY <1>1, PoolSafety, PTL

\* There are never more than max_connections connections, for any number of
\* threads, and the counter is exact.
THEOREM Bounded == Spec => []WithinMax
<1>1. ASSUME PoolInv
      PROVE  WithinMax
  <2>1. Holding \subseteq Counted /\ IsFiniteSet(Counted)
    BY FiniteThreads DEF Holding, Counted, InHand
  <2>2. Cardinality(Holding) <= Cardinality(Counted)
    BY <2>1, FS_Subset
  <2>3. Len(idle) \in Nat /\ lost \in Nat /\ count \in Nat /\ Max \in Nat
    BY <1>1, Lengths, PoolAssumption DEF PoolInv, TypeOK
  <2>4. Cardinality(Live) <= count
    BY <1>1, <2>2, <2>3, FiniteThreads DEF PoolInv, Accounting, Placed
  <2> QED
    BY <1>1, <2>3, <2>4, FiniteThreads DEF PoolInv, Placed, WithinMax
<1> QED
  BY <1>1, PoolSafety, PTL

-----------------------------------------------------------------------------
(* The end of a request. *)

\* The steps that are left of an attempt, and of a request with the attempts
\* still allowed.
Left == [rest |-> 0, failed |-> 1, drop |-> 2, send |-> 3, create |-> 4, wait |-> 4,
         reserve |-> 5, take |-> 6]

StepsLeft(c) == IF c.at = "rest" THEN 0 ELSE 7 * (Attempts - c.attempt) + Left[c.at]

\* Every step of a thread in a request brings it nearer to its end, and no other
\* thread's step sets it back, whichever connections break or go stale.
StepsRunOut ==
    [][\A p \in Thread : \/ At(p, "rest") \/ call'[p] = call[p]
                         \/ StepsLeft(call'[p]) < StepsLeft(call[p])]_vars

LEMMA LeftValues ==
  /\ \A s \in Step : Left[s] \in 0..6 /\ (s # "rest" => Left[s] >= 1)
  /\ Left["failed"] = 1 /\ Left["drop"] = 2 /\ Left["send"] = 3 /\ Left["create"] = 4
  /\ Left["wait"] = 4 /\ Left["reserve"] = 5 /\ Left["take"] = 6
  BY DEF Left, Step

LEMMA StepsCounted ==
  ASSUME NEW c \in Call
  PROVE  StepsLeft(c) \in Nat /\ (c.at # "rest" => StepsLeft(c) > 0)
<1>1. c.attempt \in 0..Attempts /\ Attempts \in Nat /\ c.at \in Step
  BY PoolAssumption DEF Call
<1>2. Left[c.at] \in Nat /\ (c.at # "rest" => Left[c.at] >= 1)
  BY <1>1, LeftValues
<1> QED
  BY <1>1, <1>2 DEF StepsLeft

\* A step within an attempt, and the one to the next.
LEMMA FewerSteps ==
  ASSUME NEW c \in Call, NEW d \in Call, c.at # "rest",
         \/ d.at = "rest"
         \/ d.attempt = c.attempt /\ Left[d.at] < Left[c.at]
         \/ d.attempt = c.attempt + 1
  PROVE  StepsLeft(d) < StepsLeft(c)
<1>1. /\ c.attempt \in 0..Attempts /\ d.attempt \in 0..Attempts /\ Attempts \in Nat
      /\ c.at \in Step /\ d.at \in Step
  BY PoolAssumption DEF Call
<1>2. /\ Left[c.at] \in 0..6 /\ Left[d.at] \in 0..6 /\ Left[c.at] >= 1
  BY <1>1, LeftValues
<1>3. CASE d.at = "rest"
  BY <1>3, StepsCounted DEF StepsLeft
<1>4. CASE d.attempt = c.attempt /\ Left[d.at] < Left[c.at]
  BY <1>1, <1>2, <1>4, StepsCounted DEF StepsLeft
<1>5. CASE d.attempt = c.attempt + 1
  BY <1>1, <1>2, <1>5, StepsCounted DEF StepsLeft
<1> QED
  BY <1>3, <1>4, <1>5

LEMMA StepsDecrease ==
  ASSUME PoolInv, NEW p \in Thread, Proceed(p)
  PROVE  /\ StepsLeft(call'[p]) < StepsLeft(call[p])
         /\ call'[p].at = "rest" \/ call'[p].attempt >= call[p].attempt
<1> DEFINE c == call[p]
           Nearer(d) == d \in Call /\ (\/ d.at = "rest"
                                       \/ d.attempt = c.attempt /\ Left[d.at] < Left[c.at]
                                       \/ d.attempt = c.attempt + 1)
<1>1. /\ call \in [Thread -> Call] /\ c \in Call /\ (InHand(p) => c.conn \in Conn)
      /\ (c.at = "drop" /\ c.then = "take" => c.attempt < Attempts)
      /\ (idle # <<>> => idle[Len(idle)] \in Conn)
  BY TopOfIdle DEF PoolInv, TypeOK, Budget, At
<1>2. \A d : Goto(p, d) => call'[p] = d
  BY <1>1 DEF Goto
<1>3. ASSUME NEW d, Goto(p, d), Nearer(d), c.at # "rest"
      PROVE  /\ StepsLeft(call'[p]) < StepsLeft(call[p])
             /\ call'[p].at = "rest" \/ call'[p].attempt >= call[p].attempt
  <2>1. call'[p] = d /\ d \in Call /\ c.attempt \in Nat
    BY <1>1, <1>2, <1>3 DEF Call
  <2>2. StepsLeft(d) < StepsLeft(c)
    BY <1>1, <1>3, FewerSteps
  <2> QED
    BY <1>3, <2>1, <2>2
<1>4. Nearer(Rest)
  BY RestIsACall
<1>5. \A s \in Step : Left[s] < Left[c.at] => Nearer([c EXCEPT !.at = s])
  BY <1>1 DEF Call
<1>6. ASSUME NEW d \in Conn, c.at \in {"take", "wait", "create"}
      PROVE  Nearer([c EXCEPT !.at = "send", !.conn = d])
  <2> DEFINE e == [c EXCEPT !.at = "send", !.conn = d]
  <2>1. e \in Call /\ e.at = "send" /\ e.attempt = c.attempt
    BY <1>1 DEF Call, Step
  <2> HIDE DEF e
  <2>2. Nearer(e)
    BY <1>6, <2>1, LeftValues
  <2> QED
    BY <2>2 DEF e
<1>7. ASSUME c.at = "send", NEW t \in {"rest", "take", "failed"}
      PROVE  Nearer([c EXCEPT !.at = "drop", !.then = t])
  <2> DEFINE e == [c EXCEPT !.at = "drop", !.then = t]
  <2>1. e \in Call /\ e.at = "drop" /\ e.attempt = c.attempt
    BY <1>1 DEF Call, Step
  <2> HIDE DEF e
  <2>2. Nearer(e)
    BY <1>7, <2>1, LeftValues
  <2> QED
    BY <2>2 DEF e
<1>8. ASSUME c.at = "drop" PROVE Nearer(Resumed(c))
  <2>1. CASE c.then = "rest"
    BY <1>4, <2>1 DEF Resumed
  <2>2. CASE c.then = "take"
    <3> DEFINE n == c.attempt + 1
               e == [c EXCEPT !.at = "take", !.conn = None, !.attempt = n]
    <3>1. n \in 0..Attempts
      BY <1>1, <1>8, <2>2, PoolAssumption DEF Call
    <3>2. e \in Call /\ e.attempt = n
      <4> HIDE DEF n
      <4> QED
        BY <1>1, <3>1 DEF Call, Step
    <3>3. Resumed(c) = e
      BY <1>1, <2>2 DEF Resumed, Call
    <3> HIDE DEF e
    <3> QED
      BY <3>2, <3>3
  <2>3. CASE c.then = "failed"
    <3> DEFINE e == [c EXCEPT !.at = "failed", !.conn = None]
    <3>1. e \in Call /\ e.at = "failed" /\ e.attempt = c.attempt
      BY <1>1 DEF Call, Step
    <3>2. Resumed(c) = e
      BY <2>3 DEF Resumed
    <3> HIDE DEF e
    <3>3. Nearer(e)
      BY <1>8, <3>1, LeftValues
    <3> QED
      BY <3>2, <3>3
  <2> QED
    BY <1>1, <2>1, <2>2, <2>3 DEF Call
<1>9. CASE Take(p) \/ Reserve(p)
  <2>1. \/ c.at = "take" /\ Pop(p)
        \/ c.at = "take" /\ Goto(p, [c EXCEPT !.at = "reserve"])
        \/ c.at = "reserve" /\ Goto(p, [c EXCEPT !.at = "create"])
        \/ c.at = "reserve" /\ Goto(p, [c EXCEPT !.at = "wait"])
    BY <1>9 DEF Take, Reserve, At
  <2>2. /\ c.at = "take" => Nearer([c EXCEPT !.at = "reserve"])
        /\ c.at = "reserve" => Nearer([c EXCEPT !.at = "create"])
        /\ c.at = "reserve" => Nearer([c EXCEPT !.at = "wait"])
    BY <1>5, LeftValues DEF Step
  <2> HIDE DEF Nearer
  <2> QED
    BY <1>1, <1>3, <1>6, <2>1, <2>2 DEF Pop
<1>10. CASE Create(p) \/ Wait(p)
  <2>1. c.at \in {"create", "wait"}
        /\ \E d \in Conn : Goto(p, [c EXCEPT !.at = "send", !.conn = d])
    BY <1>1, <1>10 DEF Create, Wait, Pop, At
  <2> HIDE DEF Nearer
  <2> QED
    BY <1>3, <1>6, <2>1
<1>11. CASE Answer(p) \/ Break(p)
  <2>1. c.at = "send" /\ (\/ Goto(p, Rest)
                          \/ \E t \in {"rest", "take", "failed"} :
                                Goto(p, [c EXCEPT !.at = "drop", !.then = t]))
    BY <1>11 DEF Answer, Break, AfterFailure, At
  <2> HIDE DEF Nearer
  <2> QED
    BY <1>3, <1>4, <1>7, <2>1
<1>12. CASE Drop(p)
  <2>1. c.at = "drop" /\ Goto(p, Resumed(c))
    BY <1>12 DEF Drop, At
  <2> HIDE DEF Nearer
  <2> QED
    BY <1>3, <1>8, <2>1
<1>13. CASE CreateFail(p) \/ TimeOut(p) \/ Escape(p) \/ DropRaising(p) \/ Fail(p)
  <2>1. c.at # "rest" /\ Goto(p, Rest)
    BY <1>13 DEF CreateFail, TimeOut, Escape, DropRaising, Fail, At
  <2> HIDE DEF Nearer
  <2> QED
    BY <1>3, <1>4, <2>1
<1> QED
  BY <1>9, <1>10, <1>11, <1>12, <1>13 DEF Proceed

\* Attempts are counted from one.
Counting == \A p \in Thread : At(p, "rest") \/ call[p].attempt >= 1

\* A step of another thread leaves this one where it is.
LEMMA OthersStay ==
  ASSUME TypeOK, NEW q \in Thread, Request(q) \/ Proceed(q), NEW p \in Thread, q # p
  PROVE  call'[p] = call[p]
<1>1. \E d : Goto(q, d)
  BY DEF Request, Proceed, Take, Pop, Reserve, Create, CreateFail, Wait, TimeOut,
         Answer, Break, Escape, Drop, DropRaising, Fail
<1> QED
  BY <1>1 DEF TypeOK, Goto

LEMMA CountingAgain ==
  ASSUME PoolInv, Counting, [Next]_vars
  PROVE  Counting'
<1>1. TypeOK /\ call \in [Thread -> Call]
  BY DEF PoolInv, TypeOK
<1>2. ASSUME NEW p \in Thread, Request(p)
      PROVE  call'[p].attempt = 1
  <2>1. call'[p] = [Rest EXCEPT !.at = "take", !.attempt = 1]
    BY <1>1, <1>2 DEF Request, Goto
  <2> QED
    BY <2>1 DEF Rest
<1>3. ASSUME NEW p \in Thread, Proceed(p)
      PROVE  call'[p].at = "rest" \/ call'[p].attempt >= 1
  <2>1. ~At(p, "rest")
    BY <1>3 DEF Proceed, Take, Reserve, Create, CreateFail, Wait, TimeOut, Answer, Break,
                Escape, Drop, DropRaising, Fail, At
  <2>2. call[p].attempt >= 1 /\ call[p].attempt \in Nat
    BY <1>1, <2>1 DEF Counting, Call
  <2>3. call'[p].at = "rest" \/ call'[p].attempt >= call[p].attempt
    BY <1>3, StepsDecrease
  <2>4. call'[p] \in Call
    BY TypesAgain DEF TypeOK
  <2> QED
    BY <2>2, <2>3, <2>4 DEF Call
<1>4. ASSUME NEW p \in Thread, call'[p] = call[p]
      PROVE  call'[p].at = "rest" \/ call'[p].attempt >= 1
  BY <1>4 DEF Counting, At
<1>5. ASSUME NEW p \in Thread
      PROVE  call'[p].at = "rest" \/ call'[p].attempt >= 1
  BY <1>1, <1>2, <1>3, <1>4, OthersStay DEF Next, GoStale, vars
<1> QED
  BY <1>5 DEF Counting, At

\* A request is over after less than seven of its own steps for each attempt,
\* with any number of threads and whatever breaks.
THEOREM RequestsBounded ==
  Spec => /\ [](\A p \in Thread : StepsLeft(call[p]) \in 0..(7 * Attempts - 1))
          /\ StepsRunOut
<1>1. PoolInv /\ Counting => \A p \in Thread : StepsLeft(call[p]) \in 0..(7 * Attempts - 1)
  <2> SUFFICES ASSUME PoolInv, Counting, NEW p \in Thread
               PROVE  StepsLeft(call[p]) \in 0..(7 * Attempts - 1)
    OBVIOUS
  <2>1. /\ call[p] \in Call /\ Attempts \in Nat \ {0} /\ call[p].at \in Step
        /\ call[p].attempt \in 0..Attempts
    BY PoolAssumption DEF PoolInv, TypeOK, Call
  <2>2. call[p].at # "rest" => call[p].attempt >= 1
    BY DEF Counting, At
  <2>3. Left[call[p].at] \in 0..6
    BY <2>1, LeftValues
  <2>4. CASE call[p].at = "rest"
    BY <2>1, <2>4 DEF StepsLeft
  <2>5. CASE call[p].at # "rest"
    <3> DEFINE n == call[p].attempt
               l == Left[call[p].at]
    <3>1. n \in 1..Attempts /\ l \in 0..6 /\ StepsLeft(call[p]) = 7 * (Attempts - n) + l
      BY <2>1, <2>2, <2>3, <2>5 DEF StepsLeft
    <3> HIDE DEF n, l
    <3>2. StepsLeft(call[p]) \in 0..(7 * Attempts - 1)
      BY <2>1, <3>1
    <3> QED
      BY <3>2
  <2> QED
    BY <2>4, <2>5
<1>2. PoolInv /\ [Next]_vars =>
        [\A p \in Thread : \/ At(p, "rest") \/ call'[p] = call[p]
                           \/ StepsLeft(call'[p]) < StepsLeft(call[p])]_vars
  <2> SUFFICES ASSUME PoolInv, Next, NEW p \in Thread, ~At(p, "rest")
               PROVE  call'[p] = call[p] \/ StepsLeft(call'[p]) < StepsLeft(call[p])
    BY DEF vars
  <2>1. ASSUME NEW q \in Thread, Request(q) \/ Proceed(q), q # p
        PROVE  call'[p] = call[p]
    BY <2>1, OthersStay DEF PoolInv
  <2>2. ~Request(p)
    BY DEF Request
  <2> QED
    BY <2>1, <2>2, StepsDecrease DEF Next, GoStale
<1>3. Init => Counting
  BY RestIsACall DEF Init, Counting, At
<1> QED
  BY <1>1, <1>2, <1>3, CountingAgain, PoolSafety, PTL DEF Spec, StepsRunOut

\* Nor does it come to a standstill: whoever is to make a connection finds one
\* that is closed, since the reservations keep the number of live ones below
\* the limit, and whoever sends has one that is not.
NobodyStuck ==
    \A p \in Thread :
        /\ At(p, "create") => \E c \in Conn : line[c] = "closed"
        /\ At(p, "send") => line[call[p].conn] \in {"open", "stale"}

\* If Conn has as many connections as the pool may have.
THEOREM NoStandstill ==
  ASSUME IsFiniteSet(Conn), Cardinality(Conn) >= Max
  PROVE  Spec => []NobodyStuck
<1>1. ASSUME PoolInv, NEW p \in Thread, At(p, "create")
      PROVE  \E c \in Conn : line[c] = "closed"
  <2>1. p \in Counted \ Holding /\ Holding \subseteq Counted /\ IsFiniteSet(Counted)
    BY <1>1, FiniteThreads DEF Holding, Counted, InHand, At
  <2>2. Cardinality(Counted \ {p}) = Cardinality(Counted) - 1 /\ IsFiniteSet(Counted \ {p})
    BY <2>1, FS_RemoveElement
  <2>3. Holding \subseteq Counted \ {p}
    BY <2>1
  <2>4. Cardinality(Holding) <= Cardinality(Counted) - 1
    BY <2>2, <2>3, FS_Subset
  <2>5. Len(idle) \in Nat /\ lost \in Nat /\ count \in Nat /\ Max \in Nat
    BY <1>1, Lengths, PoolAssumption DEF PoolInv, TypeOK
  <2>6. Cardinality(Live) < Max
    BY <1>1, <2>4, <2>5, FiniteThreads DEF PoolInv, Accounting, Placed
  <2>7. Cardinality(Conn) \in Nat
    BY FS_CardinalityType
  <2>8. Live # Conn
    BY <2>5, <2>6, <2>7
  <2> QED
    BY <2>8 DEF Live
<1>2. ASSUME PoolInv, NEW p \in Thread, At(p, "send")
      PROVE  line[call[p].conn] \in {"open", "stale"}
  BY <1>2 DEF PoolInv, TypeOK, Exclusive, InHand, At
<1>3. PoolInv => NobodyStuck
  BY <1>1, <1>2 DEF NobodyStuck
<1> QED
  BY <1>3, PoolSafety, PTL
=============================================================================
