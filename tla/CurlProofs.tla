----------------------------- MODULE CurlProofs -----------------------------
(***************************************************************************)
(* Proofs about CurlCapture: what a call tells of the response is true,    *)
(* what it stores is settled, and its temporary files go.  Callers share   *)
(* only the store, so the invariant speaks of one caller at a time.        *)
(***************************************************************************)
EXTENDS CurlCapture, TLAPS

\* What is known of the process and the response, whatever the thread does.
ProcessOK(p) ==
    /\ curl[p].state \in {"none", "connecting"} =>
          answer[p] = None /\ curl[p].out = 0
    /\ curl[p].state = "running" =>
          answer[p] \in Answer /\ curl[p].out <= answer[p].total
    /\ Exited(p) =>
          /\ answer[p] = None => curl[p].out = 0
          /\ curl[p].code \in {"ok", "timeout", "filesize", "failed", "signal"}
          /\ curl[p].code = "ok" => answer[p] \in Answer /\ curl[p].out = answer[p].total
          /\ curl[p].code = "timeout" => due[p] \/ answer[p] = None
          /\ curl[p].code = "filesize" => answer[p] \in Answer /\ answer[p].total > MaxBytes
          /\ curl[p].code = "signal" => curl[p].signal # "none"

\* Why the loop was left, until Measure looks at the exit code.
LeftOK(p) ==
    \/ stop[p] = "curl_exit" /\ Exited(p) /\ curl[p].signal = "none" /\ ~At(p, "killed")
    \/ stop[p] = "max_bytes" /\ curl[p].out >= MaxBytes
    \/ stop[p] = "duration" /\ due[p]

ReasonOK(p) ==
    \/ stop[p] = "eof" /\ answer[p] \in Answer /\ curl[p].out = answer[p].total
    \/ /\ stop[p] = "max_bytes" /\ answer[p] \in Answer
       /\ curl[p].out >= MaxBytes \/ answer[p].total > MaxBytes
    \/ stop[p] = "duration" /\ (due[p] \/ answer[p] = None)
    \/ stop[p] = "curl_error" /\ curl[p].code = "failed"

\* What a download or a capture has made sure of before it stores the output.
Storable(p) ==
    /\ Exited(p) /\ size[p] = curl[p].out
    /\ args[p].tool \in {"download", "stream"}
    /\ args[p].tool = "download" => Fit(p)
    /\ args[p].tool = "stream" => ReasonOK(p)

ThreadOK(p) ==
    /\ at[p] \in {"spawn", "wait", "poll", "look", "answered"} =>
          stop[p] = "curl_exit" /\ curl[p].signal = "none"
    /\ At(p, "spawn") => curl[p].state = "none"
    /\ at[p] \in {"wait", "reap", "answered"} => args[p].tool # "stream"
    /\ at[p] \in {"poll", "look", "communicate", "killed", "measure"} =>
          args[p].tool = "stream"
    /\ at[p] \in {"communicate", "killed", "measure"} => LeftOK(p)
    /\ at[p] \in {"answered", "measure"} => Exited(p)
    /\ at[p] \in {"hash", "admit", "preview"} => Storable(p)
    /\ at[p] \in {"admit", "preview"} => file[p] = curl[p].out
    /\ at[p] \in {"answered", "measure", "hash", "admit", "preview"} => "body" \notin temp[p]

\* What an answer rests on, and what a call leaves.
RestOK(p) ==
    At(p, "idle") =>
        /\ result[p].how = "result" =>
              /\ args[p].tool = "request" => Exited(p) /\ (result[p].told \/ curl[p].code = "ok")
              /\ args[p].tool # "request" => Storable(p) /\ file[p] = curl[p].out
              /\ args[p].tool = "stream" => result[p].told \/ stop[p] = "eof"
        /\ temp[p] # {} =>
              /\ result[p].how \in {"refused", "unspawned", "garbled", "stuck", "crash"}
              /\ "body" \in temp[p] => result[p].how \in {"refused", "unspawned", "crash"}

CallerOK(p) == ProcessOK(p) /\ ThreadOK(p) /\ RestOK(p)

CurlInv == TypeOK /\ \A p \in Caller : CallerOK(p)

\* A step of caller p leaves all the others have.
Leaves(p) ==
    \A q \in Caller \ {p} :
        /\ at'[q] = at[q] /\ args'[q] = args[q] /\ due'[q] = due[q]
        /\ curl'[q] = curl[q] /\ answer'[q] = answer[q] /\ temp'[q] = temp[q]
        /\ stop'[q] = stop[q] /\ size'[q] = size[q] /\ file'[q] = file[q]
        /\ result'[q] = result[q]

-----------------------------------------------------------------------------
(* What a step has to show. *)

\* Nothing changes for a caller whose variables stay.
LEMMA Frame ==
    ASSUME NEW q \in Caller, CallerOK(q),
           at'[q] = at[q], args'[q] = args[q], due'[q] = due[q], curl'[q] = curl[q],
           answer'[q] = answer[q], temp'[q] = temp[q], stop'[q] = stop[q],
           size'[q] = size[q], file'[q] = file[q], result'[q] = result[q]
    PROVE  CallerOK(q)'
  <1>1. ProcessOK(q)'
    BY DEF CallerOK, ProcessOK, Exited
  <1>2. ThreadOK(q)'
    BY DEF CallerOK, ThreadOK, LeftOK, Storable, ReasonOK, Fit, Exited, At
  <1>3. RestOK(q)'
    BY DEF CallerOK, RestOK, Storable, ReasonOK, Fit, Exited, At
  <1>4. QED
    BY <1>1, <1>2, <1>3 DEF CallerOK

\* A step of one caller keeps the invariant if it keeps it for this caller.
LEMMA OneCaller ==
    ASSUME CurlInv, NEW p \in Caller, TypeOK', Leaves(p), CallerOK(p)'
    PROVE  CurlInv'
  <1>1. ASSUME NEW q \in Caller PROVE CallerOK(q)'
    <2>1. CASE q = p
      BY <2>1
    <2>2. CASE q # p
      <3>1. CallerOK(q)
        BY DEF CurlInv
      <3>2. QED
        BY <2>2, <3>1, Frame DEF Leaves
    <2>3. QED
      BY <2>1, <2>2
  <1>2. QED
    BY <1>1 DEF CurlInv

-----------------------------------------------------------------------------
(* Types. *)

\* Every action keeps the types.
LEMMA BeginTypes ==
    ASSUME TypeOK, NEW p \in Caller, NEW a \in Args, Begin(p, a) \/ Refuse(p, a)
    PROVE  TypeOK' /\ Leaves(p)
  <1>1. Files(a) \subseteq Temp /\ \A k \in Made(a) : k \subseteq Temp
    BY DEF Files, Made, Temp
  <1>2. NoCurl \in Curl
    BY DEF NoCurl, Curl, Code
  <1>3. CASE Begin(p, a)
    BY <1>1, <1>2, <1>3 DEF TypeOK, Leaves, Begin, Prepare, Goto, Step,
       Reason, Result
  <1>4. CASE Refuse(p, a)
    <2>1. PICK k \in Made(a) : End(p, "refused", TRUE, k)
      BY <1>4 DEF Refuse
    <2>2. QED
      BY <1>1, <1>2, <1>4, <2>1
      DEF TypeOK, Leaves, Refuse, Prepare, End, Goto, Step, Reason, Result
  <1>5. QED
    BY <1>3, <1>4

LEMMA SignalTypes ==
    ASSUME TypeOK, NEW p \in Caller, NEW s \in {"term", "kill"}, Signal(p, s)
    PROVE  /\ curl' \in [Caller -> Curl]
           /\ \A q \in Caller \ {p} : curl'[q] = curl[q]
  <1>1. curl[p] \in Curl
    BY DEF TypeOK
  <1>2. [state |-> curl[p].state, code |-> curl[p].code, out |-> curl[p].out,
         signal |-> IF Exited(p) THEN curl[p].signal ELSE s] \in Curl
    BY <1>1 DEF Curl
  <1>3. QED
    BY <1>2 DEF TypeOK, Signal

LEMMA ProcessTypes ==
    ASSUME TypeOK, NEW p \in Caller,
           \/ Spawn(p) \/ Receive(p)
           \/ (\E a \in Answer : Connect(p, a)) \/ (\E code \in Code : Exit(p, code))
    PROVE  TypeOK' /\ Leaves(p)
  <1>1. curl[p] \in Curl /\ curl[p].out \in Nat /\ curl[p].signal \in {"none", "term", "kill"}
    BY DEF TypeOK, Curl
  <1>2. CASE Spawn(p)
    BY <1>1, <1>2 DEF TypeOK, Leaves, Spawn, Goto, Step, Curl, Code
  <1>3. CASE Receive(p)
    BY <1>1, <1>3 DEF TypeOK, Leaves, Receive, Curl, Code
  <1>4. ASSUME NEW a \in Answer, Connect(p, a) PROVE TypeOK' /\ Leaves(p)
    BY <1>1, <1>4 DEF TypeOK, Leaves, Connect, Curl, Code
  <1>5. ASSUME NEW code \in Code, Exit(p, code) PROVE TypeOK' /\ Leaves(p)
    BY <1>1, <1>5 DEF TypeOK, Leaves, Exit, Curl
  <1>6. QED
    BY <1>2, <1>3, <1>4, <1>5

LEMMA MoveTypes ==
    ASSUME TypeOK, NEW p \in Caller,
           \/ Answered(p) \/ Poll(p) \/ Collect(p) \/ Measure(p) \/ Elapse(p)
    PROVE  TypeOK' /\ Leaves(p)
  <1>1. temp[p] \ {"body"} \subseteq Temp
    BY DEF TypeOK
  <1>2. CASE Answered(p)
    BY <1>1, <1>2 DEF TypeOK, Leaves, Answered, Goto, Drop, Step
  <1>3. CASE Poll(p)
    BY <1>3 DEF TypeOK, Leaves, Poll, Goto, Step
  <1>4. CASE Collect(p)
    BY <1>1, <1>4 DEF TypeOK, Leaves, Collect, Goto, Drop, Step, Reason
  <1>5. CASE Measure(p)
    <2>1. Classified(p) \in Reason /\ curl[p].out \in Nat
      BY DEF TypeOK, Classified, Reason, Curl
    <2>2. QED
      BY <1>5, <2>1 DEF TypeOK, Leaves, Measure, Goto, Step
  <1>6. CASE Elapse(p)
    BY <1>6 DEF TypeOK, Leaves, Elapse
  <1>7. QED
    BY <1>2, <1>3, <1>4, <1>5, <1>6

LEMMA SignallingTypes ==
    ASSUME TypeOK, NEW p \in Caller, Expire(p) \/ Kill(p) \/ Look(p)
    PROVE  TypeOK' /\ Leaves(p)
  <1>1. CASE Expire(p)
    <2>1. Signal(p, "kill")
      BY <1>1 DEF Expire
    <2>2. QED
      BY <1>1, <2>1, SignalTypes DEF TypeOK, Leaves, Expire, Goto, Step
  <1>2. CASE Kill(p)
    <2>1. Signal(p, "kill")
      BY <1>2 DEF Kill
    <2>2. QED
      BY <1>2, <2>1, SignalTypes DEF TypeOK, Leaves, Kill, Goto, Step
  <1>3. ASSUME Look(p), NEW r \in {"max_bytes", "duration"}, Halt(p, r)
        PROVE  TypeOK' /\ Leaves(p)
    <2>1. Signal(p, "term")
      BY <1>3 DEF Halt
    <2>2. QED
      BY <1>3, <2>1, SignalTypes DEF TypeOK, Leaves, Look, Halt, Goto, Step,
         Reason
  <1>4. ASSUME Look(p), Goto(p, "poll"), UNCHANGED <<stop, curl>>
        PROVE  TypeOK' /\ Leaves(p)
    BY <1>4 DEF TypeOK, Leaves, Look, Goto, Step
  <1>5. QED
    BY <1>1, <1>2, <1>3, <1>4 DEF Look

LEMMA EndingTypes ==
    ASSUME TypeOK, NEW p \in Caller,
           \/ SpawnFails(p) \/ Reap(p) \/ Garble(p) \/ Reply(p) \/ GiveUp(p) \/ Preview(p)
    PROVE  TypeOK' /\ Leaves(p)
  <1>1. temp[p] \subseteq Temp /\ temp[p] \ {"body"} \subseteq Temp /\ {} \subseteq Temp
    BY DEF TypeOK
  <1>2. CASE SpawnFails(p)
    <2>1. (IF args[p].tool = "stream" THEN temp[p] ELSE temp[p] \ {"body"}) \in SUBSET Temp
      BY <1>1
    <2>2. QED
      BY <1>2, <2>1 DEF SpawnFails, TypeOK, Leaves, End, Goto, Step, Result
  <1>3. CASE Reap(p)
    BY <1>1, <1>3 DEF Reap, TypeOK, Leaves, End, Goto, Step, Result
  <1>4. CASE Garble(p)
    BY <1>1, <1>4 DEF Garble, TypeOK, Leaves, End, Goto, Step, Result
  <1>5. CASE Reply(p)
    <2>1. (curl[p].code # "ok" \/ curl[p].out >= MaxBytes) \in BOOLEAN
      OBVIOUS
    <2>2. QED
      BY <1>1, <1>5, <2>1 DEF Reply, TypeOK, Leaves, End, Goto, Step, Result
  <1>6. CASE GiveUp(p)
    BY <1>1, <1>6 DEF GiveUp, TypeOK, Leaves, End, Goto, Step, Result
  <1>7. CASE Preview(p)
    <2>1. \E how \in {"result", "error"}, told \in BOOLEAN : End(p, how, told, {})
      BY <1>7, Zenon DEF Preview, Fail
    <2>2. PICK how \in {"result", "error"}, told \in BOOLEAN : End(p, how, told, {})
      BY <2>1
    <2>3. UNCHANGED <<args, due, curl, answer, stop, size, file, store>>
      BY <1>7 DEF Preview
    <2>4. QED
      BY <1>1, <2>2, <2>3 DEF TypeOK, Leaves, End, Goto, Step, Result
  <1>8. QED
    BY <1>2, <1>3, <1>4, <1>5, <1>6, <1>7

LEMMA StoringTypes ==
    ASSUME TypeOK, NEW p \in Caller, Check(p) \/ Hash(p) \/ Admit(p)
    PROVE  TypeOK' /\ Leaves(p)
  <1>1. curl[p].out \in Nat /\ file[p] \in Nat /\ {} \subseteq Temp
        /\ temp[p] \ {"output"} \subseteq Temp
    BY DEF TypeOK, Curl
  <1>2. ASSUME Fail(p), UNCHANGED <<args, due, curl, answer, stop, size, file, store>>
        PROVE  TypeOK' /\ Leaves(p)
    BY <1>1, <1>2 DEF Fail, TypeOK, Leaves, End, Goto, Step, Result
  <1>3. CASE Check(p)
    <2>1. CASE Fit(p)
      BY <1>1, <1>3, <2>1 DEF TypeOK, Leaves, Check, Goto, Step
    <2>2. CASE ~Fit(p)
      BY <1>2, <1>3, <2>2 DEF Check
    <2>3. QED
      BY <2>1, <2>2
  <1>4. CASE Hash(p)
    <2>1. CASE curl[p].out <= UploadMax
      BY <1>1, <1>4, <2>1 DEF TypeOK, Leaves, Hash, Goto, Step
    <2>2. CASE ~(curl[p].out <= UploadMax)
      BY <1>2, <1>4, <2>2 DEF Hash
    <2>3. QED
      BY <2>1, <2>2
  <1>5. CASE Admit(p)
    <2>1. CASE Fail(p) /\ UNCHANGED store
      BY <1>2, <1>5, <2>1 DEF Admit
    <2>2. CASE /\ Goto(p, "preview") /\ store' = store \cup {file[p]}
               /\ Drop(p, "output") /\ UNCHANGED result
      BY <1>1, <1>5, <2>2 DEF TypeOK, Leaves, Admit, Goto, Drop, Step
    <2>3. QED
      BY <1>5, <2>1, <2>2 DEF Admit
  <1>6. QED
    BY <1>3, <1>4, <1>5
-----------------------------------------------------------------------------
(* The steps. *)

\* What holds of the process goes on to hold when only the thread moves.
LEMMA ProcessKeeps ==
    ASSUME NEW p \in Caller, CallerOK(p), UNCHANGED <<due, curl, answer>>
    PROVE  ProcessOK(p)'
  BY DEF CallerOK, ProcessOK, Exited

\* A signal changes neither what was received nor the exit code.
LEMMA SignalKeeps ==
    ASSUME TypeOK, NEW p \in Caller, CallerOK(p), NEW s \in {"term", "kill"},
           Signal(p, s), UNCHANGED <<due, answer>>
    PROVE  /\ ProcessOK(p)'
           /\ curl'[p].state = curl[p].state /\ curl'[p].out = curl[p].out
           /\ Exited(p) => curl'[p].signal = curl[p].signal
  <1>1. curl'[p] = [state |-> curl[p].state, code |-> curl[p].code, out |-> curl[p].out,
                    signal |-> IF Exited(p) THEN curl[p].signal ELSE s]
    BY DEF TypeOK, Signal
  <1>2. QED
    BY <1>1 DEF CallerOK, ProcessOK, Exited

\* The start: nothing is known of the new process.
LEMMA BeginStep ==
    ASSUME CurlInv, NEW p \in Caller, NEW a \in Args, Begin(p, a) \/ Refuse(p, a)
    PROVE  CallerOK(p)'
  <1>1. TypeOK /\ CallerOK(p)
    BY DEF CurlInv
  <1>2. curl'[p] = NoCurl /\ answer'[p] = None
    BY <1>1 DEF TypeOK, Begin, Refuse, Prepare
  <1>3. ProcessOK(p)'
    BY <1>2 DEF ProcessOK, Exited, NoCurl
  <1>4. ThreadOK(p)'
    BY <1>1 DEF TypeOK, ThreadOK, LeftOK, Storable, ReasonOK, Fit, Exited, At,
       Begin, Refuse, Prepare, NoCurl, End, Goto
  <1>5. RestOK(p)'
    BY <1>1 DEF TypeOK, RestOK, At, Begin, Refuse, Prepare, End, Goto
  <1>9. QED
    BY <1>2, <1>3, <1>4, <1>5 DEF CallerOK

\* The process.
LEMMA SpawnStep ==
    ASSUME CurlInv, NEW p \in Caller, Spawn(p)
    PROVE  CallerOK(p)'
  <1>1. TypeOK /\ CallerOK(p)
    BY DEF CurlInv
  <1>2. ProcessOK(p)'
    BY <1>1 DEF TypeOK, CallerOK, ThreadOK, ProcessOK, Exited, At, Spawn
  <1>3. ThreadOK(p)'
    BY <1>1 DEF TypeOK, CallerOK, Args, Tool, ThreadOK, LeftOK, Storable,
       ReasonOK, Fit, Exited, At, Spawn, Goto
  <1>4. RestOK(p)'
    BY <1>1 DEF TypeOK, RestOK, At, Spawn, Goto
  <1>9. QED
    BY <1>2, <1>3, <1>4 DEF CallerOK

LEMMA ConnectStep ==
    ASSUME CurlInv, NEW p \in Caller, NEW a \in Answer, Connect(p, a)
    PROVE  CallerOK(p)'
  <1>1. TypeOK /\ CallerOK(p)
    BY DEF CurlInv
  <1>2. /\ curl'[p] = [state |-> "running", code |-> "none", out |-> 0, signal |-> curl[p].signal]
       /\ answer'[p] = a
    BY <1>1 DEF TypeOK, Connect
  <1>3. None \notin Answer /\ \A b \in Answer : b.total \in Nat
    BY CurlAssumption DEF Answer
  <1>4. curl[p].out \in Nat
    BY <1>1 DEF TypeOK, Curl
  <1>5. ProcessOK(p)'
    BY <1>1, <1>2, <1>3, <1>4 DEF TypeOK, CallerOK, ProcessOK, Exited,
       MayExit, Connect
  <1>6. ThreadOK(p)'
    BY <1>1, <1>2, CurlAssumption DEF TypeOK, CallerOK, ProcessOK, Curl,
       Answer, ThreadOK, LeftOK, Storable, ReasonOK, Fit, Exited, At, MayExit,
       Connect
  <1>7. RestOK(p)'
    BY <1>1, <1>2 DEF TypeOK, CallerOK, ThreadOK, LeftOK, Storable, ReasonOK,
       Fit, RestOK, Exited, At, Connect
  <1>9. QED
    BY <1>2, <1>3, <1>4, <1>5, <1>6, <1>7 DEF CallerOK

LEMMA ReceiveStep ==
    ASSUME CurlInv, NEW p \in Caller, Receive(p)
    PROVE  CallerOK(p)'
  <1>1. TypeOK /\ CallerOK(p)
    BY DEF CurlInv
  <1>2. curl'[p] = [state |-> "running", code |-> "none", out |-> curl[p].out + 1, signal |-> curl[p].signal]
    BY <1>1 DEF TypeOK, Receive
  <1>3. None \notin Answer /\ \A b \in Answer : b.total \in Nat
    BY CurlAssumption DEF Answer
  <1>4. curl[p].out \in Nat
    BY <1>1 DEF TypeOK, Curl
  <1>5. ProcessOK(p)'
    BY <1>1, <1>2, <1>3, <1>4 DEF TypeOK, CallerOK, ProcessOK, Exited,
       MayExit, Receive
  <1>6. ThreadOK(p)'
    BY <1>1, <1>2, CurlAssumption DEF TypeOK, CallerOK, ProcessOK, Curl,
       Answer, ThreadOK, LeftOK, Storable, ReasonOK, Fit, Exited, At, MayExit,
       Receive
  <1>7. RestOK(p)'
    BY <1>1, <1>2 DEF TypeOK, CallerOK, ThreadOK, LeftOK, Storable, ReasonOK,
       Fit, RestOK, Exited, At, Receive
  <1>9. QED
    BY <1>2, <1>3, <1>4, <1>5, <1>6, <1>7 DEF CallerOK

LEMMA ExitStep ==
    ASSUME CurlInv, NEW p \in Caller, NEW code \in Code, Exit(p, code)
    PROVE  CallerOK(p)'
  <1>1. TypeOK /\ CallerOK(p)
    BY DEF CurlInv
  <1>2. curl'[p] = [state |-> "exited", code |-> code, out |-> curl[p].out, signal |-> curl[p].signal]
    BY <1>1 DEF TypeOK, Exit
  <1>3. None \notin Answer /\ \A b \in Answer : b.total \in Nat
    BY CurlAssumption DEF Answer
  <1>4. curl[p].out \in Nat
    BY <1>1 DEF TypeOK, Curl
  <1>5. ProcessOK(p)'
    BY <1>1, <1>2, <1>3, <1>4 DEF TypeOK, CallerOK, ProcessOK, Exited,
       MayExit, Exit
  <1>6. ThreadOK(p)'
    BY <1>1, <1>2, CurlAssumption DEF TypeOK, CallerOK, ProcessOK, Curl,
       Answer, ThreadOK, LeftOK, Storable, ReasonOK, Fit, Exited, At, MayExit,
       Exit
  <1>7. RestOK(p)'
    BY <1>1, <1>2 DEF TypeOK, CallerOK, ThreadOK, LeftOK, Storable, ReasonOK,
       Fit, RestOK, Exited, At, Exit
  <1>9. QED
    BY <1>2, <1>3, <1>4, <1>5, <1>6, <1>7 DEF CallerOK

LEMMA ElapseStep ==
    ASSUME CurlInv, NEW p \in Caller, Elapse(p)
    PROVE  CallerOK(p)'
  <1>1. TypeOK /\ CallerOK(p)
    BY DEF CurlInv
  <1>2. due'[p]
    BY <1>1 DEF TypeOK, Elapse
  <1>3. None \notin Answer /\ \A b \in Answer : b.total \in Nat
    BY CurlAssumption DEF Answer
  <1>4. curl[p].out \in Nat
    BY <1>1 DEF TypeOK, Curl
  <1>5. ProcessOK(p)'
    BY <1>1, <1>2, <1>3, <1>4 DEF TypeOK, CallerOK, ProcessOK, Exited,
       MayExit, Elapse
  <1>6. ThreadOK(p)'
    BY <1>1, <1>2, CurlAssumption DEF TypeOK, CallerOK, ProcessOK, Curl,
       Answer, ThreadOK, LeftOK, Storable, ReasonOK, Fit, Exited, At, MayExit,
       Elapse
  <1>7. RestOK(p)'
    BY <1>1, <1>2 DEF TypeOK, CallerOK, ThreadOK, LeftOK, Storable, ReasonOK,
       Fit, RestOK, Exited, At, Elapse
  <1>9. QED
    BY <1>2, <1>3, <1>4, <1>5, <1>6, <1>7 DEF CallerOK

\* The thread.
LEMMA PollStep ==
    ASSUME CurlInv, NEW p \in Caller, Poll(p)
    PROVE  CallerOK(p)'
  <1>1. TypeOK /\ CallerOK(p)
    BY DEF CurlInv
  <1>2. ProcessOK(p)'
    BY <1>1, ProcessKeeps DEF Poll
  <1>3. ThreadOK(p)'
    BY <1>1 DEF TypeOK, CallerOK, ThreadOK, LeftOK, Storable, ReasonOK, Fit,
       Exited, At, Poll, Goto
  <1>4. RestOK(p)'
    BY <1>1 DEF TypeOK, CallerOK, ThreadOK, LeftOK, Storable, ReasonOK, Fit,
       RestOK, Exited, At, Poll, Goto
  <1>9. QED
    BY <1>2, <1>3, <1>4 DEF CallerOK

LEMMA AnsweredStep ==
    ASSUME CurlInv, NEW p \in Caller, Answered(p)
    PROVE  CallerOK(p)'
  <1>1. TypeOK /\ CallerOK(p)
    BY DEF CurlInv
  <1>2. ProcessOK(p)'
    BY <1>1, ProcessKeeps DEF Answered
  <1>3. ThreadOK(p)'
    BY <1>1 DEF TypeOK, CallerOK, ThreadOK, LeftOK, Storable, ReasonOK, Fit,
       Exited, At, Answered, Goto, Drop
  <1>4. RestOK(p)'
    BY <1>1 DEF TypeOK, CallerOK, ThreadOK, LeftOK, Storable, ReasonOK, Fit,
       RestOK, Exited, At, Answered, Goto, Drop
  <1>9. QED
    BY <1>2, <1>3, <1>4 DEF CallerOK

LEMMA ReapStep ==
    ASSUME CurlInv, NEW p \in Caller, Reap(p)
    PROVE  CallerOK(p)'
  <1>1. TypeOK /\ CallerOK(p)
    BY DEF CurlInv
  <1>2. ProcessOK(p)'
    BY <1>1, ProcessKeeps DEF Reap
  <1>3. ThreadOK(p)'
    BY <1>1 DEF TypeOK, CallerOK, ThreadOK, LeftOK, Storable, ReasonOK, Fit,
       Exited, At, Reap, End, Goto
  <1>4. RestOK(p)'
    BY <1>1 DEF TypeOK, CallerOK, ThreadOK, LeftOK, Storable, ReasonOK, Fit,
       RestOK, Exited, At, Reap, End, Goto
  <1>9. QED
    BY <1>2, <1>3, <1>4 DEF CallerOK

LEMMA GarbleStep ==
    ASSUME CurlInv, NEW p \in Caller, Garble(p)
    PROVE  CallerOK(p)'
  <1>1. TypeOK /\ CallerOK(p)
    BY DEF CurlInv
  <1>2. ProcessOK(p)'
    BY <1>1, ProcessKeeps DEF Garble
  <1>3. ThreadOK(p)'
    BY <1>1 DEF TypeOK, CallerOK, ThreadOK, LeftOK, Storable, ReasonOK, Fit,
       Exited, At, Garble, End, Goto
  <1>4. RestOK(p)'
    BY <1>1 DEF TypeOK, CallerOK, ThreadOK, LeftOK, Storable, ReasonOK, Fit,
       RestOK, Exited, At, Garble, End, Goto
  <1>9. QED
    BY <1>2, <1>3, <1>4 DEF CallerOK

LEMMA SpawnFailsStep ==
    ASSUME CurlInv, NEW p \in Caller, SpawnFails(p)
    PROVE  CallerOK(p)'
  <1>1. TypeOK /\ CallerOK(p)
    BY DEF CurlInv
  <1>2. ProcessOK(p)'
    BY <1>1, ProcessKeeps DEF SpawnFails
  <1>3. ThreadOK(p)'
    BY <1>1 DEF TypeOK, CallerOK, ThreadOK, LeftOK, Storable, ReasonOK, Fit,
       Exited, At, SpawnFails, End, Goto
  <1>4. RestOK(p)'
    BY <1>1 DEF TypeOK, CallerOK, ThreadOK, LeftOK, Storable, ReasonOK, Fit,
       RestOK, Exited, At, SpawnFails, End, Goto
  <1>9. QED
    BY <1>2, <1>3, <1>4 DEF CallerOK

LEMMA GiveUpStep ==
    ASSUME CurlInv, NEW p \in Caller, GiveUp(p)
    PROVE  CallerOK(p)'
  <1>1. TypeOK /\ CallerOK(p)
    BY DEF CurlInv
  <1>2. ProcessOK(p)'
    BY <1>1, ProcessKeeps DEF GiveUp
  <1>3. ThreadOK(p)'
    BY <1>1 DEF TypeOK, CallerOK, ThreadOK, LeftOK, Storable, ReasonOK, Fit,
       Exited, At, GiveUp, End, Goto
  <1>4. RestOK(p)'
    BY <1>1 DEF TypeOK, CallerOK, ThreadOK, LeftOK, Storable, ReasonOK, Fit,
       RestOK, Exited, At, GiveUp, End, Goto
  <1>9. QED
    BY <1>2, <1>3, <1>4 DEF CallerOK

LEMMA ReplyStep ==
    ASSUME CurlInv, NEW p \in Caller, Reply(p)
    PROVE  CallerOK(p)'
  <1>1. TypeOK /\ CallerOK(p)
    BY DEF CurlInv
  <1>2. ProcessOK(p)'
    BY <1>1, ProcessKeeps DEF Reply
  <1>3. ThreadOK(p)'
    BY <1>1 DEF TypeOK, CallerOK, ThreadOK, LeftOK, Storable, ReasonOK, Fit,
       Exited, At, Reply, End, Goto
  <1>4. RestOK(p)'
    BY <1>1 DEF TypeOK, CallerOK, ThreadOK, LeftOK, Storable, ReasonOK, Fit,
       RestOK, Exited, At, Reply, End, Goto
  <1>9. QED
    BY <1>2, <1>3, <1>4 DEF CallerOK

LEMMA CollectStep ==
    ASSUME CurlInv, NEW p \in Caller, Collect(p)
    PROVE  CallerOK(p)'
  <1>1. TypeOK /\ CallerOK(p)
    BY DEF CurlInv
  <1>2. ProcessOK(p)'
    BY <1>1, ProcessKeeps DEF Collect
  <1>3. ThreadOK(p)'
    BY <1>1 DEF TypeOK, CallerOK, ThreadOK, LeftOK, Storable, ReasonOK, Fit,
       Exited, At, Collect, Goto, Drop
  <1>4. RestOK(p)'
    BY <1>1 DEF TypeOK, CallerOK, ThreadOK, LeftOK, Storable, ReasonOK, Fit,
       RestOK, Exited, At, Collect, Goto, Drop
  <1>9. QED
    BY <1>2, <1>3, <1>4 DEF CallerOK

LEMMA MeasureStep ==
    ASSUME CurlInv, NEW p \in Caller, Measure(p)
    PROVE  CallerOK(p)'
  <1>1. TypeOK /\ CallerOK(p)
    BY DEF CurlInv
  <1>2. ProcessOK(p)'
    BY <1>1, ProcessKeeps DEF Measure
  <1>3. /\ at'[p] = "hash" /\ size'[p] = curl[p].out /\ stop'[p] = Classified(p)
       /\ UNCHANGED <<args, due, curl, answer, temp, file, result>>
    BY <1>1 DEF TypeOK, Measure, Goto
  <1>4. args[p].tool = "stream" /\ LeftOK(p) /\ Exited(p) /\ "body" \notin temp[p]
    BY <1>1 DEF CallerOK, ThreadOK, Measure, At
  <1>5. ReasonOK(p)'
    BY <1>1, <1>3, <1>4, CurlAssumption DEF TypeOK, Curl, CallerOK, ProcessOK,
       LeftOK, ReasonOK, Classified, Exited
  <1>6. ThreadOK(p)'
    BY <1>3, <1>4, <1>5 DEF ThreadOK, Storable, Exited, At
  <1>7. RestOK(p)'
    BY <1>3 DEF RestOK, At
  <1>9. QED
    BY <1>2, <1>3, <1>4, <1>5, <1>6, <1>7 DEF CallerOK

LEMMA HashStep ==
    ASSUME CurlInv, NEW p \in Caller, Hash(p)
    PROVE  CallerOK(p)'
  <1>1. TypeOK /\ CallerOK(p)
    BY DEF CurlInv
  <1>2. ProcessOK(p)'
    BY <1>1, ProcessKeeps DEF Hash
  <1>3. ThreadOK(p)'
    BY <1>1 DEF TypeOK, CallerOK, ThreadOK, LeftOK, Storable, ReasonOK, Fit,
       Exited, At, Hash, Goto, Fail, End
  <1>4. RestOK(p)'
    BY <1>1 DEF TypeOK, CallerOK, ThreadOK, LeftOK, Storable, ReasonOK, Fit,
       RestOK, Exited, At, Hash, Goto, Fail, End
  <1>9. QED
    BY <1>2, <1>3, <1>4 DEF CallerOK

LEMMA AdmitStep ==
    ASSUME CurlInv, NEW p \in Caller, Admit(p)
    PROVE  CallerOK(p)'
  <1>1. TypeOK /\ CallerOK(p)
    BY DEF CurlInv
  <1>2. ProcessOK(p)'
    BY <1>1, ProcessKeeps DEF Admit
  <1>3. ThreadOK(p)'
    BY <1>1 DEF TypeOK, CallerOK, ThreadOK, LeftOK, Storable, ReasonOK, Fit,
       Exited, At, Admit, Goto, Drop, Fail, End
  <1>4. RestOK(p)'
    BY <1>1 DEF TypeOK, CallerOK, ThreadOK, LeftOK, Storable, ReasonOK, Fit,
       RestOK, Exited, At, Admit, Goto, Drop, Fail, End
  <1>9. QED
    BY <1>2, <1>3, <1>4 DEF CallerOK

LEMMA PreviewStep ==
    ASSUME CurlInv, NEW p \in Caller, Preview(p)
    PROVE  CallerOK(p)'
  <1>1. TypeOK /\ CallerOK(p)
    BY DEF CurlInv
  <1>2. /\ ProcessOK(p)' /\ Storable(p) /\ file[p] = curl[p].out
        /\ UNCHANGED <<args, due, curl, answer, stop, size, file>>
    BY <1>1, ProcessKeeps DEF CallerOK, ThreadOK, Preview, At
  <1>3. Storable(p)'
    BY <1>2 DEF Storable, ReasonOK, Fit, Exited
  <1>4. /\ at'[p] = "idle" /\ temp'[p] = {}
        /\ \/ result'[p] = [how |-> "error", told |-> TRUE]
           \/ result'[p] = [how |-> "result", told |-> TRUE]
           \/ /\ result'[p] = [how |-> "result", told |-> FALSE]
              /\ args[p].tool = "stream" => stop[p] = "eof"
    <2>1. CASE file[p] \notin store
      BY <1>1, <2>1 DEF TypeOK, Preview, Fail, End, Goto
    <2>2. CASE file[p] \in store
      <3> DEFINE cut == args[p].tool = "stream" /\ stop[p] # "eof"
      <3>1. /\ at'[p] = "idle" /\ temp'[p] = {}
            /\ result'[p] = [how |-> "result", told |-> cut]
        BY <1>1, <2>2 DEF TypeOK, Preview, End, Goto
      <3>2. CASE cut
        <4>1. cut = TRUE
          BY <3>2
        <4> QED
          BY <3>1, <4>1
      <3>3. CASE ~cut
        <4>1. cut = FALSE
          BY <3>3
        <4>2. args[p].tool = "stream" => stop[p] = "eof"
          BY <3>3
        <4> HIDE DEF cut
        <4> QED
          BY <3>1, <4>1, <4>2
      <3>4. QED
        BY <3>2, <3>3
    <2>3. QED
      BY <2>1, <2>2
  <1>5. ThreadOK(p)'
    BY <1>4 DEF ThreadOK, At
  <1>6. RestOK(p)'
    <2>1. CASE result'[p].how = "result"
      <3>1. args[p].tool = "stream" => result'[p].told \/ stop[p] = "eof"
        BY <1>4, <2>1
      <3>2. args[p].tool = "request" => FALSE
        BY <1>2 DEF Storable
      <3>3. QED
        BY <1>2, <1>3, <1>4, <3>1, <3>2 DEF RestOK
    <2>2. CASE result'[p].how # "result"
      BY <1>4, <2>2 DEF RestOK
    <2>3. QED
      BY <2>1, <2>2
  <1>7. QED
    BY <1>2, <1>5, <1>6 DEF CallerOK

LEMMA CheckStep ==
    ASSUME CurlInv, NEW p \in Caller, Check(p)
    PROVE  CallerOK(p)'
  <1>1. TypeOK /\ CallerOK(p)
    BY DEF CurlInv
  <1>2. ProcessOK(p)'
    BY <1>1, ProcessKeeps DEF Check
  <1>3. ThreadOK(p)'
    BY <1>1 DEF TypeOK, CallerOK, ThreadOK, LeftOK, Storable, ReasonOK, Fit,
       Exited, At, Check, Goto, Fail, End, Args, Tool
  <1>4. RestOK(p)'
    BY <1>1 DEF TypeOK, CallerOK, ThreadOK, LeftOK, Storable, ReasonOK, Fit,
       RestOK, Exited, At, Check, Goto, Fail, End, Args, Tool
  <1>9. QED
    BY <1>2, <1>3, <1>4 DEF CallerOK

LEMMA ExpireStep ==
    ASSUME CurlInv, NEW p \in Caller, Expire(p)
    PROVE  CallerOK(p)'
  <1>1. TypeOK /\ CallerOK(p)
    BY DEF CurlInv
  <1>2. /\ ProcessOK(p)' /\ curl'[p].state = curl[p].state /\ curl'[p].out = curl[p].out
    BY <1>1, SignalKeeps DEF Expire
  <1>3. ThreadOK(p)'
    BY <1>1, <1>2 DEF TypeOK, CallerOK, ThreadOK, LeftOK, Storable, ReasonOK,
       Fit, Exited, At, Expire, Goto
  <1>4. RestOK(p)'
    BY <1>1, <1>2 DEF TypeOK, RestOK, At, Expire, Goto
  <1>9. QED
    BY <1>2, <1>3, <1>4 DEF CallerOK

LEMMA KillStep ==
    ASSUME CurlInv, NEW p \in Caller, Kill(p)
    PROVE  CallerOK(p)'
  <1>1. TypeOK /\ CallerOK(p)
    BY DEF CurlInv
  <1>2. /\ ProcessOK(p)' /\ curl'[p].state = curl[p].state /\ curl'[p].out = curl[p].out
    BY <1>1, SignalKeeps DEF Kill
  <1>3. ThreadOK(p)'
    BY <1>1, <1>2 DEF TypeOK, CallerOK, ThreadOK, LeftOK, Storable, ReasonOK,
       Fit, Exited, At, Kill, Goto
  <1>4. RestOK(p)'
    BY <1>1, <1>2 DEF TypeOK, RestOK, At, Kill, Goto
  <1>9. QED
    BY <1>2, <1>3, <1>4 DEF CallerOK

LEMMA LookStep ==
    ASSUME CurlInv, NEW p \in Caller, Look(p)
    PROVE  CallerOK(p)'
  <1>1. TypeOK /\ CallerOK(p)
    BY DEF CurlInv
  <1>2. CASE Goto(p, "poll") /\ UNCHANGED <<stop, curl>>
    <2>1. ProcessOK(p)'
      BY <1>1, <1>2, ProcessKeeps DEF Look
    <2>2. ThreadOK(p)'
      BY <1>1, <1>2 DEF TypeOK, CallerOK, ThreadOK, Exited, At, Look, Goto
    <2>3. RestOK(p)'
      BY <1>1, <1>2 DEF TypeOK, RestOK, At, Look, Goto
    <2>4. QED
      BY <2>1, <2>2, <2>3 DEF CallerOK
  <1>3. ASSUME NEW r \in {"max_bytes", "duration"}, Halt(p, r),
               r = "max_bytes" => curl[p].out >= MaxBytes, r = "duration" => due[p]
        PROVE  CallerOK(p)'
    <2>1. ProcessOK(p)' /\ curl'[p].out = curl[p].out
      BY <1>1, <1>3, SignalKeeps DEF Look, Halt
    <2>2. at'[p] = "communicate" /\ stop'[p] = r /\ UNCHANGED <<args, due>>
      BY <1>1, <1>3 DEF TypeOK, Look, Halt, Goto
    <2>3. ThreadOK(p)'
      BY <1>1, <1>3, <2>1, <2>2 DEF CallerOK, ThreadOK, LeftOK, At, Look
    <2>4. RestOK(p)'
      BY <2>2 DEF RestOK, At
    <2>5. QED
      BY <2>1, <2>3, <2>4 DEF CallerOK
  <1>4. QED
    BY <1>2, <1>3 DEF Look

-----------------------------------------------------------------------------
(* Theorems. *)

LEMMA CurlInit == Init => CurlInv
  <1> SUFFICES ASSUME Init PROVE CurlInv
    OBVIOUS
  <1>1. TypeOK
    BY DEF Init, TypeOK, NoCurl, Curl, Code, Step, Args, Tool, Reason, Result
  <1>2. \A p \in Caller : CallerOK(p)
    BY DEF Init, NoCurl, CallerOK, ProcessOK, ThreadOK, RestOK, Exited, At
  <1>3. QED
    BY <1>1, <1>2 DEF CurlInv

LEMMA ProceedLeaves ==
    ASSUME TypeOK, NEW p \in Caller, Proceed(p)
    PROVE  TypeOK' /\ Leaves(p)
  BY ProcessTypes, MoveTypes, SignallingTypes, EndingTypes, StoringTypes DEF Proceed

LEMMA ProceedStep ==
    ASSUME CurlInv, NEW p \in Caller, Proceed(p)
    PROVE  CurlInv'
  <1>1. TypeOK
    BY DEF CurlInv
  <1>2. TypeOK' /\ Leaves(p)
    BY <1>1, ProceedLeaves
  <1>3. CallerOK(p)'
    BY SpawnStep, SpawnFailsStep, AnsweredStep, ExpireStep, ReapStep,
       GarbleStep, ReplyStep,
       CheckStep, PollStep, LookStep, CollectStep, KillStep, GiveUpStep,
       MeasureStep,
       HashStep, AdmitStep, PreviewStep DEF Proceed
  <1>4. QED
    BY <1>2, <1>3, OneCaller

\* All calls end at once; what they left stays.
LEMMA CrashStep ==
    ASSUME CurlInv, Crash
    PROVE  CurlInv'
  <1>1. TypeOK'
    BY DEF CurlInv, TypeOK, Crash, Step, Result
  <1>2. ASSUME NEW q \in Caller PROVE CallerOK(q)'
    <2>1. TypeOK /\ CallerOK(q) /\ at'[q] = "idle"
      BY DEF CurlInv, Crash
    <2>2. ProcessOK(q)'
      BY <2>1, ProcessKeeps DEF Crash
    <2>3. ThreadOK(q)'
      BY <2>1 DEF ThreadOK, At
    <2>4. RestOK(q)'
      <3>1. CASE At(q, "idle")
        BY <2>1, <3>1 DEF CallerOK, RestOK, Storable, ReasonOK, Fit, Exited,
           At, Crash
      <3>2. CASE ~At(q, "idle")
        <4>1. result'[q].how = "crash"
          BY <3>2 DEF Crash
        <4>2. QED
          BY <4>1 DEF RestOK
      <3>3. QED
        BY <3>1, <3>2
    <2>5. QED
      BY <2>2, <2>3, <2>4 DEF CallerOK
  <1>3. QED
    BY <1>1, <1>2 DEF CurlInv

LEMMA CurlNext == CurlInv /\ [Next]_vars => CurlInv'
  <1> SUFFICES ASSUME CurlInv, [Next]_vars PROVE CurlInv'
    OBVIOUS
  <1>0. TypeOK
    BY DEF CurlInv
  <1>1. ASSUME NEW p \in Caller, NEW a \in Args, Begin(p, a) \/ Refuse(p, a) PROVE CurlInv'
    BY <1>0, <1>1, BeginTypes, BeginStep, OneCaller
  <1>2. ASSUME NEW p \in Caller, Proceed(p) PROVE CurlInv'
    BY <1>2, ProceedStep
  <1>3. ASSUME NEW p \in Caller, NEW a \in Answer, Connect(p, a) PROVE CurlInv'
    BY <1>0, <1>3, ProcessTypes, ConnectStep, OneCaller
  <1>4. ASSUME NEW p \in Caller, Receive(p) PROVE CurlInv'
    BY <1>0, <1>4, ProcessTypes, ReceiveStep, OneCaller
  <1>5. ASSUME NEW p \in Caller, Elapse(p) PROVE CurlInv'
    BY <1>0, <1>5, MoveTypes, ElapseStep, OneCaller
  <1>6. ASSUME NEW p \in Caller, NEW code \in Code, Exit(p, code) PROVE CurlInv'
    BY <1>0, <1>6, ProcessTypes, ExitStep, OneCaller
  <1>7. ASSUME NEW n \in store, Forget(n) PROVE CurlInv'
    <2>1. TypeOK'
      BY <1>0, <1>7 DEF TypeOK, Forget
    <2>2. \A q \in Caller : CallerOK(q)'
      BY <1>7, Frame DEF CurlInv, Forget
    <2>3. QED
      BY <2>1, <2>2 DEF CurlInv
  <1>8. CASE UNCHANGED vars
    <2>1. TypeOK'
      BY <1>0, <1>8 DEF TypeOK, vars
    <2>2. \A q \in Caller : CallerOK(q)'
      BY <1>8, Frame DEF CurlInv, vars
    <2>3. QED
      BY <2>1, <2>2 DEF CurlInv
  <1>9. QED
    BY <1>1, <1>2, <1>3, <1>4, <1>5, <1>6, <1>7, <1>8, CrashStep DEF Next

\* The inductive invariant: what is known of the curl process at each step of
\* the thread that runs it, and what an answer, once given, rests on.
THEOREM CurlSafety == Spec => []CurlInv
  BY CurlInit, CurlNext, PTL DEF Spec

\* The variables of the calls keep their types.
THEOREM CurlTypes == Spec => []TypeOK
  <1>1. CurlInv => TypeOK
    BY DEF CurlInv
  <1>2. QED
    BY <1>1, CurlSafety, PTL

\* An answer that speaks of no failure and no cut has the whole body.
THEOREM AnswersWhole == Spec => []WholeUnlessTold
  <1>1. CurlInv => WholeUnlessTold
    <2> SUFFICES ASSUME CurlInv, NEW p \in Caller, NEW tool \in Tool,
                        Succeeded(p, tool), ~result[p].told
                 PROVE  answer[p] # None /\ curl[p].out = answer[p].total
      BY DEF WholeUnlessTold
    <2>1. ProcessOK(p) /\ RestOK(p) /\ At(p, "idle") /\ result[p].how = "result"
          /\ args[p].tool = tool /\ None \notin Answer
      BY CurlAssumption DEF CurlInv, CallerOK, Succeeded, Answer
    <2>2. CASE tool = "stream"
      BY <2>1, <2>2 DEF RestOK, Storable, ReasonOK
    <2>3. CASE tool = "download"
      BY <2>1, <2>3 DEF RestOK, Storable, Fit, ProcessOK
    <2>4. CASE tool = "request"
      BY <2>1, <2>4 DEF RestOK, ProcessOK
    <2>5. QED
      BY <2>2, <2>3, <2>4 DEF Tool
  <1>2. QED
    BY <1>1, CurlSafety, PTL

\* The reason a capture gives for its end is true of response and time.
THEOREM ReasonsTrue == Spec => []StopReasonTrue
  <1>1. CurlInv => StopReasonTrue
    <2>1. ASSUME CurlInv, NEW p \in Caller, Succeeded(p, "stream")
          PROVE  ReasonOK(p) /\ size[p] = curl[p].out /\ None \notin Answer
      BY <2>1, CurlAssumption
      DEF CurlInv, CallerOK, RestOK, Storable, Succeeded, Answer
    <2>2. QED
      BY <2>1 DEF StopReasonTrue, ReasonOK
  <1>2. QED
    BY <1>1, CurlSafety, PTL

\* From its hashing on nothing writes an output, and its size is the one told.
THEOREM OutputsSettled == Spec => []OutputSettled
  <1>1. CurlInv => OutputSettled
    BY DEF CurlInv, OutputSettled, CallerOK, ThreadOK, RestOK, Storable,
       Succeeded, At
  <1>2. QED
    BY <1>1, CurlSafety, PTL

\* A download is whole, within the limit, and no error page unless asked for.
THEOREM DownloadsAreWhole == Spec => []DownloadsWhole
  <1>1. CurlInv => DownloadsWhole
    <2>1. ASSUME CurlInv, NEW p \in Caller, Succeeded(p, "download")
          PROVE  /\ ProcessOK(p) /\ Exited(p) /\ Fit(p) /\ file[p] = curl[p].out
                 /\ None \notin Answer
      BY <2>1, CurlAssumption
      DEF CurlInv, CallerOK, RestOK, Storable, Succeeded, Answer
    <2>2. QED
      BY <2>1 DEF DownloadsWhole, ProcessOK, Fit
  <1>2. QED
    BY <1>1, CurlSafety, PTL

\* What a call that ends in an answer or an error has made is gone.
THEOREM TemporariesGo == Spec => []TempFilesGo
  <1>1. CurlInv => TempFilesGo
    BY DEF CurlInv, CallerOK, RestOK, TempFilesGo
  <1>2. QED
    BY <1>1, CurlSafety, PTL

-----------------------------------------------------------------------------
(* Steps.  That a call ends takes fairness and is left to the model         *)
(* checker; what the fairness has to work on is proved: only finitely many  *)
(* steps are left once the time is up, and a thread waits without a limit   *)
(* for nothing but a process it has killed.                                 *)

\* The most steps a thread can be from its end when its time is up.
Left == [idle |-> 0, preview |-> 1, admit |-> 2, hash |-> 3, measure |-> 4, answered |-> 5,
         reap |-> 5, killed |-> 5, communicate |-> 6, look |-> 7, poll |-> 8, wait |-> 8,
         spawn |-> 9]

\* Once its time is up a call only comes nearer to its end, whatever its curl,
\* the server and the other calls do.
NearerWhenDue ==
    [][\A p \in Caller : due[p] /\ ~At(p, "idle")
          => \/ at'[p] = at[p]
             \/ Left[at'[p]] < Left[at[p]]]_vars

\* A thread that waits without a limit waits for a process that has exited or
\* been killed.
WaitsForKilled ==
    \A p \in Caller : At(p, "reap") => Exited(p) \/ curl[p].signal = "kill"

LEMMA LeftValues ==
    /\ \A s \in Step : Left[s] \in 0..9 /\ (s # "idle" => Left[s] > 0)
    /\ Left["idle"] = 0 /\ Left["preview"] = 1 /\ Left["admit"] = 2 /\ Left["hash"] = 3
    /\ Left["measure"] = 4 /\ Left["answered"] = 5 /\ Left["reap"] = 5
    /\ Left["killed"] = 5 /\ Left["communicate"] = 6 /\ Left["look"] = 7
    /\ Left["poll"] = 8 /\ Left["wait"] = 8 /\ Left["spawn"] = 9
  BY DEF Left, Step

\* A thread's own step brings it nearer, unless the loop looks before its time.
LEMMA StepNearer ==
    ASSUME TypeOK, NEW p \in Caller, Proceed(p), due[p]
    PROVE  Left[at'[p]] < Left[at[p]]
  <1> DEFINE s == at[p]
             t == at'[p]
  <1>1. at \in [Caller -> Step]
    BY DEF TypeOK
  <1>2. \A u : Goto(p, u) => t = u
    BY <1>1 DEF Goto
  <1>3. \A how, told, kept : End(p, how, told, kept) => t = "idle"
    BY <1>2 DEF End
  <1>4. CASE Spawn(p) \/ SpawnFails(p)
    <2>1. s = "spawn" /\ t \in {"poll", "wait", "idle"}
      BY <1>2, <1>3, <1>4 DEF Spawn, SpawnFails, At
    <2>2. QED
      BY <2>1, LeftValues
  <1>5. CASE Answered(p) \/ Expire(p)
    <2>1. s = "wait" /\ t \in {"answered", "reap"}
      BY <1>2, <1>5 DEF Answered, Expire, At
    <2>2. QED
      BY <2>1, LeftValues
  <1>6. CASE Reap(p) \/ Garble(p) \/ Reply(p) \/ GiveUp(p) \/ Preview(p)
    <2>1. s \in {"reap", "wait", "communicate", "killed", "answered", "preview"} /\ t = "idle"
      BY <1>3, <1>6 DEF Reap, Garble, Reply, GiveUp, Preview, Fail, At
    <2>2. QED
      BY <2>1, LeftValues
  <1>7. CASE Check(p)
    <2>1. s = "answered" /\ t \in {"hash", "idle"}
      BY <1>2, <1>3, <1>7 DEF Check, Fail, At
    <2>2. QED
      BY <2>1, LeftValues
  <1>8. CASE Poll(p)
    <2>1. s = "poll" /\ t \in {"communicate", "look"}
      BY <1>2, <1>8 DEF Poll, At
    <2>2. QED
      BY <2>1, LeftValues
  <1>9. CASE Look(p)
    <2>1. s = "look" /\ t = "communicate"
      BY <1>2, <1>9 DEF Look, Halt, At
    <2>2. QED
      BY <2>1, LeftValues
  <1>10. CASE Collect(p) \/ Kill(p)
    <2>1. \/ s = "communicate" /\ t \in {"measure", "killed"}
          \/ s = "killed" /\ t = "measure"
      BY <1>2, <1>10 DEF Collect, Kill, At
    <2>2. QED
      BY <2>1, LeftValues
  <1>11. CASE Measure(p) \/ Hash(p) \/ Admit(p)
    <2>1. \/ s = "measure" /\ t = "hash"
          \/ s = "hash" /\ t \in {"admit", "idle"}
          \/ s = "admit" /\ t \in {"preview", "idle"}
      BY <1>2, <1>3, <1>11 DEF Measure, Hash, Admit, Fail, At
    <2>2. QED
      BY <2>1, LeftValues
  <1>12. QED
    BY <1>4, <1>5, <1>6, <1>7, <1>8, <1>9, <1>10, <1>11 DEF Proceed

\* What is not a step of a call's thread begins it, ends it or leaves it where
\* it is, and a curl that has exited or been killed stays so.
LEMMA OthersKeepPlace ==
    ASSUME CurlInv, [Next]_vars, NEW p \in Caller, ~Proceed(p)
    PROVE  \/ at'[p] = "idle"
           \/ At(p, "idle") /\ at'[p] = "spawn"
           \/ /\ at'[p] = at[p]
              /\ ~At(p, "idle") /\ (Exited(p) \/ curl[p].signal = "kill")
                    => Exited(p)' \/ curl'[p].signal = "kill"
  <1> DEFINE Kept == /\ at'[p] = at[p]
                     /\ ~At(p, "idle") /\ (Exited(p) \/ curl[p].signal = "kill")
                           => Exited(p)' \/ curl'[p].signal = "kill"
  <1>0. TypeOK
    BY DEF CurlInv
  <1>1. ASSUME NEW q \in Caller, q # p, Leaves(q) PROVE Kept
    BY <1>1 DEF Leaves, Exited
  <1>2. ASSUME NEW q \in Caller, NEW a \in Args, Begin(q, a) \/ Refuse(q, a)
        PROVE  \/ at'[p] = "idle"
               \/ At(p, "idle") /\ at'[p] = "spawn"
               \/ Kept
    <2>1. CASE q = p
      <3>1. At(p, "idle") /\ (Goto(p, "spawn") \/ Goto(p, "idle"))
        BY <1>2, <2>1 DEF Begin, Refuse, Prepare, End
      <3>2. at'[p] \in {"spawn", "idle"}
        BY <1>0, <3>1 DEF Goto, TypeOK
      <3>3. QED
        BY <3>1, <3>2
    <2>2. CASE q # p
      BY <1>0, <1>1, <1>2, <2>2, BeginTypes
    <2>3. QED
      BY <2>1, <2>2
  <1>3. ASSUME NEW q \in Caller, Proceed(q) PROVE Kept
    <2>1. q # p
      BY <1>3
    <2>2. QED
      BY <1>0, <1>1, <1>3, <2>1, ProceedLeaves
  <1>4. ASSUME NEW q \in Caller,
               \/ (\E a \in Answer : Connect(q, a)) \/ Receive(q)
               \/ (\E code \in Code : Exit(q, code))
        PROVE  Kept
    BY <1>0, <1>4 DEF Connect, Receive, Exit, Exited, TypeOK
  <1>5. ASSUME NEW q \in Caller, Elapse(q) PROVE Kept
    BY <1>5 DEF Elapse, Exited
  <1>6. CASE (\E n \in store : Forget(n)) \/ UNCHANGED vars
    BY <1>6 DEF Forget, vars, Exited
  <1>7. Crash => at'[p] = "idle"
    BY DEF Crash
  <1> DEFINE Goal == \/ at'[p] = "idle"
                     \/ At(p, "idle") /\ at'[p] = "spawn"
                     \/ Kept
  <1>8. Goal
    <2>1. (\E q \in Caller : Proceed(q)) => Goal
      BY <1>3
    <2>2. (\E q \in Caller : \E a \in Args : Begin(q, a) \/ Refuse(q, a)) => Goal
      BY <1>2
    <2>3. (\E q \in Caller : \/ \E a \in Answer : Connect(q, a)
                             \/ Receive(q) \/ Elapse(q)
                             \/ \E code \in Code : Exit(q, code)) => Goal
      BY <1>4, <1>5
    <2> HIDE DEF Goal
    <2>4. (\E n \in store : Forget(n)) \/ UNCHANGED vars \/ Crash => Goal
      BY <1>6, <1>7 DEF Goal
    <2>5. QED
      BY <2>1, <2>2, <2>3, <2>4 DEF Next
  <1>9. QED
    BY <1>8 DEF Kept

\* A call whose time is up has at most nine steps to its end and takes no step
\* away from it.
THEOREM CallsBounded == Spec => [](\A p \in Caller : Left[at[p]] \in 0..9) /\ NearerWhenDue
  <1>1. CurlInv => \A p \in Caller : Left[at[p]] \in 0..9
    BY LeftValues DEF CurlInv, TypeOK
  <1>2. CurlInv /\ [Next]_vars
          => [\A p \in Caller : due[p] /\ ~At(p, "idle")
                 => \/ at'[p] = at[p]
                    \/ Left[at'[p]] < Left[at[p]]]_vars
    <2> SUFFICES ASSUME CurlInv, [Next]_vars, NEW p \in Caller, due[p], ~At(p, "idle")
                 PROVE  at'[p] = at[p] \/ Left[at'[p]] < Left[at[p]]
      OBVIOUS
    <2>1. TypeOK /\ at[p] \in Step
      BY DEF CurlInv, TypeOK
    <2>2. CASE Proceed(p)
      BY <2>1, <2>2, StepNearer
    <2>3. CASE ~Proceed(p)
      BY <2>1, <2>3, OthersKeepPlace, LeftValues DEF At
    <2>4. QED
      BY <2>2, <2>3
  <1>3. QED
    BY <1>1, <1>2, CurlSafety, PTL DEF Spec, NearerWhenDue

\* The wait of subprocess.run that has no limit is for a killed process only.
THEOREM WaitsAreForKilled == Spec => []WaitsForKilled
  <1>1. Init => WaitsForKilled
    BY DEF Init, WaitsForKilled, At
  <1>2. CurlInv /\ WaitsForKilled /\ [Next]_vars => WaitsForKilled'
    <2> SUFFICES ASSUME CurlInv, WaitsForKilled, [Next]_vars, NEW p \in Caller, at'[p] = "reap"
                 PROVE  curl'[p].state = "exited" \/ curl'[p].signal = "kill"
      BY DEF WaitsForKilled, At, Exited
    <2>0. TypeOK
      BY DEF CurlInv
    <2>1. CASE Proceed(p)
      <3>1. ASSUME NEW u, Goto(p, u) PROVE u = "reap"
        BY <2>0, <3>1 DEF Goto, TypeOK
      <3>2. ~\E how, told, kept : End(p, how, told, kept)
        BY <3>1 DEF End
      <3>3. Expire(p)
        BY <2>1, <3>1, <3>2
        DEF Proceed, Spawn, SpawnFails, Answered, Reap, Garble, Reply, Check, Poll, Look,
            Halt, Collect, Kill, GiveUp, Measure, Hash, Admit, Preview, Fail
      <3>4. QED
        BY <2>0, <3>3 DEF Expire, Signal, TypeOK
    <2>2. CASE ~Proceed(p)
      <3>1. /\ at'[p] = at[p]
            /\ ~At(p, "idle") /\ (Exited(p) \/ curl[p].signal = "kill")
                  => Exited(p)' \/ curl'[p].signal = "kill"
        BY <2>2, OthersKeepPlace
      <3>2. QED
        BY <3>1 DEF WaitsForKilled, At, Exited
    <2>3. QED
      BY <2>1, <2>2
  <1>3. QED
    BY <1>1, <1>2, CurlSafety, PTL DEF Spec
=============================================================================
