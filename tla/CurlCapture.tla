---------------------------- MODULE CurlCapture ----------------------------
(***************************************************************************)
(* The tools curl_request, curl_download and curl_stream_capture of        *)
(* src/src/modules/curl.  A call writes temporary files, runs one curl     *)
(* process that writes its output into one of them, and turns the output   *)
(* into an answer or a file of the store.  Calls share nothing but the     *)
(* store.  All responses are taken to be prefixes of one stream of bytes,  *)
(* so that an output, and a file, is the number of its bytes, and equal    *)
(* outputs of different calls are one file, as the digests make them.      *)
(***************************************************************************)
EXTENDS Naturals

CONSTANTS
    Caller,      \* threads that run the tools
    Totals,      \* sizes of the responses of servers
    MaxBytes,    \* max_response_bytes, max_bytes
    UploadMax,   \* upload_max_bytes of the store
    None         \* no answer from the server

ASSUME CurlAssumption ==
    /\ Totals \subseteq Nat
    /\ MaxBytes \in Nat \ {0}
    /\ UploadMax \in Nat
    /\ None \notin [total : Totals, bad : BOOLEAN]

VARIABLES
    at,       \* where each caller's thread is
    args,     \* the arguments of its call
    due,      \* whether the time it gave the call has passed
    curl,     \* its curl process
    answer,   \* the response the server gives
    temp,     \* its temporary files, also those its last call has left
    stop,     \* stop_reason
    size,     \* the size of the output as the tool measured it
    file,     \* the file that is or will be stored
    result,   \* how its last call ended
    store     \* the files with their bytes

vars == <<at, args, due, curl, answer, temp, stop, size, file, result, store>>

Step == {"idle", "spawn", "wait", "reap", "answered", "poll", "look",
         "communicate", "killed", "measure", "hash", "admit", "preview"}

Tool == {"request", "download", "stream"}

\* inline: the body is not a stored file; lenient: store_http_errors
Args == [tool : Tool, inline : BOOLEAN, lenient : BOOLEAN]

\* Exit codes 0, 28, 63, the others, and the death by a signal.
Code == {"none", "ok", "timeout", "filesize", "failed", "signal"}

Curl == [state : {"none", "connecting", "running", "exited"}, code : Code,
         out : Nat, signal : {"none", "term", "kill"}]

Answer == [total : Totals, bad : BOOLEAN]

Temp == {"body", "headers", "output"}

Reason == {"curl_exit", "eof", "max_bytes", "duration", "curl_error", "forced_kill"}

\* told: the answer says that the body is not, or may not be, the whole one.
Result == [how : {"none", "result", "error", "expired", "refused", "unspawned",
                  "garbled", "stuck", "crash"},
           told : BOOLEAN]

NoCurl == [state |-> "none", code |-> "none", out |-> 0, signal |-> "none"]

At(p, s) == at[p] = s

Goto(p, s) == at' = [at EXCEPT ![p] = s]

Exited(p) == curl[p].state = "exited"

\* The call is over; its temporary files are those in kept.
End(p, how, told, kept) ==
    /\ Goto(p, "idle")
    /\ result' = [result EXCEPT ![p] = [how |-> how, told |-> told]]
    /\ temp' = [temp EXCEPT ![p] = kept]

\* An exception that passes the finally clauses at the end.
Fail(p) == End(p, "error", TRUE, {})

Drop(p, kind) == temp' = [temp EXCEPT ![p] = @ \ {kind}]

\* A signal to a process that has exited is not sent.
Signal(p, s) ==
    curl' = [curl EXCEPT ![p] =
        [state |-> curl[p].state, code |-> curl[p].code, out |-> curl[p].out,
         signal |-> IF Exited(p) THEN curl[p].signal ELSE s]]

Init ==
    /\ at = [p \in Caller |-> "idle"]
    /\ args = [p \in Caller |-> [tool |-> "request", inline |-> FALSE, lenient |-> FALSE]]
    /\ due = [p \in Caller |-> FALSE]
    /\ curl = [p \in Caller |-> NoCurl]
    /\ answer = [p \in Caller |-> None]
    /\ temp = [p \in Caller |-> {}]
    /\ stop = [p \in Caller |-> "curl_exit"]
    /\ size = [p \in Caller |-> 0]
    /\ file = [p \in Caller |-> 0]
    /\ result = [p \in Caller |-> [how |-> "none", told |-> FALSE]]
    /\ store = {}

-----------------------------------------------------------------------------
(* The start of a call. *)

\* What is refused before a temporary file exists is not a step: a capture may
\* not ask for more than the store takes; a download may, and put_file decides.
Prepare(p, a) ==
    /\ At(p, "idle")
    /\ a.tool = "stream" => MaxBytes <= UploadMax
    /\ args' = [args EXCEPT ![p] = a]
    /\ due' = [due EXCEPT ![p] = FALSE]
    /\ curl' = [curl EXCEPT ![p] = NoCurl]
    /\ answer' = [answer EXCEPT ![p] = None]
    /\ stop' = [stop EXCEPT ![p] = "curl_exit"]
    /\ size' = [size EXCEPT ![p] = 0]
    /\ file' = [file EXCEPT ![p] = 0]
    /\ UNCHANGED store

Files(a) == {"headers", "output"} \cup {k \in {"body"} : a.inline}

Begin(p, a) ==
    /\ Prepare(p, a)
    /\ Goto(p, "spawn")
    /\ temp' = [temp EXCEPT ![p] = Files(a)]
    /\ result' = [result EXCEPT ![p] = [how |-> "none", told |-> FALSE]]

\* The body is written first, then the other two are made, then the options are
\* checked (_build_curl_command); an exception leaves what there is by then.
Made(a) ==
    {k \in SUBSET Files(a) : /\ k # {}
                             /\ "body" \in Files(a) => "body" \in k
                             /\ "output" \in k => "headers" \in k}

Refuse(p, a) ==
    /\ Prepare(p, a)
    /\ \E k \in Made(a) : End(p, "refused", TRUE, k)

Spawn(p) ==
    /\ At(p, "spawn")
    /\ Goto(p, IF args[p].tool = "stream" THEN "poll" ELSE "wait")
    /\ curl' = [curl EXCEPT ![p] =
            [state |-> "connecting", code |-> "none", out |-> 0, signal |-> "none"]]
    /\ UNCHANGED <<args, due, answer, temp, stop, size, file, result, store>>

\* Popen raises; only subprocess.run stands in a try that removes the body.
SpawnFails(p) ==
    /\ At(p, "spawn")
    /\ End(p, "unspawned", TRUE,
           IF args[p].tool = "stream" THEN temp[p] ELSE temp[p] \ {"body"})
    /\ UNCHANGED <<args, due, curl, answer, stop, size, file, store>>

-----------------------------------------------------------------------------
(* The curl process, the server and time. *)

Connect(p, a) ==
    /\ curl[p].state = "connecting"
    /\ answer' = [answer EXCEPT ![p] = a]
    /\ curl' = [curl EXCEPT ![p] =
            [state |-> "running", code |-> "none", out |-> 0, signal |-> curl[p].signal]]
    /\ UNCHANGED <<at, args, due, temp, stop, size, file, result, store>>

\* --max-filesize does not bound what comes decompressed or without a length.
Receive(p) ==
    /\ curl[p].state = "running" /\ curl[p].out < answer[p].total
    /\ curl' = [curl EXCEPT ![p] =
            [state |-> "running", code |-> "none", out |-> curl[p].out + 1,
             signal |-> curl[p].signal]]
    /\ UNCHANGED <<at, args, due, answer, temp, stop, size, file, result, store>>

MayExit(p, code) ==
    \/ code = "ok" /\ curl[p].state = "running" /\ curl[p].out = answer[p].total
    \/ code = "timeout" /\ (due[p] \/ curl[p].state = "connecting")
    \/ code = "filesize" /\ curl[p].state = "running" /\ answer[p].total > MaxBytes
    \/ code = "failed"
    \/ code = "signal" /\ curl[p].signal # "none"

Exit(p, code) ==
    /\ curl[p].state \in {"connecting", "running"}
    /\ MayExit(p, code)
    /\ curl' = [curl EXCEPT ![p] =
            [state |-> "exited", code |-> code, out |-> curl[p].out,
             signal |-> curl[p].signal]]
    /\ UNCHANGED <<at, args, due, answer, temp, stop, size, file, result, store>>

Elapse(p) ==
    /\ ~At(p, "idle") /\ ~due[p]
    /\ due' = [due EXCEPT ![p] = TRUE]
    /\ UNCHANGED <<at, args, curl, answer, temp, stop, size, file, result, store>>

\* A deletion or a cleanup of the store.
Forget(n) ==
    /\ n \in store /\ store' = store \ {n}
    /\ UNCHANGED <<at, args, due, curl, answer, temp, stop, size, file, result>>

-----------------------------------------------------------------------------
(* curl_request and curl_download: subprocess.run. *)

Answered(p) ==
    /\ At(p, "wait") /\ Exited(p)
    /\ Goto(p, "answered")
    /\ Drop(p, "body")
    /\ UNCHANGED <<args, due, curl, answer, stop, size, file, result, store>>

Expire(p) ==
    /\ At(p, "wait") /\ due[p] /\ ~Exited(p)
    /\ Goto(p, "reap")
    /\ Signal(p, "kill")
    /\ UNCHANGED <<args, due, answer, temp, stop, size, file, result, store>>

\* run waits for the process it killed without a limit.
Reap(p) ==
    /\ At(p, "reap") /\ Exited(p)
    /\ End(p, "expired", TRUE, {})
    /\ UNCHANGED <<args, due, curl, answer, stop, size, file, store>>

\* What curl wrote to stdout cannot be decoded: an exception nobody catches.
Garble(p) ==
    /\ \/ At(p, "wait")
       \/ At(p, "communicate") \/ At(p, "killed")
    /\ Exited(p)
    /\ End(p, "garbled", TRUE, temp[p] \ {"body"})
    /\ UNCHANGED <<args, due, curl, answer, stop, size, file, store>>

\* Mutant of Reply: the body counts as cut off only when curl says so.
ReplyByCode(p) ==
    /\ At(p, "answered") /\ args[p].tool = "request"
    /\ End(p, "result", curl[p].code = "filesize", {})
    /\ UNCHANGED <<args, due, curl, answer, stop, size, file, store>>

\* _http_result: "ok", "error" and "body_truncated"
Reply(p) ==
    /\ At(p, "answered") /\ args[p].tool = "request"
    /\ End(p, "result", curl[p].code # "ok" \/ curl[p].out >= MaxBytes, {})
    /\ UNCHANGED <<args, due, curl, answer, stop, size, file, store>>

\* Mutant of Fit: any exit code will do if the status is good.
FitByStatus(p) ==
    /\ args[p].lenient \/ (answer[p] # None /\ ~answer[p].bad)
    /\ curl[p].out <= MaxBytes

\* The conditions of a download; without an answer the status is 0.
Fit(p) ==
    /\ curl[p].code = "ok"
    /\ args[p].lenient \/ ~answer[p].bad
    /\ curl[p].out <= MaxBytes

Check(p) ==
    /\ At(p, "answered") /\ args[p].tool = "download"
    /\ IF Fit(p)
          THEN /\ Goto(p, "hash")
               /\ size' = [size EXCEPT ![p] = curl[p].out]
               /\ UNCHANGED <<temp, result>>
          ELSE Fail(p) /\ UNCHANGED size
    /\ UNCHANGED <<args, due, curl, answer, stop, file, store>>

-----------------------------------------------------------------------------
(* curl_stream_capture: the loop, and what follows it. *)

Poll(p) ==
    /\ At(p, "poll")
    /\ Goto(p, IF Exited(p) THEN "communicate" ELSE "look")
    /\ UNCHANGED <<args, due, curl, answer, temp, stop, size, file, result, store>>

Halt(p, reason) ==
    /\ Goto(p, "communicate")
    /\ stop' = [stop EXCEPT ![p] = reason]
    /\ Signal(p, "term")

\* Mutant of Look: the loop leaves it to curl to keep the duration.
LookAtSize(p) ==
    /\ At(p, "look")
    /\ \/ curl[p].out >= MaxBytes /\ Halt(p, "max_bytes")
       \/ curl[p].out < MaxBytes /\ Goto(p, "poll") /\ UNCHANGED <<stop, curl>>
    /\ UNCHANGED <<args, due, answer, temp, size, file, result, store>>

\* The process may exit between poll() and this look at the output.
Look(p) ==
    /\ At(p, "look")
    /\ \/ curl[p].out >= MaxBytes /\ Halt(p, "max_bytes")
       \/ curl[p].out < MaxBytes /\ due[p] /\ Halt(p, "duration")
       \/ curl[p].out < MaxBytes /\ ~due[p] /\ Goto(p, "poll") /\ UNCHANGED <<stop, curl>>
    /\ UNCHANGED <<args, due, answer, temp, size, file, result, store>>

\* communicate returns, the first or the second time.
Collect(p) ==
    /\ At(p, "communicate") \/ At(p, "killed")
    /\ Exited(p)
    /\ Goto(p, "measure")
    /\ Drop(p, "body")
    /\ stop' = [stop EXCEPT ![p] =
            IF At(p, "killed") /\ @ = "curl_exit" THEN "forced_kill" ELSE @]
    /\ UNCHANGED <<args, due, curl, answer, size, file, result, store>>

Kill(p) ==
    /\ At(p, "communicate") /\ ~Exited(p)
    /\ Goto(p, "killed")
    /\ Signal(p, "kill")
    /\ UNCHANGED <<args, due, answer, temp, stop, size, file, result, store>>

\* Mutant of GiveUp: the second time-out is caught, and what is there is stored.
GiveUpQuietly(p) ==
    /\ At(p, "killed") /\ ~Exited(p)
    /\ Goto(p, "measure")
    /\ Drop(p, "body")
    /\ UNCHANGED <<args, due, curl, answer, stop, size, file, result, store>>

\* The second communicate times out as well.
GiveUp(p) ==
    /\ At(p, "killed") /\ ~Exited(p)
    /\ End(p, "stuck", TRUE, temp[p] \ {"body"})
    /\ UNCHANGED <<args, due, curl, answer, stop, size, file, store>>

\* Mutant of Classified: every exit of curl's own is an end of the stream.
ClassifiedAsEnd(p) == IF stop[p] = "curl_exit" THEN "eof" ELSE stop[p]

Classified(p) ==
    CASE stop[p] # "curl_exit"        -> stop[p]
      [] curl[p].code = "ok"          -> "eof"
      [] curl[p].code = "timeout"     -> "duration"
      [] curl[p].code = "filesize"    -> "max_bytes"
      [] OTHER                        -> "curl_error"

Measure(p) ==
    /\ At(p, "measure")
    /\ Goto(p, "hash")
    /\ size' = [size EXCEPT ![p] = curl[p].out]
    /\ stop' = [stop EXCEPT ![p] = Classified(p)]
    /\ UNCHANGED <<args, due, curl, answer, temp, file, result, store>>

-----------------------------------------------------------------------------
(* put_file and the preview, for downloads and captures. *)

Hash(p) ==
    /\ At(p, "hash")
    /\ IF curl[p].out <= UploadMax
          THEN /\ Goto(p, "admit")
               /\ file' = [file EXCEPT ![p] = curl[p].out]
               /\ UNCHANGED <<temp, result>>
          ELSE Fail(p) /\ UNCHANGED file
    /\ UNCHANGED <<args, due, curl, answer, stop, size, store>>

\* The output becomes the object, or goes because the object exists; or the
\* disk or the database fails.
Admit(p) ==
    /\ At(p, "admit")
    /\ \/ /\ Goto(p, "preview")
          /\ store' = store \cup {file[p]}
          /\ Drop(p, "output")
          /\ UNCHANGED result
       \/ Fail(p) /\ UNCHANGED store
    /\ UNCHANGED <<args, due, curl, answer, stop, size, file>>

\* Mutant of Preview: no finally around a preview that fails.
PreviewUnguarded(p) ==
    /\ At(p, "preview")
    /\ IF file[p] \in store
          THEN End(p, "result", args[p].tool = "stream" /\ stop[p] # "eof", {})
          ELSE End(p, "error", TRUE, temp[p])
    /\ UNCHANGED <<args, due, curl, answer, stop, size, file, store>>

\* The file is opened again; whoever deleted it makes the call fail.
Preview(p) ==
    /\ At(p, "preview")
    /\ IF file[p] \in store
          THEN End(p, "result", args[p].tool = "stream" /\ stop[p] # "eof", {})
          ELSE Fail(p)
    /\ UNCHANGED <<args, due, curl, answer, stop, size, file, store>>

-----------------------------------------------------------------------------
\* The module server dies; curl processes go on by themselves.
Crash ==
    /\ at' = [p \in Caller |-> "idle"]
    /\ result' = [p \in Caller |->
            IF At(p, "idle") THEN result[p] ELSE [how |-> "crash", told |-> TRUE]]
    /\ UNCHANGED <<args, due, curl, answer, temp, stop, size, file, store>>

\* What the thread does next, once it has begun.
Proceed(p) ==
    \/ Spawn(p) \/ SpawnFails(p)
    \/ Answered(p) \/ Expire(p) \/ Reap(p) \/ Garble(p) \/ Reply(p) \/ Check(p)
    \/ Poll(p) \/ Look(p) \/ Collect(p) \/ Kill(p) \/ GiveUp(p) \/ Measure(p)
    \/ Hash(p) \/ Admit(p) \/ Preview(p)

Next ==
    \/ \E p \in Caller :
          \/ \E a \in Args : Begin(p, a) \/ Refuse(p, a)
          \/ Proceed(p)
          \/ \E a \in Answer : Connect(p, a)
          \/ Receive(p) \/ Elapse(p)
          \/ \E code \in Code : Exit(p, code)
    \/ \E n \in store : Forget(n)
    \/ Crash

Spec == Init /\ [][Next]_vars

\* A thread goes on, time passes, and a process that is killed dies; that curl
\* keeps its own time limit, or heeds SIGTERM, is not assumed.
Die(p) == curl[p].signal = "kill" /\ Exit(p, "signal")

FairSpec ==
    /\ Spec
    /\ \A p \in Caller : WF_vars(Proceed(p)) /\ WF_vars(Elapse(p)) /\ WF_vars(Die(p))

-----------------------------------------------------------------------------
(* Properties. *)

TypeOK ==
    /\ at \in [Caller -> Step]
    /\ args \in [Caller -> Args]
    /\ due \in [Caller -> BOOLEAN]
    /\ curl \in [Caller -> Curl]
    /\ answer \in [Caller -> Answer \cup {None}]
    /\ temp \in [Caller -> SUBSET Temp]
    /\ stop \in [Caller -> Reason]
    /\ size \in [Caller -> Nat] /\ file \in [Caller -> Nat]
    /\ result \in [Caller -> Result]
    /\ store \in SUBSET Nat

Succeeded(p, tool) == At(p, "idle") /\ result[p].how = "result" /\ args[p].tool = tool

\* An answer that speaks of no failure and no cut has the whole body of the
\* response, whichever tool gives it, however curl ended and whenever the loop
\* looked at it.
WholeUnlessTold ==
    \A p \in Caller : \A tool \in Tool :
        Succeeded(p, tool) /\ ~result[p].told
            => answer[p] # None /\ curl[p].out = answer[p].total

\* The reason a capture gives for its end is true of the response and of the
\* time, although process and loop end it independently of each other: the
\* whole stream, as many bytes as asked for or a stream longer than that, the
\* time given or no connection, a failure of curl.
StopReasonTrue ==
    \A p \in Caller : Succeeded(p, "stream") =>
        CASE stop[p] = "eof"        -> answer[p] # None /\ size[p] = answer[p].total
          [] stop[p] = "max_bytes"  -> answer[p] # None /\ (size[p] >= MaxBytes
                                                           \/ answer[p].total > MaxBytes)
          [] stop[p] = "duration"   -> due[p] \/ answer[p] = None
          [] stop[p] = "curl_error" -> curl[p].code = "failed"
          [] OTHER                  -> FALSE

\* From the moment it is hashed nothing writes the output any more: what is
\* admitted under a digest has this digest, and captured_bytes is its size.
OutputSettled ==
    \A p \in Caller :
        \/ at[p] \in {"admit", "preview"}
        \/ Succeeded(p, "download") \/ Succeeded(p, "stream")
      => Exited(p) /\ file[p] = curl[p].out /\ size[p] = file[p]

\* A download is a whole response within the limit that the server did not
\* send as an error, unless errors were asked for.
DownloadsWhole ==
    \A p \in Caller : Succeeded(p, "download") =>
        /\ answer[p] # None
        /\ file[p] = answer[p].total /\ file[p] <= MaxBytes
        /\ args[p].lenient \/ ~answer[p].bad

\* A call that gives an answer, finds an error in one or runs out of time
\* leaves no temporary file, and a body stays only if curl never ran or the
\* server died.
TempFilesGo ==
    \A p \in Caller : At(p, "idle") /\ temp[p] # {} =>
        /\ result[p].how \in {"refused", "unspawned", "garbled", "stuck", "crash"}
        /\ "body" \in temp[p] => result[p].how \in {"refused", "unspawned", "crash"}

\* Every call ends, also with a curl that never does so by itself.
CallsEnd == \A p \in Caller : At(p, "spawn") ~> At(p, "idle")
=============================================================================
