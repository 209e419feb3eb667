---------------------------- MODULE SessionAdapter ----------------------------
(***************************************************************************)
(* One call of _SubprocessAdapter.run (rails/adapters/base.py): the engine *)
(* and a helper it may start in its process group, the two threads that    *)
(* pump its stdout and stderr into files, and the caller that waits for    *)
(* the engine, kills the group, or reads the transcript.                   *)
(*                                                                         *)
(* The pipes are the engine's and its helper's: a pipe ends only when both *)
(* are gone.  A wait with a timeout may end by it at any moment.           *)
(***************************************************************************)
EXTENDS Transcripts, FiniteSets

CONSTANTS
  Engines,            \* subset of {"claude", "codex", "gemini"}
  Said,               \* subset of Texts: what the engine says in this model
  MaxLines, PipeCap   \* bounds: lines on stdout; unread lines a pipe holds

ASSUME EnginesAssumption == Engines \subseteq {"claude", "codex", "gemini"}
ASSUME SaidAssumption == Said \subseteq Texts
ASSUME LinesAssumption == MaxLines \in Nat
ASSUME PipeAssumption == PipeCap \in Nat \ {0}

Streams == {"stdout", "stderr"}
Group == {"engine", "helper"}
NoResult == [ok |-> FALSE, explicit_result |-> FALSE, final_message |-> "absent", upto |-> 0]

VARIABLES
  engine,
  pc,                 \* of the caller
  unwinding,          \* what the caller raises once the group is killed
  alive, started,     \* processes of the group
  returncode,         \* of the engine; -9 when killed
  written, out_file,  \* stdout since the start; codex's -o file
  unread,             \* per stream: lines in the pipe
  pump,               \* per stream: where its thread is
  raw_lines,          \* what the stdout thread has collected
  transcript,         \* how many lines of stdout are in the transcript file
  sinks_open, pump_errors,
  drained,            \* had the stdout thread ended when the files were closed?
  result

process == <<alive, started, returncode, written, out_file>>
threads == <<pump, raw_lines, transcript, pump_errors>>
vars == <<engine, pc, unwinding, process, unread, threads, sinks_open, drained, result>>

Init ==
  /\ engine \in Engines /\ pc = "start" /\ unwinding = "no"
  /\ alive = {} /\ started = {} /\ returncode = 0
  /\ written = <<>> /\ out_file = "absent"
  /\ unread = [s \in Streams |-> 0]
  /\ pump = [s \in Streams |-> "not_started"]
  /\ raw_lines = <<>> /\ transcript = 0 /\ pump_errors = {}
  /\ sinks_open = FALSE /\ drained = FALSE /\ result = NoResult

-----------------------------------------------------------------------------
\* The process group.  What an engine writes is known from rails' captures only.

\* A stream ends with its terminal event, apart from noise; gemini's is noise to rails, and
\* it may print plain lines.
NextLines ==
  LET spoken == [type : {"assistant"}, says : Said \ {"absent"}]
      noise == [type : {"other"}, says : {"absent"}]
      plain == [type : {"raw"}, says : Said \ {"absent"}]
      ends == IF engine = "claude"
              THEN [type : {"success"}, says : Said] \cup [type : {"failure"}, says : {"absent"}]
              ELSE [type : {"success", "failure"}, says : {"absent"}]
  IN  IF \E i \in 1..Len(written) : Terminal(written[i]) THEN noise
      ELSE IF EmitsTerminalResult(engine) THEN spoken \cup noise \cup ends
      ELSE spoken \cup plain \cup noise

WritesStdout ==
  /\ alive # {} /\ Len(written) < MaxLines /\ unread["stdout"] < PipeCap
  /\ \E line \in NextLines :
       /\ written' = Append(written, line)
       /\ out_file' = IF engine = "codex" /\ line.type = "success" THEN LastWord(written, {"assistant"})
                                                             ELSE out_file
  /\ unread' = [unread EXCEPT !["stdout"] = @ + 1]
  /\ UNCHANGED <<engine, pc, unwinding, alive, started, returncode, threads, sinks_open,
                 drained, result>>

WritesStderr ==
  /\ alive # {} /\ pump["stderr"] \in {"not_started", "reading"} /\ unread["stderr"] = 0
  /\ unread' = [unread EXCEPT !["stderr"] = 1]
  /\ UNCHANGED <<engine, pc, unwinding, process, threads, sinks_open, drained, result>>

StartsHelper ==
  /\ "engine" \in alive /\ "helper" \notin started
  /\ alive' = alive \cup {"helper"} /\ started' = started \cup {"helper"}
  /\ UNCHANGED <<engine, pc, unwinding, returncode, written, out_file, unread, threads,
                 sinks_open, drained, result>>

Exits(p) ==
  /\ p \in alive /\ alive' = alive \ {p}
  /\ IF p = "engine" THEN returncode' \in {0, 1} ELSE UNCHANGED returncode
  /\ UNCHANGED <<engine, pc, unwinding, started, written, out_file, unread, threads,
                 sinks_open, drained, result>>

-----------------------------------------------------------------------------
\* The pump threads (_drain, _pump_stream).

ReadLine(s) ==
  /\ pump[s] = "reading" /\ unread[s] > 0
  /\ unread' = [unread EXCEPT ![s] = @ - 1]
  /\ pump' = [pump EXCEPT ![s] = "has_line"]
  /\ UNCHANGED <<engine, pc, unwinding, process, raw_lines, transcript, pump_errors,
                 sinks_open, drained, result>>

\* if not sink.closed
LooksAtSink(s) ==
  /\ pump[s] = "has_line"
  /\ pump' = [pump EXCEPT ![s] = IF sinks_open THEN "writing" ELSE "collecting"]
  /\ UNCHANGED <<engine, pc, unwinding, process, unread, raw_lines, transcript, pump_errors,
                 sinks_open, drained, result>>

WritesSink(s) ==
  /\ pump[s] = "writing" /\ sinks_open
  /\ pump' = [pump EXCEPT ![s] = "collecting"]
  /\ transcript' = IF s = "stdout" THEN transcript + 1 ELSE transcript
  /\ UNCHANGED <<engine, pc, unwinding, process, unread, raw_lines, pump_errors,
                 sinks_open, drained, result>>

\* The disk is full, or the file was closed since the look at it.
WriteRaises(s) ==
  /\ pump[s] = "writing"
  /\ pump' = [pump EXCEPT ![s] = "ended"] /\ pump_errors' = pump_errors \cup {s}
  /\ UNCHANGED <<engine, pc, unwinding, process, unread, raw_lines, transcript,
                 sinks_open, drained, result>>

\* Mutant: stderr goes where stdout does.
Collected_StderrToo(s) ==
  Append(raw_lines, IF s = "stdout" THEN written[Len(raw_lines) + 1]
                    ELSE [type |-> "other", says |-> "absent"])

\* A pipe keeps its order: the next line to collect is the next that was written.
Collected(s) ==
  IF s = "stdout" THEN Append(raw_lines, written[Len(raw_lines) + 1]) ELSE raw_lines

Collects(s) ==
  /\ pump[s] = "collecting"
  /\ pump' = [pump EXCEPT ![s] = "reading"]
  /\ raw_lines' = Collected(s)
  /\ UNCHANGED <<engine, pc, unwinding, process, unread, transcript, pump_errors,
                 sinks_open, drained, result>>

EndOfFile(s) ==
  /\ pump[s] = "reading" /\ unread[s] = 0 /\ alive = {}
  /\ pump' = [pump EXCEPT ![s] = "ended"]
  /\ UNCHANGED <<engine, pc, unwinding, process, unread, raw_lines, transcript, pump_errors,
                 sinks_open, drained, result>>

-----------------------------------------------------------------------------
\* The caller: run().

Ended == {"returned", "session_error", "interrupted", "os_error"}

Spawn ==
  /\ pc = "start" /\ pc' = "opening"
  /\ alive' = {"engine"} /\ started' = {"engine"}
  /\ UNCHANGED <<engine, unwinding, returncode, written, out_file, unread, threads,
                 sinks_open, drained, result>>

\* mkdir raises, or Popen does.
SpawnFails ==
  /\ pc = "start" /\ pc' \in {"os_error", "session_error"}
  /\ UNCHANGED <<engine, unwinding, process, unread, threads, sinks_open, drained, result>>

OpenTranscripts ==
  /\ pc = "opening" /\ pc' = "waiting"
  /\ sinks_open' = TRUE /\ pump' = [s \in Streams |-> "reading"]
  /\ UNCHANGED <<engine, unwinding, process, unread, raw_lines, transcript, pump_errors,
                 drained, result>>

\* open() raises, or Ctrl-C comes, outside the try: nothing kills the engine.
OpenRaises ==
  /\ pc = "opening" /\ pc' \in {"os_error", "interrupted"}
  /\ UNCHANGED <<engine, unwinding, process, unread, threads, sinks_open, drained, result>>

WaitReturns ==
  /\ pc = "waiting" /\ "engine" \notin alive /\ pc' = "join_stdout"
  /\ UNCHANGED <<engine, unwinding, process, unread, threads, sinks_open, drained, result>>

\* The timeout, or Ctrl-C; the engine may exit before it is killed.
WaitRaises ==
  /\ pc = "waiting" /\ pc' = "killing"
  /\ unwinding' \in {"timeout", "interrupt"}
  /\ UNCHANGED <<engine, process, unread, threads, sinks_open, drained, result>>

\* Mutant: only the engine itself is killed.
Killed_EngineOnly == {"engine"}

\* killpg: the engine leads the group and is not reaped yet, so the group exists.
Killed == Group

KillProcessGroup ==
  /\ pc = "killing" /\ pc' = "reaping"
  /\ alive' = alive \ Killed
  /\ returncode' = IF "engine" \in alive THEN -9 ELSE returncode
  /\ UNCHANGED <<engine, unwinding, started, written, out_file, unread, threads, sinks_open,
                 drained, result>>

Reap ==
  /\ pc = "reaping" /\ "engine" \notin alive /\ pc' = "join_stdout"
  /\ UNCHANGED <<engine, unwinding, process, unread, threads, sinks_open, drained, result>>

\* Mutant: join() without a timeout.
GivesUp_Never(s) == pump[s] = "ended"

\* join(timeout=5) comes back in any case, and nobody asks in which.
GivesUp(s) == TRUE

Join ==
  \/ pc = "join_stdout" /\ GivesUp("stdout") /\ pc' = "join_stderr"
       /\ UNCHANGED <<engine, unwinding, process, unread, threads, sinks_open, drained, result>>
  \/ pc = "join_stderr" /\ GivesUp("stderr") /\ pc' = "closing"
       /\ UNCHANGED <<engine, unwinding, process, unread, threads, sinks_open, drained, result>>

\* Ctrl-C during the joins of a normal end.
InterruptsJoin ==
  /\ pc \in {"join_stdout", "join_stderr"} /\ unwinding = "no"
  /\ sinks_open' = FALSE /\ pc' = "interrupted"
  /\ UNCHANGED <<engine, unwinding, process, unread, threads, drained, result>>

\* The end of the with block, on the way out of run() when an exception is raised.
CloseSinks ==
  /\ pc = "closing" /\ sinks_open' = FALSE
  /\ drained' = (pump["stdout"] = "ended")
  /\ pc' = CASE unwinding = "no" -> "checking"
             [] unwinding = "timeout" -> "session_error"
             [] unwinding = "interrupt" -> "interrupted"
  /\ UNCHANGED <<engine, unwinding, process, unread, threads, result>>

\* Mutant: what the threads could not write is not looked at.
CaptureFailed_Ignored == FALSE

CaptureFailed == pump_errors # {}

RaisesCaptureFailed ==
  /\ pc = "checking" /\ CaptureFailed /\ pc' = "session_error"
  /\ UNCHANGED <<engine, unwinding, process, unread, threads, sinks_open, drained, result>>

\* Mutant: the exit code is not asked.
SessionResult_NoExitCode(parsed) ==
  [ok |-> parsed.result_ok,
   explicit_result |-> IF EmitsTerminalResult(engine) THEN parsed.saw_result ELSE TRUE,
   final_message |-> parsed.final_message, upto |-> Len(raw_lines)]

SessionResult(parsed) ==
  [ok |-> returncode = 0 /\ parsed.result_ok,
   explicit_result |-> IF EmitsTerminalResult(engine) THEN parsed.saw_result ELSE TRUE,
   final_message |-> parsed.final_message,
   upto |-> Len(raw_lines)]       \* of this model: how much of the stream was read

Returns ==
  /\ pc = "checking" /\ ~CaptureFailed /\ pc' = "returned"
  /\ result' = SessionResult(Parse(engine, raw_lines, out_file))
  /\ UNCHANGED <<engine, unwinding, process, unread, threads, sinks_open, drained>>

-----------------------------------------------------------------------------

GroupStep ==
  WritesStdout \/ WritesStderr \/ StartsHelper \/ \E p \in Group : Exits(p)

PumpStep ==
  \E s \in Streams : ReadLine(s) \/ LooksAtSink(s) \/ WritesSink(s) \/ WriteRaises(s)
                     \/ Collects(s) \/ EndOfFile(s)

CallerStep ==
  \/ Spawn \/ SpawnFails \/ OpenTranscripts \/ OpenRaises \/ WaitReturns \/ WaitRaises
  \/ KillProcessGroup \/ Reap \/ Join \/ InterruptsJoin \/ CloseSinks
  \/ RaisesCaptureFailed \/ Returns

SessionStep == GroupStep \/ PumpStep \/ CallerStep

-----------------------------------------------------------------------------

\* The types, and that the collected lines are the beginning of the stream.
TypeOK ==
  /\ engine \in Engines
  /\ pc \in Ended \cup {"start", "opening", "waiting", "killing", "reaping", "join_stdout",
                        "join_stderr", "closing", "checking"}
  /\ unwinding \in {"no", "timeout", "interrupt"}
  /\ alive \subseteq started /\ started \subseteq Group
  /\ returncode \in {0, 1, -9}
  /\ written \in Seq(Lines) /\ Len(written) <= MaxLines /\ out_file \in Texts
  /\ unread \in [Streams -> 0..PipeCap]
  /\ pump \in [Streams -> {"not_started", "reading", "has_line", "writing", "collecting",
                           "ended"}]
  /\ IsPrefix(raw_lines, written)
  /\ transcript \in 0..Len(written)
  /\ pump_errors \subseteq Streams
  /\ sinks_open \in BOOLEAN /\ drained \in BOOLEAN
  /\ result.upto \in 0..Len(written) /\ result.final_message \in Texts

\* Nothing of what the engine says or ends with is beyond what was parsed.
Complete == \A i \in (result.upto + 1)..Len(written) : written[i].type = "other"

\* After a timeout, and after a Ctrl-C during the wait, no process of the session is
\* left, also when the engine went before the kill and left its helper behind
\* (_kill_process_group).
NoneLeftBehind ==
  pc \in {"session_error", "interrupted"} /\ unwinding # "no" => alive = {}

\* For an engine that announces its end, a result that is both ok and explicit is the
\* result of the whole session: exit 0, no failure reported, nothing lost in a pipe or in
\* a thread given up on.  And whatever the result: when the stdout thread had ended before
\* the files were closed, the transcript and the result hold every line, so that a thread
\* that died of an error does not pass for one that came to the end.
GoodRunIsGood ==
  pc = "returned" =>
    /\ EmitsTerminalResult(engine) /\ result.ok /\ result.explicit_result =>
         /\ returncode = 0 /\ Complete
         /\ \A i \in 1..Len(written) : written[i].type # "failure"
    /\ drained => transcript = Len(written) /\ result.upto = Len(written)

\* "A truncated drain must never masquerade as a good run." (base.py:280): a result that
\* is ok, and not marked as suspicious by explicit_result, is read from the whole stream.
TruncatedDrainIsNoGoodRun ==
  pc = "returned" /\ result.ok /\ result.explicit_result => Complete

=============================================================================
