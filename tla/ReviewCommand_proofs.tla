------------------------- MODULE ReviewCommand_proofs -------------------------
(***************************************************************************)
(* Theorems about `rails review' and the session it runs, for a stream of  *)
(* any length, pipes of any size and all engines.                          *)
(***************************************************************************)
EXTENDS ReviewCommand, TLAPS, WellFoundedInduction

USE EnginesAssumption, SaidAssumption, LinesAssumption, PipeAssumption

-----------------------------------------------------------------------------
(* The invariants.                                                          *)

CallerPcs == {"start", "opening", "waiting", "killing", "reaping", "join_stdout", "join_stderr",
              "closing", "checking"} \cup Ended
PumpPcs == {"not_started", "reading", "has_line", "writing", "collecting", "ended"}

Results == [ok : BOOLEAN, explicit_result : BOOLEAN, final_message : Texts, upto : Nat]

Types ==
  /\ engine \in Engines /\ pc \in CallerPcs /\ unwinding \in {"no", "timeout", "interrupt"}
  /\ alive \subseteq started /\ started \subseteq Group /\ returncode \in {0, 1, -9}
  /\ written \in Seq(Lines) /\ Len(written) <= MaxLines /\ out_file \in Texts
  /\ unread \in [Streams -> 0..PipeCap] /\ pump \in [Streams -> PumpPcs]
  /\ raw_lines \in Seq(Lines) /\ transcript \in Nat /\ pump_errors \subseteq Streams
  /\ sinks_open \in BOOLEAN /\ drained \in BOOLEAN
  /\ result \in Results

\* The stream ends with its terminal event, apart from noise; only claude's says something;
\* only gemini prints plain lines.
StreamInv ==
  /\ \A i, j \in 1..Len(written) : i < j /\ Terminal(written[i]) => written[j].type = "other"
  /\ engine # "claude" =>
       \A i \in 1..Len(written) : Terminal(written[i]) => written[i].says = "absent"
  /\ \A i \in 1..Len(written) : written[i].type = "other" => written[i].says = "absent"
  /\ ~EmitsTerminalResult(engine) => \A i \in 1..Len(written) : ~Terminal(written[i])
  /\ \A i \in 1..Len(written) : written[i].type = "raw" => engine = "gemini"

\* The -o file is what codex had said last when its turn was completed.
OutFileInv ==
  out_file # "absent" =>
    /\ engine = "codex" /\ \E i \in 1..Len(written) : Terminal(written[i])
    /\ \E k \in 1..Len(written) :
         /\ written[k].type = "assistant" /\ written[k].says = out_file
         /\ \A j \in 1..Len(written) : written[j].type = "assistant" => j <= k

\* A line that was written is in the pipe, with the pump, or collected, in this order.
InFlight ==
  IF pump["stdout"] \in {"has_line", "writing", "collecting"} \/ "stdout" \in pump_errors
  THEN 1 ELSE 0

FlowInv ==
  /\ Len(written) = Len(raw_lines) + unread["stdout"] + InFlight
  /\ \A i \in 1..Len(raw_lines) : raw_lines[i] = written[i]
  /\ "stdout" \in pump_errors => pump["stdout"] = "ended"

\* While the files are open each line that is collected was written to the transcript.
Behind == IF pump["stdout"] = "collecting" THEN 1 ELSE 0

TranscriptInv ==
  /\ transcript <= Len(raw_lines) + Behind
  /\ sinks_open => transcript = Len(raw_lines) + Behind
  /\ pc \in {"start", "opening"} =>
       /\ ~sinks_open /\ transcript = Len(raw_lines)
       /\ \A s \in Streams : pump[s] = "not_started"
  /\ pc \notin {"start", "opening", "os_error", "session_error", "interrupted"} =>
       \A s \in Streams : pump[s] # "not_started"
  /\ pc \in {"waiting", "killing", "reaping", "join_stdout", "join_stderr", "closing"} => sinks_open

\* Who is alive where: a pump comes to the end when nobody is; the caller goes on from its
\* wait without the engine; after a kill the group is gone.
AliveInv ==
  /\ pc = "start" => alive = {}
  /\ pump["stdout"] = "ended" /\ "stdout" \notin pump_errors => alive = {} /\ unread["stdout"] = 0
  /\ pc \in {"join_stdout", "join_stderr", "closing", "checking", "returned"} => "engine" \notin alive
  /\ pc \in {"start", "opening", "waiting", "checking", "returned", "os_error"} => unwinding = "no"
  /\ unwinding # "no" =>
       pc = "killing" \/ (alive = {} /\ pc \in {"reaping", "join_stdout", "join_stderr", "closing",
                                                "session_error", "interrupted"})
  /\ drained => /\ pump["stdout"] = "ended"
                /\ "stdout" \notin pump_errors => transcript = Len(raw_lines)

\* A result is of the lines that were collected by then.
EndedWell(n) == \E k \in 1..n : written[k].type = "success"

ResultInv ==
  /\ result.upto <= Len(raw_lines)
  /\ pc = "returned" =>
       /\ EmitsTerminalResult(engine) /\ result.ok /\ result.explicit_result =>
            returncode = 0 /\ EndedWell(result.upto)
       /\ drained => result.upto = Len(raw_lines) /\ "stdout" \notin pump_errors

\* An approval is the last verdict of a stream that was read to its end.
Spoke == Events(written, {"assistant"}) # {}
Bearing == {i \in 1..Len(written) : /\ written[i].says \in Verdicts
                                    /\ Spoke => written[i].type # "raw"}
LastApproves == \E i \in Bearing : (\A j \in Bearing : j <= i) /\ written[i].says = "APPROVE"

VerdictInv == pc = "returned" /\ result.final_message = "APPROVE" /\ Complete => LastApproves

CommandInv ==
  /\ command \in {"get_diff", "session"} \cup ExitCodes
  /\ command = "exit_0" => pc = "returned" /\ result.final_message = "APPROVE"

Inv ==
  /\ Types /\ StreamInv /\ OutFileInv /\ FlowInv /\ TranscriptInv /\ AliveInv /\ ResultInv
  /\ VerdictInv /\ CommandInv

-----------------------------------------------------------------------------
(* The last of several places.  That natural numbers are well-founded is    *)
(* what takes the place of an induction.                                     *)

LEMMA Minimal ==
  ASSUME NEW R, IsWellFoundedOn(R, Nat), NEW T, T \subseteq Nat, T # {}
  PROVE  \E n \in T : \A m \in T : ~(<<m, n>> \in R)
  BY WFMin, Zenon

LEMMA LeastOf ==
  ASSUME NEW R, IsWellFoundedOn(R, Nat), \A m, n \in Nat : m < n => <<m, n>> \in R,
         NEW T \in SUBSET Nat, T # {}
  PROVE  \E n \in T : \A m \in T : n <= m
<1>1. T \subseteq Nat /\ T # {}
  OBVIOUS
<1>2. \E n \in T : \A m \in T : <<m, n>> \notin R
  BY <1>1, Minimal
<1> PICK n \in T : \A m \in T : <<m, n>> \notin R
  BY <1>2
<1>3. \A m \in T : ~(m < n)
  BY <1>1
<1> QED
  BY <1>1, <1>3

LEMMA Least == ASSUME NEW T \in SUBSET Nat, T # {} PROVE \E n \in T : \A m \in T : n <= m
<1> DEFINE R == OpToRel(<, Nat)
<1>1. IsWellFoundedOn(R, Nat)
  BY NatLessThanWellFounded
<1>2. \A m, n \in Nat : m < n => <<m, n>> \in R
  BY DEF OpToRel
<1> HIDE DEF R
<1> QED
  BY <1>1, <1>2, LeastOf

LEMMA LatestIs ==
  ASSUME NEW n \in Nat, NEW places \in SUBSET (1..n), places # {}
  PROVE  Latest(places) \in places /\ \A j \in places : j <= Latest(places)
<1> DEFINE T == {m \in Nat : n - m \in places}
<1>1. T # {} /\ T \in SUBSET Nat
  <2>1. PICK k \in places : TRUE
    OBVIOUS
  <2>2. k \in 1..n /\ n - k \in Nat /\ n - (n - k) = k
    BY <2>1
  <2>3. n - k \in T
    BY <2>1, <2>2
  <2> QED
    BY <2>3
<1>2. PICK m \in T : \A l \in T : m <= l
  BY <1>1, Least
<1>3. n - m \in places /\ m \in Nat
  BY <1>2
<1>4. ASSUME NEW j \in places PROVE j <= n - m
  <2>1. j \in 1..n /\ n - j \in Nat /\ n - (n - j) = j
    OBVIOUS
  <2>2. n - j \in T
    BY <1>4, <2>1
  <2>3. m <= n - j
    BY <1>2, <2>2
  <2> QED
    BY <1>3, <2>1, <2>3
<1>5. \E i \in places : \A j \in places : j <= i
  BY <1>3, <1>4
<1> QED
  BY <1>5 DEF Latest

-----------------------------------------------------------------------------
(* The parsers.                                                             *)

LEMMA LineIs ==
  ASSUME NEW line \in Lines
  PROVE  /\ line.type \in {"assistant", "success", "failure", "raw", "other"} /\ line.says \in Texts
         /\ line.type = "other" => line.says = "absent"
         /\ line.type = "assistant" => line.says # "absent"
         /\ Terminal(line) <=> line.type \in {"success", "failure"}
  BY DEF Lines, Texts, Verdicts, Terminal, TerminalTypes

LEMMA EventsAre ==
  ASSUME NEW lines \in Seq(Lines), NEW types
  PROVE  /\ Len(lines) \in Nat
         /\ Events(lines, types) = {i \in 1..Len(lines) : lines[i].type \in types}
         /\ \A i \in 1..Len(lines) : lines[i] \in Lines
  BY DEF Events

LEMMA LastWordIs ==
  ASSUME NEW lines \in Seq(Lines), NEW types
  PROVE  /\ LastWord(lines, types) \in Texts
         /\ LastWord(lines, types) = "absent" =>
              \A j \in 1..Len(lines) : lines[j].type \in types => lines[j].says = "absent"
         /\ LastWord(lines, types) # "absent" =>
              \E k \in 1..Len(lines) :
                /\ lines[k].type \in types /\ lines[k].says = LastWord(lines, types)
                /\ \A j \in 1..Len(lines) :
                     lines[j].type \in types /\ lines[j].says # "absent" => j <= k
<1> DEFINE spoken == {i \in Events(lines, types) : lines[i].says # "absent"}
<1>1. spoken = {i \in 1..Len(lines) : lines[i].type \in types /\ lines[i].says # "absent"}
  BY EventsAre
<1>2. LastWord(lines, types) = IF spoken = {} THEN "absent" ELSE lines[Latest(spoken)].says
  BY DEF LastWord
<1> HIDE DEF spoken
<1>3. CASE spoken = {}
  BY <1>1, <1>2, <1>3 DEF Texts
<1>4. CASE spoken # {}
  <2> DEFINE k == Latest(spoken)
  <2>1. k \in spoken /\ \A j \in spoken : j <= k
    BY <1>1, <1>4, LatestIs, EventsAre
  <2> HIDE DEF k
  <2>2. k \in 1..Len(lines) /\ lines[k].type \in types /\ lines[k].says # "absent"
    BY <1>1, <2>1
  <2>3. LastWord(lines, types) = lines[k].says
    BY <1>2, <1>4 DEF k
  <2>4. lines[k].says \in Texts
    BY <2>2, EventsAre, LineIs
  <2>5. \A j \in 1..Len(lines) : lines[j].type \in types /\ lines[j].says # "absent" => j <= k
    BY <1>1, <2>1
  <2> QED
    BY <2>2, <2>3, <2>4, <2>5
<1> QED
  BY <1>3, <1>4

\* A stream in which the end was seen, and was no failure, has a success.
LEMMA EndIs ==
  ASSUME NEW lines \in Seq(Lines)
  PROVE  /\ SawResult(lines) \in BOOLEAN /\ ReportsFailure(lines) \in BOOLEAN
         /\ SawResult(lines) /\ ~ReportsFailure(lines) =>
              \E k \in 1..Len(lines) : lines[k].type = "success"
<1> DEFINE ends == Events(lines, TerminalTypes)
<1>1. SawResult(lines) \in BOOLEAN /\ ReportsFailure(lines) \in BOOLEAN
  BY DEF SawResult, ReportsFailure
<1>2. ASSUME SawResult(lines), ~ReportsFailure(lines)
      PROVE  \E k \in 1..Len(lines) : lines[k].type = "success"
  <2>1. ends # {} /\ lines[Latest(ends)].type # "failure"
    BY <1>2 DEF SawResult, ReportsFailure
  <2>2. ends \in SUBSET (1..Len(lines)) /\ Len(lines) \in Nat
    BY EventsAre
  <2>3. Latest(ends) \in ends
    BY <2>1, <2>2, LatestIs
  <2>4. Latest(ends) \in 1..Len(lines) /\ lines[Latest(ends)].type \in TerminalTypes
    BY <2>3, EventsAre
  <2> QED
    BY <2>1, <2>4 DEF TerminalTypes
<1> QED
  BY <1>1, <1>2

\* What an approval is read from.
LEMMA GeminiIs ==
  ASSUME NEW lines \in Seq(Lines)
  PROVE  /\ ParseGemini(lines).final_message \in Texts
         /\ ParseGemini(lines).final_message = "APPROVE" =>
              \/ \E k \in 1..Len(lines) :
                   /\ lines[k].type = "assistant" /\ lines[k].says = "APPROVE"
                   /\ \A j \in 1..Len(lines) :
                        lines[j].type = "assistant" /\ lines[j].says \in Verdicts => j <= k
              \/ /\ \A j \in 1..Len(lines) : lines[j].type # "assistant"
                 /\ Len(lines) > 0
                 /\ lines[Len(lines)].type = "raw" /\ lines[Len(lines)].says = "APPROVE"
<1> DEFINE fragments == Events(lines, {"assistant"})
           verdicts == {i \in fragments : lines[i].says \in Verdicts}
<1>1. /\ fragments = {i \in 1..Len(lines) : lines[i].type = "assistant"}
      /\ verdicts = {i \in 1..Len(lines) : lines[i].type = "assistant" /\ lines[i].says \in Verdicts}
  BY EventsAre
<1>2. ParseGemini(lines).final_message =
        IF verdicts # {} THEN lines[Latest(verdicts)].says
        ELSE IF fragments # {} THEN "no_verdict" ELSE LastNonemptyRaw(lines)
  BY DEF ParseGemini
<1> HIDE DEF fragments, verdicts
<1>3. CASE verdicts = {}
  <2>1. CASE fragments # {} \/ lines = <<>>
    BY <1>2, <1>3, <2>1 DEF LastNonemptyRaw, Texts
  <2>2. CASE fragments = {} /\ lines # <<>>
    <3>1. Len(lines) \in Nat /\ Len(lines) > 0 /\ lines[Len(lines)] \in Lines
      BY <2>2
    <3>2. ParseGemini(lines).final_message =
            IF lines[Len(lines)].type = "raw" THEN lines[Len(lines)].says ELSE "no_verdict"
      BY <1>2, <1>3, <2>2 DEF LastNonemptyRaw, Last
    <3>3. \A j \in 1..Len(lines) : lines[j].type # "assistant"
      BY <1>1, <2>2
    <3>4. lines[Len(lines)].says \in Texts
      BY <3>1, LineIs
    <3> QED
      BY <3>1, <3>2, <3>3, <3>4 DEF Texts
  <2> QED
    BY <2>1, <2>2
<1>4. CASE verdicts # {}
  <2> DEFINE k == Latest(verdicts)
  <2>1. k \in verdicts /\ \A j \in verdicts : j <= k
    BY <1>1, <1>4, LatestIs, EventsAre
  <2>2. ParseGemini(lines).final_message = lines[k].says
    BY <1>2, <1>4
  <2> HIDE DEF k
  <2>3. k \in 1..Len(lines) /\ lines[k].type = "assistant" /\ lines[k].says \in Verdicts
    BY <1>1, <2>1
  <2>4. \A j \in 1..Len(lines) : lines[j].type = "assistant" /\ lines[j].says \in Verdicts => j <= k
    BY <1>1, <2>1
  <2> QED
    BY <2>2, <2>3, <2>4 DEF Texts
<1> QED
  BY <1>3, <1>4

LEMMA ParsedIs ==
  ASSUME NEW e \in {"claude", "codex", "gemini"}, NEW lines \in Seq(Lines), NEW file \in Texts
  PROVE  /\ Parse(e, lines, file).final_message \in Texts
         /\ Parse(e, lines, file).result_ok \in BOOLEAN
         /\ Parse(e, lines, file).saw_result \in BOOLEAN
         /\ EmitsTerminalResult(e) /\ Parse(e, lines, file).result_ok
              /\ Parse(e, lines, file).saw_result =>
                \E k \in 1..Len(lines) : lines[k].type = "success"
<1>1. CASE e = "claude"
  <2>1. Parse(e, lines, file) = ParseClaude(lines)
    BY <1>1 DEF Parse
  <2>2. ParseClaude(lines).final_message \in Texts
    BY LastWordIs DEF ParseClaude, ClaudeMessage
  <2>3. /\ ParseClaude(lines).result_ok = ~ReportsFailure(lines)
        /\ ParseClaude(lines).saw_result = SawResult(lines)
    BY DEF ParseClaude
  <2> QED
    BY <2>1, <2>2, <2>3, EndIs
<1>2. CASE e = "codex"
  <2>1. Parse(e, lines, file) = ParseCodex(lines, file)
    BY <1>2 DEF Parse
  <2>2. ParseCodex(lines, file).final_message \in Texts
    BY LastWordIs DEF ParseCodex
  <2>3. /\ ParseCodex(lines, file).result_ok = ~ReportsFailure(lines)
        /\ ParseCodex(lines, file).saw_result = SawResult(lines)
    BY DEF ParseCodex
  <2> QED
    BY <2>1, <2>2, <2>3, EndIs
<1>3. CASE e = "gemini"
  <2>1. Parse(e, lines, file) = ParseGemini(lines)
    BY <1>3 DEF Parse
  <2>2. ParseGemini(lines).result_ok = TRUE /\ ParseGemini(lines).saw_result = FALSE
    BY DEF ParseGemini
  <2> QED
    BY <1>3, <2>1, <2>2, GeminiIs DEF EmitsTerminalResult
<1> QED
  BY <1>1, <1>2, <1>3

\* What the session can be told.
LEMMA ResultIs ==
  ASSUME Types
  PROVE  LET parsed == Parse(engine, raw_lines, out_file)
             r == SessionResult(parsed)
         IN  /\ r \in Results
             /\ r.final_message = parsed.final_message /\ r.upto = Len(raw_lines)
             /\ EmitsTerminalResult(engine) /\ r.ok /\ r.explicit_result =>
                  returncode = 0 /\ \E k \in 1..Len(raw_lines) : raw_lines[k].type = "success"
<1> DEFINE parsed == Parse(engine, raw_lines, out_file)
           r == SessionResult(parsed)
<1>1. /\ engine \in {"claude", "codex", "gemini"} /\ raw_lines \in Seq(Lines)
      /\ out_file \in Texts /\ Len(raw_lines) \in Nat
  BY DEF Types
<1>2. /\ parsed.final_message \in Texts /\ parsed.result_ok \in BOOLEAN
      /\ parsed.saw_result \in BOOLEAN
      /\ EmitsTerminalResult(engine) /\ parsed.result_ok /\ parsed.saw_result =>
           \E k \in 1..Len(raw_lines) : raw_lines[k].type = "success"
  BY <1>1, ParsedIs
<1> HIDE DEF parsed
<1> DEFINE good == returncode = 0 /\ parsed.result_ok
           told == IF EmitsTerminalResult(engine) THEN parsed.saw_result ELSE TRUE
<1>3. r = [ok |-> good, explicit_result |-> told,
           final_message |-> parsed.final_message, upto |-> Len(raw_lines)]
  BY DEF SessionResult
<1>4. /\ good \in BOOLEAN /\ told \in BOOLEAN
      /\ good => returncode = 0 /\ parsed.result_ok
      /\ EmitsTerminalResult(engine) /\ told => parsed.saw_result
  BY <1>2
<1> HIDE DEF r, good, told
<1>5. r \in Results
  BY <1>1, <1>2, <1>3, <1>4 DEF Results
<1>6. /\ r.final_message = parsed.final_message /\ r.upto = Len(raw_lines)
      /\ r.ok = good /\ r.explicit_result = told
  BY <1>3
<1>7. /\ r \in Results
      /\ r.final_message = parsed.final_message /\ r.upto = Len(raw_lines)
      /\ EmitsTerminalResult(engine) /\ r.ok /\ r.explicit_result =>
           returncode = 0 /\ \E k \in 1..Len(raw_lines) : raw_lines[k].type = "success"
  BY <1>2, <1>4, <1>5, <1>6
<1> QED
  BY <1>7 DEF parsed, r

-----------------------------------------------------------------------------
(* What an engine may write next.                                           *)

LEMMA NextLineIs ==
  ASSUME Types, NEW line \in NextLines
  PROVE  /\ line \in Lines
         /\ (\E i \in 1..Len(written) : Terminal(written[i])) => line.type = "other"
         /\ engine # "claude" /\ Terminal(line) => line.says = "absent"
         /\ ~EmitsTerminalResult(engine) => ~Terminal(line)
         /\ line.type = "raw" => engine = "gemini"
<1> DEFINE spoken == [type : {"assistant"}, says : Said \ {"absent"}]
           noise == [type : {"other"}, says : {"absent"}]
           plain == [type : {"raw"}, says : Said \ {"absent"}]
           ends == IF engine = "claude"
                   THEN [type : {"success"}, says : Said]
                          \cup [type : {"failure"}, says : {"absent"}]
                   ELSE [type : {"success", "failure"}, says : {"absent"}]
<1>1. line \in IF \E i \in 1..Len(written) : Terminal(written[i]) THEN noise
               ELSE IF EmitsTerminalResult(engine) THEN spoken \cup noise \cup ends
               ELSE spoken \cup plain \cup noise
  BY DEF NextLines
<1>2. /\ spoken \subseteq Lines /\ noise \subseteq Lines /\ plain \subseteq Lines
      /\ ends \subseteq Lines
  BY DEF Lines, Texts
<1>3. /\ \A l \in noise : l.type = "other"
      /\ \A l \in spoken : l.type = "assistant"
      /\ \A l \in plain : l.type = "raw"
      /\ \A l \in ends : l.type \in {"success", "failure"}
      /\ engine # "claude" => \A l \in ends : l.says = "absent"
  OBVIOUS
<1> HIDE DEF spoken, noise, plain, ends
<1>4. ~EmitsTerminalResult(engine) <=> engine = "gemini"
  BY DEF EmitsTerminalResult
<1> QED
  BY <1>1, <1>2, <1>3, <1>4 DEF Terminal, TerminalTypes

LEMMA WrittenIs ==
  ASSUME Types, NEW line \in Lines, written' = Append(written, line)
  PROVE  /\ written' \in Seq(Lines) /\ Len(written) \in Nat /\ Len(written') = Len(written) + 1
         /\ \A i \in 1..Len(written) : written'[i] = written[i] /\ written[i] \in Lines
         /\ written'[Len(written) + 1] = line
  BY DEF Types

-----------------------------------------------------------------------------
(* The invariants are kept by every step of the session.                    *)

LEMMA TypesStep == ASSUME Types, FlowInv, SessionStep PROVE Types'
<1> USE DEF Types, CallerPcs, PumpPcs, Streams, Group, Ended
<1>1. CASE WritesStdout
  <2>1. PICK line \in NextLines :
          /\ written' = Append(written, line)
          /\ out_file' = IF engine = "codex" /\ line.type = "success"
                         THEN LastWord(written, {"assistant"}) ELSE out_file
    BY <1>1 DEF WritesStdout
  <2>2. line \in Lines
    BY NextLineIs
  <2>3. written' \in Seq(Lines) /\ Len(written') <= MaxLines
    BY <1>1, <2>1, <2>2, WrittenIs DEF WritesStdout
  <2>4. out_file' \in Texts
    BY <2>1, LastWordIs
  <2>5. unread' \in [Streams -> 0..PipeCap]
    BY <1>1 DEF WritesStdout
  <2> QED
    BY <1>1, <2>3, <2>4, <2>5 DEF WritesStdout, threads
<1>2. CASE WritesStderr
  BY <1>2 DEF WritesStderr, process, threads
<1>3. CASE StartsHelper
  BY <1>3 DEF StartsHelper, threads
<1>4. ASSUME NEW p \in Group, Exits(p) PROVE Types'
  BY <1>4 DEF Exits, threads
<1>5. ASSUME NEW s \in Streams, ReadLine(s) PROVE Types'
  BY <1>5 DEF ReadLine, process
<1>6. ASSUME NEW s \in Streams, LooksAtSink(s) PROVE Types'
  BY <1>6 DEF LooksAtSink, process
<1>7. ASSUME NEW s \in Streams, WritesSink(s) PROVE Types'
  BY <1>7 DEF WritesSink, process
<1>8. ASSUME NEW s \in Streams, WriteRaises(s) PROVE Types'
  BY <1>8 DEF WriteRaises, process
<1>9. ASSUME NEW s \in Streams, Collects(s) PROVE Types'
  <2>1. raw_lines' \in Seq(Lines)
    BY <1>9 DEF Collects, Collected, FlowInv, InFlight
  <2> QED
    BY <1>9, <2>1 DEF Collects, process
<1>10. ASSUME NEW s \in Streams, EndOfFile(s) PROVE Types'
  BY <1>10 DEF EndOfFile, process
<1>11. CASE Spawn \/ SpawnFails \/ OpenTranscripts \/ OpenRaises
  BY <1>11 DEF Spawn, SpawnFails, OpenTranscripts, OpenRaises, process, threads
<1>12. CASE WaitReturns \/ WaitRaises \/ KillProcessGroup \/ Reap \/ Join \/ InterruptsJoin
  BY <1>12 DEF WaitReturns, WaitRaises, KillProcessGroup, Killed, Reap, Join, InterruptsJoin,
               process, threads
<1>13. CASE CloseSinks
  BY <1>13 DEF CloseSinks, process, threads
<1>14. CASE RaisesCaptureFailed
  BY <1>14 DEF RaisesCaptureFailed, process, threads
<1>15. CASE Returns
  <2>1. result' \in Results
    BY <1>15, ResultIs DEF Returns, Results
  <2> QED
    BY <1>15, <2>1 DEF Returns, Results, process, threads
<1> QED
  BY <1>1, <1>2, <1>3, <1>4, <1>5, <1>6, <1>7, <1>8, <1>9, <1>10, <1>11, <1>12, <1>13, <1>14,
     <1>15 DEF SessionStep, GroupStep, PumpStep, CallerStep

LEMMA OnlyTheEngineWrites ==
  ASSUME SessionStep PROVE WritesStdout \/ UNCHANGED <<engine, written, out_file>>
  BY DEF SessionStep, GroupStep, PumpStep, CallerStep, WritesStderr, StartsHelper, Exits, ReadLine,
         LooksAtSink, WritesSink, WriteRaises, Collects, EndOfFile, Spawn, SpawnFails,
         OpenTranscripts, OpenRaises, WaitReturns, WaitRaises, KillProcessGroup, Reap, Join,
         InterruptsJoin, CloseSinks, RaisesCaptureFailed, Returns, process

LEMMA WritesIs ==
  ASSUME Types, WritesStdout
  PROVE  \E line \in NextLines :
           /\ engine' = engine /\ line \in Lines /\ written' = Append(written, line)
           /\ out_file' = IF engine = "codex" /\ line.type = "success"
                          THEN LastWord(written, {"assistant"}) ELSE out_file
           /\ (\E i \in 1..Len(written) : Terminal(written[i])) => line.type = "other"
           /\ engine # "claude" /\ Terminal(line) => line.says = "absent"
           /\ ~EmitsTerminalResult(engine) => ~Terminal(line)
           /\ line.type = "raw" => engine = "gemini"
           /\ Len(written) \in Nat /\ Len(written') = Len(written) + 1
           /\ \A i \in 1..Len(written) : written'[i] = written[i] /\ written[i] \in Lines
           /\ written'[Len(written) + 1] = line
<1>1. PICK line \in NextLines :
        /\ written' = Append(written, line)
        /\ out_file' = IF engine = "codex" /\ line.type = "success"
                       THEN LastWord(written, {"assistant"}) ELSE out_file
  BY DEF WritesStdout
<1>2. engine' = engine
  BY DEF WritesStdout
<1>3. /\ line \in Lines
      /\ (\E i \in 1..Len(written) : Terminal(written[i])) => line.type = "other"
      /\ engine # "claude" /\ Terminal(line) => line.says = "absent"
      /\ ~EmitsTerminalResult(engine) => ~Terminal(line)
      /\ line.type = "raw" => engine = "gemini"
  BY NextLineIs
<1>4. /\ Len(written) \in Nat /\ Len(written') = Len(written) + 1
      /\ \A i \in 1..Len(written) : written'[i] = written[i] /\ written[i] \in Lines
      /\ written'[Len(written) + 1] = line
  BY <1>1, <1>3, WrittenIs
<1> QED
  BY <1>1, <1>2, <1>3, <1>4

LEMMA StreamStep == ASSUME Types, StreamInv, SessionStep PROVE StreamInv'
<1>1. CASE UNCHANGED <<engine, written>>
  BY <1>1 DEF StreamInv, Terminal
<1>2. CASE WritesStdout
  <2>1. PICK line \in NextLines :
          /\ engine' = engine /\ line \in Lines
          /\ (\E i \in 1..Len(written) : Terminal(written[i])) => line.type = "other"
          /\ engine # "claude" /\ Terminal(line) => line.says = "absent"
          /\ ~EmitsTerminalResult(engine) => ~Terminal(line)
          /\ line.type = "raw" => engine = "gemini"
          /\ Len(written) \in Nat /\ Len(written') = Len(written) + 1
          /\ \A i \in 1..Len(written) : written'[i] = written[i]
          /\ written'[Len(written) + 1] = line
    BY <1>2, WritesIs
  <2>2. \A i \in 1..Len(written') : \/ i \in 1..Len(written) /\ written'[i] = written[i]
                                    \/ i = Len(written) + 1 /\ written'[i] = line
    BY <2>1
  <2>3. \A i, j \in 1..Len(written') :
          i < j /\ Terminal(written'[i]) => written'[j].type = "other"
    BY <2>1, <2>2 DEF StreamInv
  <2>4. engine # "claude" =>
          \A i \in 1..Len(written') : Terminal(written'[i]) => written'[i].says = "absent"
    BY <2>1, <2>2 DEF StreamInv
  <2>5. \A i \in 1..Len(written') : written'[i].type = "other" => written'[i].says = "absent"
    BY <2>1, <2>2, LineIs DEF StreamInv
  <2>6. ~EmitsTerminalResult(engine) => \A i \in 1..Len(written') : ~Terminal(written'[i])
    BY <2>1, <2>2 DEF StreamInv
  <2>7. \A i \in 1..Len(written') : written'[i].type = "raw" => engine = "gemini"
    BY <2>1, <2>2 DEF StreamInv
  <2> QED
    BY <2>1, <2>3, <2>4, <2>5, <2>6, <2>7 DEF StreamInv, Terminal
<1> QED
  BY <1>1, <1>2, OnlyTheEngineWrites

LEMMA OutFileStep ==
  ASSUME Types, StreamInv, OutFileInv, SessionStep PROVE OutFileInv'
<1>1. CASE UNCHANGED <<engine, written, out_file>>
  BY <1>1 DEF OutFileInv, Terminal
<1>2. CASE WritesStdout
  <2>1. PICK line \in NextLines :
          /\ engine' = engine /\ line \in Lines
          /\ out_file' = IF engine = "codex" /\ line.type = "success"
                         THEN LastWord(written, {"assistant"}) ELSE out_file
          /\ (\E i \in 1..Len(written) : Terminal(written[i])) => line.type = "other"
          /\ Len(written) \in Nat /\ Len(written') = Len(written) + 1
          /\ \A i \in 1..Len(written) : written'[i] = written[i] /\ written[i] \in Lines
          /\ written'[Len(written) + 1] = line
    BY <1>2, WritesIs
  <2>2. \A i \in 1..Len(written') : \/ i \in 1..Len(written) /\ written'[i] = written[i]
                                    \/ i = Len(written) + 1 /\ written'[i] = line
    BY <2>1
  <2>3. 1..Len(written) \subseteq 1..Len(written') /\ Len(written) + 1 \in 1..Len(written')
    BY <2>1
  <2>4. CASE engine = "codex" /\ line.type = "success"
    <3>1. out_file' = LastWord(written, {"assistant"})
      BY <2>1, <2>4
    <3>2. Terminal(written'[Len(written) + 1]) /\ line.type # "assistant"
      BY <2>1, <2>4 DEF Terminal, TerminalTypes
    <3>3. \A j \in 1..Len(written) : written[j].type = "assistant" => written[j].says # "absent"
      BY <2>1, LineIs
    <3>4. out_file' # "absent" =>
            \E k \in 1..Len(written) :
              /\ written[k].type = "assistant" /\ written[k].says = out_file'
              /\ \A j \in 1..Len(written) : written[j].type = "assistant" => j <= k
      <4>1. written \in Seq(Lines)
        BY DEF Types
      <4> QED
        BY <3>1, <3>3, <4>1, LastWordIs
    <3> QED
      BY <2>1, <2>2, <2>3, <2>4, <3>2, <3>4 DEF OutFileInv, Terminal
  <2>5. CASE ~(engine = "codex" /\ line.type = "success")
    <3>1. out_file' = out_file
      BY <2>1, <2>5
    <3>2. out_file # "absent" => line.type = "other"
      BY <2>1 DEF OutFileInv
    <3> QED
      BY <2>1, <2>2, <2>3, <3>1, <3>2 DEF OutFileInv, Terminal
  <2> QED
    BY <2>4, <2>5
<1> QED
  BY <1>1, <1>2, OnlyTheEngineWrites

LEMMA FlowStep ==
  ASSUME Types, FlowInv, TranscriptInv, SessionStep PROVE FlowInv'
<1> USE DEF Streams, InFlight, FlowInv
<1>0. /\ Len(written) \in Nat /\ Len(raw_lines) \in Nat /\ DOMAIN raw_lines = 1..Len(raw_lines)
      /\ unread["stdout"] \in Nat /\ unread["stderr"] \in Nat
  BY DEF Types
<1>1. CASE UNCHANGED <<written, unread, pump, raw_lines, pump_errors>>
  BY <1>1
<1>2. CASE WritesStdout
  <2>1. /\ Len(written') = Len(written) + 1
        /\ \A i \in 1..Len(written) : written'[i] = written[i]
    BY <1>2, WritesIs
  <2>2. unread'["stdout"] = unread["stdout"] + 1 /\ UNCHANGED <<pump, raw_lines, pump_errors>>
    BY <1>2 DEF WritesStdout, Types, threads
  <2> QED
    BY <1>0, <2>1, <2>2
<1>3. CASE WritesStderr
  <2>1. unread'["stdout"] = unread["stdout"] /\ UNCHANGED <<written, pump, raw_lines, pump_errors>>
    BY <1>3 DEF WritesStderr, Types, process, threads
  <2> QED
    BY <2>1
<1>4. ASSUME NEW s \in Streams,
             ReadLine(s) \/ LooksAtSink(s) \/ WritesSink(s) \/ EndOfFile(s)
      PROVE  FlowInv'
  <2>1. UNCHANGED <<written, raw_lines, pump_errors>>
    BY <1>4 DEF ReadLine, LooksAtSink, WritesSink, EndOfFile, process
  <2>2. CASE s = "stderr"
    <3>1. unread'["stdout"] = unread["stdout"] /\ pump'["stdout"] = pump["stdout"]
      BY <1>4, <2>2 DEF ReadLine, LooksAtSink, WritesSink, EndOfFile, Types
    <3> QED
      BY <2>1, <3>1
  <2>3. CASE s = "stdout" /\ ReadLine(s)
    <3>1. /\ pump["stdout"] = "reading" /\ pump'["stdout"] = "has_line"
          /\ unread["stdout"] > 0 /\ unread'["stdout"] = unread["stdout"] - 1
      BY <2>3 DEF ReadLine, Types
    <3> QED
      BY <1>0, <2>1, <3>1
  <2>4. CASE s = "stdout" /\ (LooksAtSink(s) \/ WritesSink(s))
    <3>1. /\ pump["stdout"] \in {"has_line", "writing"} /\ pump'["stdout"] \in {"writing", "collecting"}
          /\ unread' = unread
      BY <2>4 DEF LooksAtSink, WritesSink, Types
    <3> QED
      BY <1>0, <2>1, <3>1
  <2>5. CASE s = "stdout" /\ EndOfFile(s)
    <3>1. pump["stdout"] = "reading" /\ pump'["stdout"] = "ended" /\ unread' = unread
      BY <2>5 DEF EndOfFile, Types
    <3> QED
      BY <1>0, <2>1, <3>1
  <2> QED
    BY <1>4, <2>2, <2>3, <2>4, <2>5
<1>5. ASSUME NEW s \in Streams, WriteRaises(s) PROVE FlowInv'
  <2>1. UNCHANGED <<written, unread, raw_lines>> /\ pump_errors' = pump_errors \cup {s}
    BY <1>5 DEF WriteRaises, process
  <2>2. CASE s = "stderr"
    <3>1. pump'["stdout"] = pump["stdout"]
      BY <1>5, <2>2 DEF WriteRaises, Types
    <3> QED
      BY <2>1, <2>2, <3>1
  <2>3. CASE s = "stdout"
    <3>1. pump["stdout"] = "writing" /\ pump'["stdout"] = "ended"
      BY <1>5, <2>3 DEF WriteRaises, Types
    <3> QED
      BY <1>0, <2>1, <2>3, <3>1
  <2> QED
    BY <2>2, <2>3
<1>6. ASSUME NEW s \in Streams, Collects(s) PROVE FlowInv'
  <2>1. UNCHANGED <<written, unread, pump_errors>>
    BY <1>6 DEF Collects, process
  <2>2. CASE s = "stderr"
    <3>1. pump'["stdout"] = pump["stdout"] /\ raw_lines' = raw_lines
      BY <1>6, <2>2 DEF Collects, Collected, Types
    <3> QED
      BY <2>1, <3>1
  <2>3. CASE s = "stdout"
    <3>1. /\ pump["stdout"] = "collecting" /\ pump'["stdout"] = "reading"
          /\ raw_lines' = Append(raw_lines, written[Len(raw_lines) + 1])
      BY <1>6, <2>3 DEF Collects, Collected, Types
    <3>2. /\ Len(raw_lines') = Len(raw_lines) + 1
          /\ \A i \in 1..Len(raw_lines) : raw_lines'[i] = raw_lines[i]
          /\ raw_lines'[Len(raw_lines) + 1] = written[Len(raw_lines) + 1]
      <4>1. raw_lines \in Seq(Lines) /\ written[Len(raw_lines) + 1] \in Lines
        BY <1>0, <3>1 DEF Types
      <4> QED
        BY <3>1, <4>1
    <3> QED
      BY <1>0, <2>1, <3>1, <3>2
  <2> QED
    BY <2>2, <2>3
<1>7. CASE OpenTranscripts
  <2>1. /\ pump["stdout"] = "not_started" /\ pump'["stdout"] = "reading"
        /\ UNCHANGED <<written, unread, raw_lines, pump_errors>>
    BY <1>7 DEF OpenTranscripts, TranscriptInv, process
  <2> QED
    BY <2>1
<1>8. \/ UNCHANGED <<written, unread, pump, raw_lines, pump_errors>>
      \/ WritesStdout \/ WritesStderr \/ OpenTranscripts
      \/ \E s \in Streams : \/ ReadLine(s) \/ LooksAtSink(s) \/ WritesSink(s) \/ EndOfFile(s)
                            \/ WriteRaises(s) \/ Collects(s)
  BY DEF SessionStep, GroupStep, PumpStep, CallerStep, StartsHelper, Exits, Spawn, SpawnFails,
         OpenRaises, WaitReturns, WaitRaises, KillProcessGroup, Reap, Join, InterruptsJoin,
         CloseSinks, RaisesCaptureFailed, Returns, process, threads
<1> QED
  BY <1>1, <1>2, <1>3, <1>4, <1>5, <1>6, <1>7, <1>8

LEMMA TranscriptStep ==
  ASSUME Types, FlowInv, TranscriptInv, SessionStep PROVE TranscriptInv'
<1> USE DEF Streams, Behind, TranscriptInv
<1>0. Len(raw_lines) \in Nat /\ transcript \in Nat
  BY DEF Types
<1>1. CASE UNCHANGED <<pc, pump, raw_lines, transcript, sinks_open>>
  BY <1>1
<1>2. ASSUME NEW s \in Streams,
             \/ ReadLine(s) \/ LooksAtSink(s) \/ WritesSink(s) \/ WriteRaises(s) \/ Collects(s)
             \/ EndOfFile(s)
      PROVE  TranscriptInv'
  <2>1. UNCHANGED <<pc, sinks_open>> /\ pump[s] # "not_started" /\ pump'[s] # "not_started"
    BY <1>2 DEF ReadLine, LooksAtSink, WritesSink, WriteRaises, Collects, EndOfFile, Types
  <2>2. \A t \in Streams \ {s} : pump'[t] = pump[t]
    BY <1>2 DEF ReadLine, LooksAtSink, WritesSink, WriteRaises, Collects, EndOfFile, Types
  <2>3. transcript' <= Len(raw_lines') + Behind' /\ (sinks_open => transcript' = Len(raw_lines') + Behind')
    <3>1. CASE s = "stderr"
      <4>1. UNCHANGED <<raw_lines, transcript>> /\ pump'["stdout"] = pump["stdout"]
        BY <1>2, <2>2, <3>1
           DEF ReadLine, LooksAtSink, WritesSink, WriteRaises, Collects, Collected, EndOfFile
      <4> QED
        BY <4>1
    <3>2. CASE s = "stdout" /\ (ReadLine(s) \/ WriteRaises(s) \/ EndOfFile(s))
      <4>1. /\ UNCHANGED <<raw_lines, transcript>>
            /\ pump["stdout"] # "collecting" /\ pump'["stdout"] # "collecting"
        BY <3>2 DEF ReadLine, WriteRaises, EndOfFile, Types
      <4> QED
        BY <4>1
    <3>3. CASE s = "stdout" /\ LooksAtSink(s)
      <4>1. /\ UNCHANGED <<raw_lines, transcript>>
            /\ pump["stdout"] = "has_line"
            /\ pump'["stdout"] = IF sinks_open THEN "writing" ELSE "collecting"
        BY <3>3 DEF LooksAtSink, Types
      <4> QED
        BY <1>0, <4>1
    <3>4. CASE s = "stdout" /\ WritesSink(s)
      <4>1. /\ raw_lines' = raw_lines /\ transcript' = transcript + 1
            /\ pump["stdout"] = "writing" /\ pump'["stdout"] = "collecting" /\ sinks_open
        BY <3>4 DEF WritesSink, Types
      <4> QED
        BY <1>0, <4>1
    <3>5. CASE s = "stdout" /\ Collects(s)
      <4>1. /\ raw_lines' = Append(raw_lines, written[Len(raw_lines) + 1]) /\ transcript' = transcript
            /\ pump["stdout"] = "collecting" /\ pump'["stdout"] = "reading"
        BY <3>5 DEF Collects, Collected, Types
      <4>2. Len(raw_lines') = Len(raw_lines) + 1
        BY <4>1 DEF Types
      <4> QED
        BY <1>0, <4>1, <4>2
    <3> QED
      BY <1>2, <3>1, <3>2, <3>3, <3>4, <3>5
  <2> QED
    BY <2>1, <2>2, <2>3
<1>3. CASE Spawn \/ SpawnFails \/ OpenRaises \/ WaitReturns \/ WaitRaises \/ KillProcessGroup
           \/ Reap \/ Join \/ RaisesCaptureFailed \/ Returns
  <2>1. UNCHANGED <<pump, raw_lines, transcript, sinks_open>>
    BY <1>3 DEF Spawn, SpawnFails, OpenRaises, WaitReturns, WaitRaises, KillProcessGroup, Reap,
                Join, RaisesCaptureFailed, Returns, threads
  <2> QED
    BY <1>3, <2>1 DEF Spawn, SpawnFails, OpenRaises, WaitReturns, WaitRaises, KillProcessGroup,
                      Reap, Join, RaisesCaptureFailed, Returns
<1>4. CASE OpenTranscripts
  BY <1>4 DEF OpenTranscripts
<1>5. CASE InterruptsJoin \/ CloseSinks
  <2>1. pc' \in {"checking", "session_error", "interrupted"}
    BY <1>5 DEF InterruptsJoin, CloseSinks, Types
  <2>2. /\ pc \in {"join_stdout", "join_stderr", "closing"} /\ ~sinks_open'
        /\ UNCHANGED <<pump, raw_lines, transcript>>
    BY <1>5 DEF InterruptsJoin, CloseSinks, threads
  <2> QED
    BY <2>1, <2>2
<1>6. \/ UNCHANGED <<pc, pump, raw_lines, transcript, sinks_open>>
      \/ \E s \in Streams : \/ ReadLine(s) \/ LooksAtSink(s) \/ WritesSink(s) \/ WriteRaises(s)
                            \/ Collects(s) \/ EndOfFile(s)
      \/ Spawn \/ SpawnFails \/ OpenRaises \/ WaitReturns \/ WaitRaises \/ KillProcessGroup
      \/ Reap \/ Join \/ RaisesCaptureFailed \/ Returns \/ OpenTranscripts
      \/ InterruptsJoin \/ CloseSinks
  BY DEF SessionStep, GroupStep, PumpStep, CallerStep, WritesStdout, WritesStderr, StartsHelper,
         Exits, threads
<1> QED
  BY <1>1, <1>2, <1>3, <1>4, <1>5, <1>6

LEMMA AliveStep ==
  ASSUME Types, FlowInv, TranscriptInv, AliveInv, SessionStep PROVE AliveInv'
<1> USE DEF Streams, Behind, AliveInv
<1>0. Len(raw_lines) \in Nat /\ transcript \in Nat
  BY DEF Types
<1>1. CASE UNCHANGED <<pc, unwinding, alive, unread, pump, raw_lines, transcript, pump_errors, drained>>
  BY <1>1
<1>2. CASE WritesStdout \/ WritesStderr \/ StartsHelper \/ \E p \in Group : Exits(p)
  <2>1. UNCHANGED <<pc, unwinding, pump, raw_lines, transcript, pump_errors, drained>>
    BY <1>2 DEF WritesStdout, WritesStderr, StartsHelper, Exits, threads
  <2>2. alive # {}
    BY <1>2 DEF WritesStdout, WritesStderr, StartsHelper, Exits
  <2>3. pc # "start" /\ (pump["stdout"] = "ended" => "stdout" \in pump_errors)
    BY <2>2
  <2>4. "engine" \notin alive => "engine" \notin alive'
    BY <1>2 DEF WritesStdout, WritesStderr, StartsHelper, Exits, process
  <2>5. unwinding # "no" => pc = "killing"
    BY <2>2
  <2> QED
    BY <2>1, <2>3, <2>4, <2>5
<1>3. ASSUME NEW s \in Streams,
             \/ ReadLine(s) \/ LooksAtSink(s) \/ WritesSink(s) \/ WriteRaises(s) \/ Collects(s)
             \/ EndOfFile(s)
      PROVE  AliveInv'
  <2>1. UNCHANGED <<pc, unwinding, alive, drained>> /\ pump[s] # "ended"
    BY <1>3 DEF ReadLine, LooksAtSink, WritesSink, WriteRaises, Collects, EndOfFile, process
  <2>2. CASE s = "stderr"
    <3>1. /\ UNCHANGED <<raw_lines, transcript>>
          /\ pump'["stdout"] = pump["stdout"] /\ unread'["stdout"] = unread["stdout"]
          /\ "stdout" \in pump_errors' <=> "stdout" \in pump_errors
      BY <1>3, <2>2 DEF ReadLine, LooksAtSink, WritesSink, WriteRaises, Collects, Collected,
                        EndOfFile, Types
    <3> QED
      BY <2>1, <3>1
  <2>3. CASE s = "stdout"
    <3>1. ~drained
      BY <2>1, <2>3
    <3>2. pump'["stdout"] = "ended" /\ "stdout" \notin pump_errors' => alive = {} /\ unread'["stdout"] = 0
      BY <1>3, <2>3 DEF ReadLine, LooksAtSink, WritesSink, WriteRaises, Collects, EndOfFile, Types
    <3> QED
      BY <2>1, <3>1, <3>2
  <2> QED
    BY <2>2, <2>3
<1>4. CASE Spawn
  BY <1>4 DEF Spawn, threads, TranscriptInv
<1>5. CASE SpawnFails \/ OpenRaises \/ WaitReturns \/ WaitRaises \/ Reap \/ Join
           \/ InterruptsJoin \/ RaisesCaptureFailed \/ Returns
  <2>1. UNCHANGED <<alive, unread, pump, raw_lines, transcript, pump_errors, drained>>
    BY <1>5 DEF SpawnFails, OpenRaises, WaitReturns, WaitRaises, Reap, Join, InterruptsJoin,
                RaisesCaptureFailed, Returns, process, threads
  <2> QED
    BY <1>5, <2>1 DEF SpawnFails, OpenRaises, WaitReturns, WaitRaises, Reap, Join,
                      InterruptsJoin, RaisesCaptureFailed, Returns
<1>6. CASE OpenTranscripts
  BY <1>6 DEF OpenTranscripts, process, TranscriptInv
<1>7. CASE KillProcessGroup
  <2>1. alive' = {}
    BY <1>7 DEF KillProcessGroup, Killed, Types
  <2> QED
    BY <1>7, <2>1 DEF KillProcessGroup, threads
<1>8. CASE CloseSinks
  <2>1. pump["stdout"] = "ended" => transcript = Len(raw_lines)
    BY <1>0, <1>8 DEF CloseSinks, TranscriptInv
  <2>2. drained' => pump["stdout"] = "ended"
    BY <1>8 DEF CloseSinks
  <2>3. /\ pc = "closing"
        /\ \/ unwinding = "no" /\ pc' = "checking"
           \/ unwinding # "no" /\ pc' \in {"session_error", "interrupted"}
    BY <1>8 DEF CloseSinks, Types
  <2>4. UNCHANGED <<unwinding, alive, unread, pump, raw_lines, transcript, pump_errors>>
    BY <1>8 DEF CloseSinks, process, threads
  <2> QED
    BY <2>1, <2>2, <2>3, <2>4
<1> QED
  BY <1>1, <1>2, <1>3, <1>4, <1>5, <1>6, <1>7, <1>8
     DEF SessionStep, GroupStep, PumpStep, CallerStep

\* After it has returned, the caller does nothing.
LEMMA ReturnedIs ==
  ASSUME Types, SessionStep
  PROVE  pc' = "returned" => \/ Returns
                             \/ pc = "returned" /\ result' = result /\ drained' = drained
                                /\ (GroupStep \/ PumpStep)
<1>1. GroupStep \/ PumpStep => UNCHANGED <<pc, result, drained>>
  BY DEF GroupStep, PumpStep, WritesStdout, WritesStderr, StartsHelper, Exits, ReadLine,
         LooksAtSink, WritesSink, WriteRaises, Collects, EndOfFile
<1>2. CallerStep /\ ~Returns => pc' # "returned"
  BY DEF CallerStep, Spawn, SpawnFails, OpenTranscripts, OpenRaises, WaitReturns, WaitRaises,
         KillProcessGroup, Reap, Join, InterruptsJoin, CloseSinks, RaisesCaptureFailed, Types
<1> QED
  BY <1>1, <1>2 DEF SessionStep

\* Whoever still runs then does not undo what the result was made from.
LEMMA ResultStep ==
  ASSUME Types, FlowInv, AliveInv, ResultInv, SessionStep PROVE ResultInv'
<1>0. Len(raw_lines) \in Nat /\ Len(written) \in Nat /\ Len(raw_lines) <= Len(written)
  BY DEF Types, FlowInv, InFlight, Streams
<1>1. CASE Returns
  <2> DEFINE parsed == Parse(engine, raw_lines, out_file)
  <2>1. result' = SessionResult(parsed) /\ pump_errors = {}
    BY <1>1 DEF Returns, CaptureFailed
  <2>2. UNCHANGED <<engine, returncode, written, raw_lines, pump_errors>>
    BY <1>1 DEF Returns, process, threads
  <2>3. /\ SessionResult(parsed).upto = Len(raw_lines)
        /\ EmitsTerminalResult(engine) /\ SessionResult(parsed).ok
             /\ SessionResult(parsed).explicit_result =>
               returncode = 0 /\ \E k \in 1..Len(raw_lines) : raw_lines[k].type = "success"
    BY ResultIs
  <2> HIDE DEF parsed
  <2>4. (\E k \in 1..Len(raw_lines) : raw_lines[k].type = "success") => EndedWell(Len(raw_lines))
    BY DEF EndedWell, FlowInv
  <2> QED
    BY <1>0, <2>1, <2>2, <2>3, <2>4 DEF ResultInv, EndedWell
<1>2. CASE pc = "returned" /\ result' = result /\ drained' = drained /\ (GroupStep \/ PumpStep)
  <2>1. result.upto \in Nat /\ result.upto <= Len(raw_lines)
    BY <1>2 DEF ResultInv, Types, Results
  <2>2. engine' = engine /\ \A k \in 1..Len(written) : written'[k] = written[k]
    <3>1. CASE WritesStdout
      BY <3>1, WritesIs
    <3>2. CASE UNCHANGED <<engine, written>>
      BY <3>2
    <3> QED
      BY <3>1, <3>2, OnlyTheEngineWrites
  <2>3. EndedWell(result.upto) => EndedWell(result.upto)'
    BY <1>0, <1>2, <2>1, <2>2 DEF EndedWell
  <2>4. returncode' = returncode
    <3>1. "engine" \notin alive
      BY <1>2 DEF AliveInv
    <3> QED
      BY <1>2, <3>1 DEF GroupStep, PumpStep, WritesStdout, WritesStderr, StartsHelper, Exits,
         ReadLine, LooksAtSink, WritesSink, WriteRaises, Collects, EndOfFile, process
  <2> DEFINE KeptOnStdout == Len(raw_lines') = Len(raw_lines)
                             /\ ("stdout" \notin pump_errors => "stdout" \notin pump_errors')
  <2>5. Len(raw_lines) <= Len(raw_lines') /\ (drained => KeptOnStdout)
    <3>1. ASSUME NEW s \in Streams, Collects(s)
          PROVE  Len(raw_lines) <= Len(raw_lines') /\ (drained => KeptOnStdout)
      <4>1. raw_lines' = Collected(s) /\ pump[s] = "collecting" /\ pump_errors' = pump_errors
        BY <3>1 DEF Collects
      <4>2. CASE s = "stderr"
        BY <1>0, <4>1, <4>2 DEF Collected
      <4>3. CASE s = "stdout"
        <5>1. Len(raw_lines') = Len(raw_lines) + 1
          BY <4>1, <4>3 DEF Collected, Types
        <5>2. ~drained
          BY <4>1, <4>3 DEF AliveInv
        <5> QED
          BY <1>0, <4>1, <5>1, <5>2
      <4> QED
        BY <4>2, <4>3 DEF Streams
    <3>2. ASSUME NEW s \in Streams, WriteRaises(s)
          PROVE  Len(raw_lines) <= Len(raw_lines') /\ (drained => KeptOnStdout)
      <4>1. raw_lines' = raw_lines /\ pump[s] = "writing" /\ pump_errors' = pump_errors \cup {s}
        BY <3>2 DEF WriteRaises
      <4>2. drained => s # "stdout"
        BY <4>1 DEF AliveInv
      <4> QED
        BY <1>0, <4>1, <4>2
    <3>3. \/ UNCHANGED <<raw_lines, pump_errors>>
          \/ \E s \in Streams : Collects(s) \/ WriteRaises(s)
      BY <1>2 DEF GroupStep, PumpStep, WritesStdout, WritesStderr, StartsHelper, Exits, ReadLine,
                  LooksAtSink, WritesSink, EndOfFile, threads
    <3> QED
      BY <1>0, <3>1, <3>2, <3>3
  <2>6. Len(raw_lines') \in Nat
    BY TypesStep DEF Types
  <2> QED
    BY <1>0, <1>2, <2>1, <2>2, <2>3, <2>4, <2>5, <2>6 DEF ResultInv
<1>3. CASE pc' # "returned" /\ ~Returns
  <2>1. result' = result
    BY <1>3 DEF SessionStep, GroupStep, PumpStep, CallerStep, WritesStdout, WritesStderr,
       StartsHelper, Exits, ReadLine, LooksAtSink, WritesSink, WriteRaises, Collects, EndOfFile,
       Spawn, SpawnFails, OpenTranscripts, OpenRaises, WaitReturns, WaitRaises, KillProcessGroup,
       Reap, Join, InterruptsJoin, CloseSinks, RaisesCaptureFailed
  <2>2. raw_lines' = raw_lines \/ Len(raw_lines') = Len(raw_lines) + 1
    <3>1. \/ raw_lines' = raw_lines
          \/ \E s \in Streams : raw_lines' = Collected(s) /\ pump[s] = "collecting"
      BY DEF SessionStep, GroupStep, PumpStep, CallerStep, WritesStdout, WritesStderr,
         StartsHelper, Exits, ReadLine, LooksAtSink, WritesSink, WriteRaises, Collects, EndOfFile,
         Spawn, SpawnFails, OpenTranscripts, OpenRaises, WaitReturns, WaitRaises,
         KillProcessGroup, Reap, Join, InterruptsJoin, CloseSinks, RaisesCaptureFailed, Returns,
         threads
    <3> QED
      BY <3>1 DEF Collected, Types
  <2>3. result.upto \in Nat
    BY DEF Types, Results
  <2> QED
    BY <1>0, <1>3, <2>1, <2>2, <2>3 DEF ResultInv
<1> QED
  BY <1>1, <1>2, <1>3, ReturnedIs

\* The last verdict of a stream that was read to its end is the one the parser took.
LEMMA SpokeIs ==
  ASSUME written \in Seq(Lines)
  PROVE  Spoke <=> \E i \in 1..Len(written) : written[i].type = "assistant"
  BY EventsAre DEF Spoke

LEMMA LastVerdictIs ==
  ASSUME NEW k \in 1..Len(written), written[k].says = "APPROVE",
         Spoke => written[k].type # "raw",
         \A j \in 1..Len(written) :
           written[j].says \in Verdicts /\ (Spoke => written[j].type # "raw") => j <= k
  PROVE  LastApproves
  BY DEF LastApproves, Bearing, Verdicts

LEMMA ApprovalIs ==
  ASSUME Types, StreamInv, OutFileInv, FlowInv,
         Parse(engine, raw_lines, out_file).final_message = "APPROVE",
         \A i \in (Len(raw_lines) + 1)..Len(written) : written[i].type = "other"
  PROVE  LastApproves
<1>1. /\ engine \in {"claude", "codex", "gemini"} /\ raw_lines \in Seq(Lines)
      /\ Len(raw_lines) \in Nat /\ Len(written) \in Nat /\ Len(raw_lines) <= Len(written)
      /\ \A i \in 1..Len(raw_lines) : raw_lines[i] = written[i]
      /\ \A i \in 1..Len(written) : written[i] \in Lines
  BY DEF Types, FlowInv, InFlight, Streams
\* A line with a verdict was read, and is what the engine said, ended with or printed.
<1>2. ASSUME NEW j \in 1..Len(written), written[j].says \in Verdicts
      PROVE  /\ j \in 1..Len(raw_lines) /\ raw_lines[j] = written[j]
             /\ written[j].type \in {"assistant", "raw"} \/ Terminal(written[j])
             /\ engine # "claude" => written[j].type \in {"assistant", "raw"}
             /\ engine # "gemini" => written[j].type # "raw"
  <2>1. written[j].type # "other" /\ written[j].says # "absent"
    BY <1>2 DEF StreamInv, Verdicts
  <2>2. j \in 1..Len(raw_lines)
    BY <1>1, <2>1
  <2>3. written[j].type \in {"assistant", "raw"} \/ Terminal(written[j])
    BY <1>1, <2>1, LineIs
  <2> QED
    BY <1>1, <2>1, <2>2, <2>3 DEF StreamInv
\* The last of the assistant's lines decides, where the end of the stream says nothing.
<1>3. ASSUME engine # "gemini", LastWord(raw_lines, {"assistant"}) = "APPROVE",
             \A j \in 1..Len(raw_lines) : Terminal(raw_lines[j]) => raw_lines[j].says = "absent"
      PROVE  LastApproves
  <2>1. PICK k \in 1..Len(raw_lines) :
          /\ raw_lines[k].type = "assistant" /\ raw_lines[k].says = "APPROVE"
          /\ \A j \in 1..Len(raw_lines) :
               raw_lines[j].type = "assistant" /\ raw_lines[j].says # "absent" => j <= k
    BY <1>1, <1>3, LastWordIs
  <2>2. \A j \in 1..Len(written) : written[j].says \in Verdicts => j <= k
    BY <1>2, <1>3, <2>1 DEF Verdicts
  <2> QED
    BY <1>1, <2>1, <2>2, LastVerdictIs
<1>4. CASE engine = "claude"
  <2>1. \/ LastWord(raw_lines, TerminalTypes) = "APPROVE"
        \/ /\ LastWord(raw_lines, TerminalTypes) = "absent"
           /\ LastWord(raw_lines, {"assistant"}) = "APPROVE"
    BY <1>4 DEF Parse, ParseClaude, ClaudeMessage
  <2>2. CASE LastWord(raw_lines, TerminalTypes) = "APPROVE"
    <3>1. PICK k \in 1..Len(raw_lines) :
            raw_lines[k].type \in TerminalTypes /\ raw_lines[k].says = "APPROVE"
      BY <1>1, <2>2, LastWordIs
    <3>2. /\ k \in 1..Len(written) /\ Terminal(written[k]) /\ written[k].says = "APPROVE"
          /\ written[k].type # "raw"
      BY <1>1, <3>1 DEF Terminal, TerminalTypes
    <3>3. \A j \in 1..Len(written) : written[j].says \in Verdicts => j <= k
      BY <1>1, <3>2 DEF StreamInv, Verdicts
    <3> QED
      BY <3>2, <3>3, LastVerdictIs
  <2>3. CASE /\ LastWord(raw_lines, TerminalTypes) = "absent"
             /\ LastWord(raw_lines, {"assistant"}) = "APPROVE"
    <3>1. \A j \in 1..Len(raw_lines) : Terminal(raw_lines[j]) => raw_lines[j].says = "absent"
      BY <1>1, <2>3, LastWordIs DEF Terminal
    <3> QED
      BY <1>3, <1>4, <2>3, <3>1
  <2> QED
    BY <2>1, <2>2, <2>3
<1>5. CASE engine = "codex"
  <2>1. CASE out_file # "absent"
    <3>1. out_file = "APPROVE"
      BY <1>5, <2>1 DEF Parse, ParseCodex
    <3>2. PICK k \in 1..Len(written) :
            /\ written[k].type = "assistant" /\ written[k].says = "APPROVE"
            /\ \A j \in 1..Len(written) : written[j].type = "assistant" => j <= k
      BY <2>1, <3>1 DEF OutFileInv
    <3>3. \A j \in 1..Len(written) : written[j].says \in Verdicts => j <= k
      BY <1>2, <1>5, <3>2
    <3> QED
      BY <3>2, <3>3, LastVerdictIs
  <2>2. CASE out_file = "absent"
    <3>1. LastWord(raw_lines, {"assistant"}) = "APPROVE"
      BY <1>5, <2>2 DEF Parse, ParseCodex
    <3>2. \A j \in 1..Len(raw_lines) : Terminal(raw_lines[j]) => raw_lines[j].says = "absent"
      BY <1>1, <1>5 DEF StreamInv
    <3> QED
      BY <1>3, <1>5, <3>1, <3>2
  <2> QED
    BY <2>1, <2>2
<1>6. CASE engine = "gemini"
  <2>1. ParseGemini(raw_lines).final_message = "APPROVE"
    BY <1>6 DEF Parse
  <2>2. CASE \E k \in 1..Len(raw_lines) :
               /\ raw_lines[k].type = "assistant" /\ raw_lines[k].says = "APPROVE"
               /\ \A j \in 1..Len(raw_lines) :
                    raw_lines[j].type = "assistant" /\ raw_lines[j].says \in Verdicts => j <= k
    <3>1. PICK k \in 1..Len(raw_lines) :
            /\ raw_lines[k].type = "assistant" /\ raw_lines[k].says = "APPROVE"
            /\ \A j \in 1..Len(raw_lines) :
                 raw_lines[j].type = "assistant" /\ raw_lines[j].says \in Verdicts => j <= k
      BY <2>2
    <3>2. k \in 1..Len(written) /\ written[k] = raw_lines[k]
      BY <1>1
    <3>3. Spoke
      BY <3>1, <3>2, SpokeIs DEF Types
    <3>4. \A j \in 1..Len(written) :
            written[j].says \in Verdicts /\ written[j].type # "raw" => j <= k
      BY <1>2, <1>6, <3>1
    <3> QED
      BY <3>1, <3>2, <3>3, <3>4, LastVerdictIs
  <2>3. CASE /\ \A j \in 1..Len(raw_lines) : raw_lines[j].type # "assistant"
             /\ Len(raw_lines) > 0
             /\ raw_lines[Len(raw_lines)].type = "raw"
             /\ raw_lines[Len(raw_lines)].says = "APPROVE"
    <3> DEFINE k == Len(raw_lines)
    <3>1. k \in 1..Len(written) /\ written[k] = raw_lines[k]
      BY <1>1, <2>3
    <3>2. \A j \in 1..Len(written) : written[j].type # "assistant"
      BY <1>1, <2>3
    <3>3. ~Spoke
      BY <3>2, SpokeIs DEF Types
    <3>4. \A j \in 1..Len(written) : written[j].says \in Verdicts => j <= k
      BY <1>1, <1>2
    <3> QED
      BY <2>3, <3>1, <3>3, <3>4, LastVerdictIs
  <2> QED
    BY <1>1, <2>1, <2>2, <2>3, GeminiIs
<1> QED
  BY <1>1, <1>4, <1>5, <1>6

LEMMA VerdictStep ==
  ASSUME Types, StreamInv, OutFileInv, FlowInv, ResultInv, VerdictInv, SessionStep
  PROVE  VerdictInv'
<1>0. Len(raw_lines) \in Nat /\ Len(written) \in Nat /\ Len(raw_lines) <= Len(written)
  BY DEF Types, FlowInv, InFlight, Streams
<1>1. CASE Returns
  <2> DEFINE parsed == Parse(engine, raw_lines, out_file)
  <2>1. result' = SessionResult(parsed) /\ written' = written
    BY <1>1 DEF Returns, process
  <2>2. result'.final_message = parsed.final_message /\ result'.upto = Len(raw_lines)
    BY <2>1, ResultIs
  <2>3. VerdictInv' <=> (pc' = "returned" /\ parsed.final_message = "APPROVE"
                           /\ (\A i \in (Len(raw_lines) + 1)..Len(written) : written[i].type = "other")
                         => LastApproves)
    BY <2>1, <2>2 DEF VerdictInv, Complete, LastApproves, Bearing, Spoke
  <2> QED
    BY <2>3, ApprovalIs
<1>2. CASE pc = "returned" /\ result' = result /\ (GroupStep \/ PumpStep)
  <2>1. result.upto \in Nat /\ result.upto <= Len(written)
    BY <1>0, <1>2 DEF ResultInv, Types, Results
  <2>2. CASE WritesStdout
    <3>1. PICK line \in Lines :
            /\ Len(written') = Len(written) + 1
            /\ \A i \in 1..Len(written) : written'[i] = written[i]
            /\ written'[Len(written) + 1] = line
      BY <2>2, WritesIs
    <3>2. ASSUME Complete' PROVE Complete /\ line.says \notin Verdicts /\ line.type = "other"
      <4>1. \A i \in (result.upto + 1)..(Len(written) + 1) : written'[i].type = "other"
        BY <1>2, <3>1, <3>2 DEF Complete
      <4>2. line.type = "other"
        BY <1>0, <2>1, <3>1, <4>1
      <4>3. Complete
        BY <1>0, <2>1, <3>1, <4>1 DEF Complete
      <4> QED
        BY <4>2, <4>3, LineIs DEF Verdicts
    <3>3. ASSUME LastApproves, line.says \notin Verdicts, line.type = "other" PROVE LastApproves'
      <4>1. Spoke' <=> Spoke
        <5>1. written' \in Seq(Lines)
          BY <2>2, WritesIs, WrittenIs
        <5>2. Spoke' <=> \E i \in 1..Len(written') : written'[i].type = "assistant"
          BY <5>1, EventsAre DEF Spoke
        <5>3. Spoke <=> \E i \in 1..Len(written) : written[i].type = "assistant"
          BY SpokeIs DEF Types
        <5> QED
          BY <1>0, <3>1, <3>3, <5>2, <5>3
      <4>2. Bearing' = Bearing
        BY <1>0, <3>1, <3>3, <4>1 DEF Bearing
      <4> QED
        BY <3>1, <3>3, <4>1, <4>2 DEF LastApproves, Bearing
    <3> QED
      BY <1>2, <3>2, <3>3 DEF VerdictInv
  <2>3. CASE written' = written
    BY <1>2, <2>3 DEF VerdictInv, Complete, LastApproves, Bearing, Spoke
  <2> QED
    BY <2>2, <2>3, OnlyTheEngineWrites
<1>3. CASE pc' # "returned"
  BY <1>3 DEF VerdictInv
<1> QED
  BY <1>1, <1>2, <1>3, ReturnedIs

-----------------------------------------------------------------------------
(* The command.                                                             *)

LEMMA InvInit == ReviewInit => Inv
<1> SUFFICES ASSUME ReviewInit PROVE Inv
  OBVIOUS
<1> USE DEF ReviewInit, Init, Streams
<1>1. Types
  <2>1. written \in Seq(Lines) /\ Len(written) = 0 /\ raw_lines \in Seq(Lines)
    OBVIOUS
  <2>2. result \in Results
    BY DEF Texts, NoResult, Results
  <2>3. unread \in [Streams -> 0..PipeCap] /\ pump \in [Streams -> PumpPcs]
    BY DEF PumpPcs
  <2>4. /\ engine \in Engines /\ pc \in CallerPcs /\ unwinding \in {"no", "timeout", "interrupt"}
        /\ alive \subseteq started /\ started \subseteq Group /\ returncode \in {0, 1, -9}
    BY DEF CallerPcs
  <2>5. out_file \in Texts /\ transcript \in Nat /\ pump_errors \subseteq Streams
    BY DEF Texts
  <2>6. Len(written) <= MaxLines
    BY <2>1
  <2>7. sinks_open \in BOOLEAN /\ drained \in BOOLEAN
    OBVIOUS
  <2> HIDE DEF ReviewInit, Init
  <2> QED
    BY <2>1, <2>2, <2>3, <2>4, <2>5, <2>6, <2>7 DEF Types
<1>2. StreamInv /\ OutFileInv /\ VerdictInv
  BY DEF StreamInv, OutFileInv, VerdictInv
<1>3. FlowInv /\ TranscriptInv /\ AliveInv
  BY DEF FlowInv, InFlight, TranscriptInv, Behind, AliveInv
<1>4. ResultInv
  BY DEF ResultInv, NoResult
<1>5. CommandInv
  BY DEF CommandInv
<1> QED
  BY <1>1, <1>2, <1>3, <1>4, <1>5 DEF Inv

LEMMA InvStep == Inv /\ [ReviewNext]_reviewVars => Inv'
<1> SUFFICES ASSUME Inv, [ReviewNext]_reviewVars PROVE Inv'
  OBVIOUS
<1> USE DEF Inv
<1>1. CASE UNCHANGED vars
  <2>1. (Types /\ StreamInv /\ OutFileInv /\ FlowInv)'
    BY <1>1 DEF vars, process, threads, Types, StreamInv, Terminal, OutFileInv, FlowInv, InFlight
  <2>2. (TranscriptInv /\ AliveInv /\ ResultInv /\ VerdictInv)'
    BY <1>1 DEF vars, process, threads, TranscriptInv, Behind, AliveInv, ResultInv, EndedWell,
                VerdictInv, Complete, LastApproves, Bearing, Spoke
  <2>3. ASSUME UNCHANGED command PROVE CommandInv'
    BY <1>1, <2>3 DEF CommandInv, vars
  <2>4. ASSUME get_diff PROVE CommandInv'
    BY <2>4 DEF get_diff, CommandInv, ExitCodes
  <2>5. ASSUME SessionRaises PROVE CommandInv'
    BY <2>5 DEF SessionRaises, CommandInv, ExitCodes
  <2>6. ASSUME Judges PROVE CommandInv'
    <3>1. Verdict = "APPROVE" => result.final_message = "APPROVE"
      BY DEF Verdict, ParseVerdict, Verdicts
    <3>2. /\ pc = "returned" /\ command' \in ExitCodes
          /\ command' = "exit_0" => Verdict = "APPROVE"
      BY <2>6 DEF Judges, ExitCodes
    <3> QED
      BY <1>1, <3>1, <3>2 DEF CommandInv, vars
  <2>7. CommandInv'
    <3>1. CASE SessionGoesOn \/ Exited \/ UNCHANGED reviewVars
      BY <2>3, <3>1 DEF SessionGoesOn, Exited, reviewVars
    <3> QED
      BY <2>4, <2>5, <2>6, <3>1 DEF ReviewNext, ReviewStep
  <2> QED
    BY <2>1, <2>2, <2>7
<1>2. CASE SessionGoesOn
  <2>1. SessionStep /\ command = "session" /\ command' = "session"
    BY <1>2 DEF SessionGoesOn
  <2>2. Types' /\ StreamInv' /\ OutFileInv' /\ FlowInv'
    BY <2>1, TypesStep, StreamStep, OutFileStep, FlowStep
  <2>3. TranscriptInv' /\ AliveInv' /\ ResultInv' /\ VerdictInv'
    BY <2>1, TranscriptStep, AliveStep, ResultStep, VerdictStep
  <2>4. CommandInv'
    BY <2>1 DEF CommandInv
  <2> QED
    BY <2>2, <2>3, <2>4
<1> QED
  BY <1>1, <1>2 DEF ReviewNext, ReviewStep, get_diff, SessionRaises, Judges, Exited, reviewVars

LEMMA Invariance == ReviewSpec => []Inv
<1>1. ReviewInit => Inv
  BY InvInit
<1>2. Inv /\ [ReviewNext]_reviewVars => Inv'
  BY InvStep
<1> QED
  BY <1>1, <1>2, PTL DEF ReviewSpec

-----------------------------------------------------------------------------
(* The theorems.                                                            *)

\* The state of a session has its types, and what was read of its stream is the beginning
\* of what was written, whoever is killed or given up on (base.py run, _drain).
THEOREM TypeCorrect == ReviewSpec => []TypeOK
<1>1. Inv => TypeOK
  <2> SUFFICES ASSUME Inv PROVE TypeOK
    OBVIOUS
  <2>1. Types /\ FlowInv /\ TranscriptInv /\ ResultInv
    BY DEF Inv
  <2>2. Len(raw_lines) \in Nat /\ Len(written) \in Nat /\ unread["stdout"] \in Nat
    BY <2>1 DEF Types, Streams
  <2>3. IsPrefix(raw_lines, written)
    <3>1. Len(raw_lines) <= Len(written) /\ \A i \in 1..Len(raw_lines) : raw_lines[i] = written[i]
      BY <2>1, <2>2 DEF FlowInv, InFlight
    <3>2. SubSeq(written, 1, Len(raw_lines)) = raw_lines
      BY <2>1, <2>2, <3>1 DEF Types
    <3> QED
      BY <2>1, <2>2, <3>1, <3>2 DEF IsPrefix, Types
  <2>4. transcript \in 0..Len(written)
    BY <2>1, <2>2 DEF TranscriptInv, Behind, FlowInv, InFlight, Types
  <2>5. result.upto \in 0..Len(written) /\ result.final_message \in Texts
    BY <2>1, <2>2 DEF ResultInv, FlowInv, InFlight, Types, Results
  <2> QED
    BY <2>1, <2>3, <2>4, <2>5 DEF TypeOK, Types, CallerPcs, PumpPcs, Ended
<1> QED
  BY <1>1, Invariance, PTL

\* A session that ends by its timeout or by a Ctrl-C during the wait leaves no process of
\* its group, whatever the engine does in the meantime (_kill_process_group).
THEOREM GroupIsGone == ReviewSpec => []NoneLeftBehind
<1>1. Inv => NoneLeftBehind
  BY DEF Inv, AliveInv, NoneLeftBehind
<1> QED
  BY <1>1, Invariance, PTL

\* An ok and explicit result of an engine that announces its end is of the whole session,
\* and a drained stream is in the transcript and the result to its last line (run()).
THEOREM GoodIsWhole == ReviewSpec => []GoodRunIsGood
<1>1. Inv => GoodRunIsGood
  <2> SUFFICES ASSUME Inv, pc = "returned" PROVE GoodRunIsGood
    BY DEF GoodRunIsGood
  <2>1. Types /\ StreamInv /\ FlowInv /\ AliveInv /\ ResultInv
    BY DEF Inv
  <2>2. /\ Len(raw_lines) \in Nat /\ Len(written) \in Nat /\ Len(raw_lines) <= Len(written)
        /\ result.upto \in Nat /\ result.upto <= Len(raw_lines)
    BY <2>1 DEF Types, Results, Streams, FlowInv, InFlight, ResultInv
  <2>3. ASSUME EmitsTerminalResult(engine), result.ok, result.explicit_result
        PROVE  /\ returncode = 0 /\ Complete
               /\ \A i \in 1..Len(written) : written[i].type # "failure"
    <3>1. returncode = 0 /\ EndedWell(result.upto)
      BY <2>1, <2>3 DEF ResultInv
    <3>2. PICK k \in 1..result.upto : written[k].type = "success"
      BY <3>1 DEF EndedWell
    <3>3. k \in 1..Len(written) /\ Terminal(written[k])
      BY <2>2, <3>2 DEF Terminal, TerminalTypes
    <3>4. \A i \in 1..Len(written) : k < i => written[i].type = "other"
      BY <2>1, <3>3 DEF StreamInv
    <3>5. Complete
      BY <2>2, <3>2, <3>4 DEF Complete
    <3>6. ASSUME NEW i \in 1..Len(written), written[i].type = "failure" PROVE FALSE
      <4>1. Terminal(written[i])
        BY <3>6 DEF Terminal, TerminalTypes
      <4>2. i < k => written[k].type = "other"
        BY <2>1, <3>3, <4>1 DEF StreamInv
      <4> QED
        BY <2>2, <3>2, <3>3, <3>4, <3>6, <4>2
    <3> QED
      BY <3>1, <3>5, <3>6
  <2>4. drained => transcript = Len(written) /\ result.upto = Len(written)
    BY <2>1, <2>2 DEF AliveInv, ResultInv, FlowInv, InFlight, Types, Streams
  <2> QED
    BY <2>3, <2>4 DEF GoodRunIsGood
<1> QED
  BY <1>1, Invariance, PTL

\* `rails review' exits 0 only after a session that returned, and, where that was read to
\* its end, only when the last verdict in it is an approval (parse_verdict, cli.py:160).
THEOREM ApprovalIsMeant == ReviewSpec => []ApprovalIsTheLastWord
<1>1. Inv => ApprovalIsTheLastWord
  BY DEF Inv, CommandInv, VerdictInv, LastApproves, Bearing, Spoke,
         ApprovalIsTheLastWord
<1> QED
  BY <1>1, Invariance, PTL

=============================================================================
