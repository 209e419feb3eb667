------------------------------ MODULE Transcripts ------------------------------
(***************************************************************************)
(* What the adapters read out of an engine's transcript: the parsers of    *)
(* rails/adapters/{claude,codex,gemini}.py by what their loops over the    *)
(* lines come to, and parse_verdict of rails/agents/loop.py.               *)
(*                                                                         *)
(* A line is reduced to what the parsers tell apart.  A text is reduced to *)
(* what parse_verdict reads in it: its last verdict, or none.              *)
(***************************************************************************)
EXTENDS Naturals, SequencesExt

Verdicts == {"APPROVE", "REQUEST_CHANGES"}

\* "absent": no text at all, or an empty one where the parser skips those; an empty
\* `result' of claude is a text without a verdict.
Texts == {"absent", "no_verdict"} \cup Verdicts

\* assistant: the engine speaks; success, failure: the event that ends the stream; raw: a
\* line of gemini that is no JSON, taken for its text when there is none; other: any other
\* event, whose text has no verdict, and a line no parser takes anything from.
Lines ==
  [type : {"assistant"}, says : Texts \ {"absent"}] \cup
  [type : {"success", "failure"}, says : Texts] \cup
  [type : {"raw"}, says : Texts \ {"absent"}] \cup
  [type : {"other"}, says : {"absent"}]

TerminalTypes == {"success", "failure"}
Terminal(line) == line.type \in TerminalTypes

\* The lines of some types by their places, and the last of several places.
Events(lines, types) == {i \in DOMAIN lines : lines[i].type \in types}
Latest(places) == CHOOSE i \in places : \A j \in places : j <= i

\* What a parser is left with that keeps the last text it meets.
LastWord(lines, types) ==
  LET spoken == {i \in Events(lines, types) : lines[i].says # "absent"}
  IN  IF spoken = {} THEN "absent" ELSE lines[Latest(spoken)].says

SawResult(lines) == Events(lines, TerminalTypes) # {}

ReportsFailure(lines) ==
  SawResult(lines) /\ lines[Latest(Events(lines, TerminalTypes))].type = "failure"

\* ParsedTranscript without cost_usd, which no decision reads.
Parsed == [final_message : Texts, result_ok : BOOLEAN, saw_result : BOOLEAN]

\* Mutant: what the assistant said last wins over the result.
ClaudeMessage_AssistantFirst(result, text) == IF text # "absent" THEN text ELSE result

ClaudeMessage(result, text) == IF result # "absent" THEN result ELSE text

ParseClaude(lines) ==
  [final_message |-> ClaudeMessage(LastWord(lines, TerminalTypes), LastWord(lines, {"assistant"})),
   result_ok |-> ~ReportsFailure(lines), saw_result |-> SawResult(lines)]

\* out_file: what codex wrote to its -o file, "absent" if it wrote none.
ParseCodex(lines, out_file) ==
  [final_message |-> IF out_file # "absent" THEN out_file ELSE LastWord(lines, {"assistant"}),
   result_ok |-> ~ReportsFailure(lines), saw_result |-> SawResult(lines)]

\* The last line as it stands: the text of a raw one, JSON without a verdict otherwise.
LastNonemptyRaw(lines) ==
  IF lines = <<>> THEN "absent"
  ELSE IF Last(lines).type = "raw" THEN Last(lines).says ELSE "no_verdict"

\* The fragments are appended to each other: the last verdict of the whole is that of the
\* last fragment that has one.  Without fragments it is the last line, of any kind.
ParseGemini(lines) ==
  LET fragments == Events(lines, {"assistant"})
      verdicts == {i \in fragments : lines[i].says \in Verdicts}
  IN  [final_message |-> IF verdicts # {} THEN lines[Latest(verdicts)].says
                         ELSE IF fragments # {} THEN "no_verdict" ELSE LastNonemptyRaw(lines),
       result_ok |-> TRUE, saw_result |-> FALSE]

EmitsTerminalResult(engine) == engine # "gemini"

Parse(engine, lines, out_file) ==
  CASE engine = "claude" -> ParseClaude(lines)
    [] engine = "codex"  -> ParseCodex(lines, out_file)
    [] engine = "gemini" -> ParseGemini(lines)

ParseVerdict(text) == IF text \in Verdicts THEN text ELSE "REQUEST_CHANGES"

=============================================================================
