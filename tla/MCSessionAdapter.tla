--------------------------- MODULE MCSessionAdapter ---------------------------
(***************************************************************************)
(* A review by each engine, with two lines on stdout.                      *)
(***************************************************************************)
EXTENDS ReviewCommand

AllEngines == {"claude", "codex", "gemini"}

\* A reviewer that gives a verdict whenever it says anything, and may give two.
VerdictsOnly == {"absent"} \cup Verdicts

\* The parsers again, line by line as the adapters' loops run, to compare them with.
ClaudeLoop(lines) ==
  LET Read(p, line) ==
        IF line.type = "assistant"
        THEN [p EXCEPT !.text = line.says]
        ELSE IF Terminal(line)
        THEN [p EXCEPT !.saw = TRUE, !.is_error = (line.type = "failure"),
                       !.result = IF line.says # "absent" THEN line.says ELSE @]
        ELSE p
      p == FoldLeft(Read, [text |-> "absent", result |-> "absent",
                           saw |-> FALSE, is_error |-> FALSE], lines)
  IN  [final_message |-> IF p.result # "absent" THEN p.result ELSE p.text,
       result_ok |-> ~(p.saw /\ p.is_error), saw_result |-> p.saw]

CodexLoop(lines, file) ==
  LET Read(p, line) ==
        IF line.type = "assistant"
        THEN [p EXCEPT !.text = line.says]
        ELSE IF Terminal(line)
        THEN [p EXCEPT !.saw = TRUE, !.ok = (line.type = "success")]
        ELSE p
      p == FoldLeft(Read, [text |-> "absent", saw |-> FALSE, ok |-> TRUE], lines)
  IN  [final_message |-> IF file # "absent" THEN file ELSE p.text,
       result_ok |-> p.ok, saw_result |-> p.saw]

GeminiLoop(lines) ==
  LET Appended(text, line) ==
        IF line.type # "assistant" THEN text
        ELSE IF line.says \in Verdicts \/ text = "absent" THEN line.says
        ELSE text
      assistant_text == FoldLeft(Appended, "absent", lines)
      Kept(raw, line) == IF line.type = "raw" THEN line.says ELSE "no_verdict"
      last_nonempty_raw == FoldLeft(Kept, "absent", lines)
  IN  [final_message |-> IF assistant_text # "absent" THEN assistant_text ELSE last_nonempty_raw,
       result_ok |-> TRUE, saw_result |-> FALSE]

ASSUME ParsersAreTheLoops ==
  \A lines \in UNION {[1..n -> Lines] : n \in 0..3} :
    /\ ParseClaude(lines) = ClaudeLoop(lines)
    /\ \A file \in Texts : ParseCodex(lines, file) = CodexLoop(lines, file)
    /\ ParseGemini(lines) = GeminiLoop(lines)

=============================================================================
