----------------------------- MODULE ReviewCommand -----------------------------
(***************************************************************************)
(* `rails review' (rails/cli.py, rails/agents/review.py): fetch a diff,    *)
(* have one read-only session judge it, post the judgement if asked to,    *)
(* and exit 0 on an approval, "usable as a gate".                          *)
(***************************************************************************)
EXTENDS SessionAdapter

VARIABLE command        \* what it does next, or its exit code

ExitCodes == {"exit_0", "exit_1"}

ReviewInit == Init /\ command = "get_diff"

\* gh pr diff or git diff; a failure is raised.
get_diff ==
  /\ command = "get_diff" /\ command' \in {"session", "exit_1"}
  /\ UNCHANGED vars

SessionGoesOn == command = "session" /\ SessionStep /\ UNCHANGED command

SessionRaises ==
  /\ command = "session" /\ pc \in Ended \ {"returned"} /\ command' = "exit_1"
  /\ UNCHANGED vars

\* Mutant: the session's success stands in for its verdict.
Verdict_SessionOk == IF result.ok THEN "APPROVE" ELSE "REQUEST_CHANGES"

Verdict == ParseVerdict(result.final_message)

\* gh_comment, when there is one to post, may raise after the verdict is known.
Judges ==
  /\ command = "session" /\ pc = "returned"
  /\ command' \in {IF Verdict = "APPROVE" THEN "exit_0" ELSE "exit_1", "exit_1"}
  /\ UNCHANGED vars

ReviewStep == get_diff \/ SessionRaises \/ Judges

Exited == command \in ExitCodes /\ UNCHANGED <<vars, command>>

ReviewNext == ReviewStep \/ SessionGoesOn \/ Exited

reviewVars == <<vars, command>>

\* In a session only the caller is sure to go on, as its waits have timeouts: an engine,
\* its helper and a pump thread may stop for ever.  That git and gh answer is assumed.
ReviewSpec ==
  /\ ReviewInit /\ [][ReviewNext]_reviewVars
  /\ WF_reviewVars(ReviewStep)
  /\ WF_reviewVars(command = "session" /\ CallerStep /\ UNCHANGED command)

-----------------------------------------------------------------------------

\* A review whose session was read to its end approves only if the last verdict the
\* reviewer wrote is an approval, whichever of the engine's channels the message is taken
\* from, where a plain line counts for the reviewer's word only if it wrote nothing else
\* (gemini.py:92); and `rails review' exits 0 on nothing else, be it a failed fetch, a session
\* that was killed, or one that ended well and said nothing (parse_verdict, cli.py:160).
ApprovalIsTheLastWord ==
  LET spoke == Events(written, {"assistant"}) # {}
      bearing == {i \in 1..Len(written) : /\ written[i].says \in Verdicts
                                          /\ spoke => written[i].type # "raw"}
  IN  command = "exit_0" =>
        /\ pc = "returned"
        /\ Complete => \E i \in bearing : /\ \A j \in bearing : j <= i
                                          /\ written[i].says = "APPROVE"

\* `rails review' answers, whatever the engine, its helper and the pump threads do or
\* fail to do: so run() comes back.
ReviewAnswers == <>(command \in ExitCodes)

=============================================================================
