---------------------------- MODULE AgentReview ----------------------------
(***************************************************************************)
(* The daily review (scripts/run_daily_agent_review.py): one conversation    *)
(* (AgentLoop) after another over the watchlist, or the deterministic        *)
(* algorithm on each of its instruments; an instrument that fails gets an    *)
(* error entry and the review goes on; the report is written at the end.     *)
(***************************************************************************)
EXTENDS AgentLoop

CONSTANT Watchlist   \* the number of instruments on the command line

ASSUME WatchlistAssumption == Watchlist \in Nat \ {0}

VARIABLES
  mode,      \* --mode: "ai" or "algo"
  stage,     \* the script: "start", "review", "close", "write", "done", "refused"
  report,    \* the entries so far, one per instrument
  hidden,    \* history: entries whose conversation had a proposal take effect
  toolkit    \* the AgentToolkit: "none", "open", "closed"

reviewVars == <<provider, talk, acted, mode, stage, report, hidden, toolkit>>

Entry(error, proposed, called) == [error |-> error, proposed |-> proposed, called |-> called]

ReviewTypeOK ==
  /\ LoopTypeOK
  /\ mode \in {"ai", "algo"}
  /\ stage \in {"start", "review", "close", "write", "done", "refused"}
  /\ Len(report) <= Watchlist
  /\ hidden \subseteq DOMAIN report
  /\ toolkit \in {"none", "open", "closed"}

ReviewInit ==
  /\ LoopInit
  /\ mode \in {"ai", "algo"}
  /\ stage = "start" /\ report = <<>> /\ hidden = {} /\ toolkit = "none"

\* The algorithm needs no client and no toolkit.
OpenToolkit ==
  /\ stage = "start"
  /\ stage' = "review"
  /\ toolkit' = IF mode = "ai" THEN "open" ELSE toolkit
  /\ UNCHANGED <<loopVars, mode, report, hidden>>

\* create_model_client raises ValueError without a key, before there is a
\* toolkit, and main returns 2.  (A local server needs no key; either way the
\* client may exist.)
Refuse ==
  /\ stage = "start" /\ mode = "ai"
  /\ stage' = "refused"
  /\ UNCHANGED <<loopVars, mode, report, hidden, toolkit>>

Reviewing == stage = "review" /\ Len(report) < Watchlist

\* run_for_instrument of the next instrument.
BeginInstrument ==
  /\ Reviewing /\ mode = "ai" /\ talk.stage = "idle"
  /\ BeginTalk
  /\ UNCHANGED <<mode, stage, report, hidden, toolkit>>

Converse ==
  /\ stage = "review"
  /\ LoopStep
  /\ UNCHANGED <<mode, stage, report, hidden, toolkit>>

\* Broken variant: an instrument that failed is tried again.
Reported_Retrying ==
  IF talk.stage = "failed" THEN report ELSE Append(report, Entry(FALSE, talk.proposed, talk.called))

\* The result's lines, or the error's: an error entry tells neither the tools
\* nor the proposal of its conversation.
Reported ==
  Append(report, IF talk.stage = "failed" THEN Entry(TRUE, FALSE, <<>>)
                 ELSE Entry(FALSE, talk.proposed, talk.called))

EndInstrument ==
  /\ talk.stage \in {"finished", "failed"}
  /\ report' = Reported
  /\ hidden' = IF acted THEN hidden \cup {Len(report')} ELSE hidden
  /\ talk' = NoTalk /\ acted' = FALSE
  /\ UNCHANGED <<provider, mode, stage, toolkit>>

\* _run_algo: the replay's report, or what it raised.
RunAlgo ==
  /\ Reviewing /\ mode = "algo"
  /\ \E error \in BOOLEAN : report' = Append(report, Entry(error, FALSE, <<>>))
  /\ UNCHANGED <<loopVars, mode, stage, hidden, toolkit>>

\* The finally clause of _run_ai.
Close ==
  /\ stage = "review" /\ Len(report) = Watchlist
  /\ stage' = "write"
  /\ toolkit' = IF mode = "ai" THEN "closed" ELSE toolkit
  /\ UNCHANGED <<loopVars, mode, report, hidden>>

\* The dated report and latest.md; the return code is 1 if an entry is an error.
Write ==
  /\ stage = "write"
  /\ stage' = "done"
  /\ UNCHANGED <<loopVars, mode, report, hidden, toolkit>>

ReviewStep ==
  \/ OpenToolkit \/ Refuse \/ BeginInstrument \/ Converse
  \/ EndInstrument \/ RunAlgo \/ Close \/ Write

Done == stage \in {"done", "refused"} /\ UNCHANGED reviewVars
ReviewNext == ReviewStep \/ Done

\* One thread whose calls return: the libraries of both providers end a request
\* after their default timeout.
ReviewSpec == ReviewInit /\ [][ReviewNext]_reviewVars /\ WF_reviewVars(ReviewStep)

-----------------------------------------------------------------------------
(* Properties *)

\* The report tells which conversations traded: one whose proposal reached the
\* executor is reported as submitted, also when the tool raised after it, or is
\* an error entry; and the tools it names were all called, the proposal among
\* them.
TradesAreReported ==
  \A n \in DOMAIN report :
    /\ n \in hidden => report[n].proposed \/ report[n].error
    /\ report[n].proposed <=> "submit_trade_proposal" \in ToSet(report[n].called)

\* Every review ends, with one entry for each instrument, whatever the model
\* asks for and whatever raises.
ReviewEnds == <>(stage = "refused" \/ (stage = "done" /\ Len(report) = Watchlist /\ toolkit # "open"))
=============================================================================
