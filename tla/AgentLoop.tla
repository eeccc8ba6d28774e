----------------------------- MODULE AgentLoop -----------------------------
(***************************************************************************)
(* One conversation of the agent runner (agent/runner.py) with a language    *)
(* model behind a provider's client (agent/providers.py), and the dispatch   *)
(* of the tools it asks for (agent/tools.py).                                *)
(*                                                                         *)
(* The model is the environment: it may ask for any tools, search the web,   *)
(* stop for its tools or for another reason, and the call to it may raise.   *)
(* What it writes and the count of its searches are left out.  A tool may    *)
(* fail before or after it has had its effect.                               *)
(***************************************************************************)
EXTENDS Naturals, Sequences, SequencesExt

CONSTANTS
  MaxIterations,   \* config.max_tool_iterations
  MaxBlocks        \* bound: blocks of one reply

ASSUME MaxIterationsAssumption == MaxIterations \in Nat \ {0}

VARIABLES
  provider,   \* "claude", or "compatible" with OpenAI's chat completions
  talk,       \* run_for_instrument: its place and its locals
  acted       \* history: a proposal of this conversation reached the executor

loopVars == <<provider, talk, acted>>

-----------------------------------------------------------------------------
(* Messages *)

\* Blocks of a reply: a proposal; any other client tool, which reads, or a name
\* the toolkit does not have; and the server's web search, which only Claude has.
ClientTools == {"other", "submit_trade_proposal"}
Blocks == {"web_search"} \cup ClientTools

\* A call's id is the turn and the place of its block; tool_use_blocks are the
\* reply's calls.
CallsOf(turn, blocks) ==
  LET call(n) == [id |-> <<turn, n>>, name |-> blocks[n]]
  IN FlattenSeq([n \in DOMAIN blocks |->
                   IF blocks[n] \in ClientTools THEN <<call(n)>> ELSE <<>>])
Ids(calls) == [n \in DOMAIN calls |-> calls[n].id]

Task == [role |-> "user", calls |-> <<>>, results |-> <<>>]
Assistant(calls) == [role |-> "assistant", calls |-> calls, results |-> <<>>]
Results(calls) == [role |-> "user", calls |-> <<>>, results |-> calls]

\* _to_openai_messages: the assistant's calls stay together, and every result
\* becomes a message of its own.
ToOpenAI(messages) ==
  LET convert(m) ==
        IF m.results = <<>> THEN <<m>>
        ELSE [n \in DOMAIN m.results |->
                [role |-> "tool", calls |-> <<>>, results |-> <<m.results[n]>>]]
  IN FlattenSeq([n \in DOMAIN messages |-> convert(messages[n])])

\* What a provider accepts: each call answered, once and in order, directly
\* after the message that made it.
AnsweredInOne(messages) ==
  \A n \in DOMAIN messages : messages[n].calls # <<>> =>
    n < Len(messages) /\ messages[n + 1].results = messages[n].calls
AnsweredOneByOne(messages) ==
  \A n \in DOMAIN messages : \A k \in DOMAIN messages[n].calls :
    n + k <= Len(messages) /\ messages[n + k].results = <<messages[n].calls[k]>>

-----------------------------------------------------------------------------
(* Replies *)

\* stop_reason is passed on as the provider names it.
ToolStop == IF provider = "claude" THEN "tool_use" ELSE "tool_calls"
OtherStop == "end"   \* end_turn, max_tokens, pause_turn; stop, length

\* create_message: a reply with tool calls stops for them or is cut short, one
\* without does not stop for them; only Claude is given the web search.
Replies ==
  {reply \in [blocks : SeqOf(Blocks, MaxBlocks), stop : {ToolStop, OtherStop}] :
     /\ provider = "compatible" => "web_search" \notin ToSet(reply.blocks)
     /\ ToSet(reply.blocks) \cap ClientTools = {} => reply.stop # ToolStop}

-----------------------------------------------------------------------------
(* run_for_instrument *)

Stages == {"idle", "ask", "dispatch", "answer", "finished", "failed"}
NoTalk == [stage |-> "idle", iteration |-> 0, messages |-> <<>>, pending |-> <<>>,
           results |-> <<>>, stop |-> "none", called |-> <<>>, proposed |-> FALSE]

LoopTypeOK ==
  /\ provider \in {"claude", "compatible"}
  /\ talk.stage \in Stages
  /\ talk.iteration \in 0..MaxIterations
  /\ talk.called \in Seq(ClientTools)
  /\ Len(talk.called) <= MaxIterations * MaxBlocks
  /\ talk.proposed \in BOOLEAN /\ acted \in BOOLEAN

LoopInit ==
  /\ provider \in {"claude", "compatible"}
  /\ talk = NoTalk
  /\ acted = FALSE

BeginTalk ==
  /\ talk' = [NoTalk EXCEPT !.stage = "ask", !.messages = <<Task>>]
  /\ acted' = FALSE
  /\ UNCHANGED provider

\* client.create_message returns: the reply joins the conversation, and a
\* reply without client tools ends it.
Reply ==
  /\ talk.stage = "ask"
  /\ \E reply \in Replies :
       LET calls == CallsOf(talk.iteration + 1, reply.blocks)
       IN talk' = [talk EXCEPT
            !.stage = IF calls = <<>> THEN "finished" ELSE "dispatch",
            !.iteration = @ + 1,
            !.messages = Append(@, Assistant(Ids(calls))),
            !.pending = calls, !.results = <<>>, !.stop = reply.stop]
  /\ UNCHANGED <<provider, acted>>

\* create_message raises: the request, or the arguments of a call that do not
\* parse.
ReplyFails ==
  /\ talk.stage = "ask"
  /\ talk' = [talk EXCEPT !.stage = "failed"]
  /\ UNCHANGED <<provider, acted>>

\* _dispatch_tool, by what the tool did: it returned, or raised before or after
\* its effect, which becomes an error for the model to read.  Only a proposal
\* has an effect, and an unknown tool none.
ToolOutcomes(name) ==
  IF name = "submit_trade_proposal" THEN {"returned", "raised before", "raised after"}
  ELSE {"returned"}

TookEffect(name, outcome) == name = "submit_trade_proposal" /\ outcome # "raised before"

\* Broken variant: only a proposal whose tool returned counts.
Proposed_IfReturned(name, outcome) == name = "submit_trade_proposal" /\ outcome = "returned"

\* proposal_submitted is set before the dispatch.
Proposed(name, outcome) == name = "submit_trade_proposal"

\* Broken variant: a tool that failed gives no result.
ResultOf_Successful(call, outcome) == IF outcome = "returned" THEN <<call.id>> ELSE <<>>

\* tool_results.append: every call has its result, an error too.
ResultOf(call, outcome) == <<call.id>>

Dispatch ==
  /\ talk.stage = "dispatch"
  /\ LET call == Head(talk.pending)
     IN \E outcome \in ToolOutcomes(call.name) :
          /\ talk' = [talk EXCEPT
               !.stage = IF Len(talk.pending) = 1 THEN "answer" ELSE "dispatch",
               !.pending = Tail(@),
               !.called = Append(@, call.name),
               !.proposed = @ \/ Proposed(call.name, outcome),
               !.results = @ \o ResultOf(call, outcome)]
          /\ acted' = (acted \/ TookEffect(call.name, outcome))
  /\ UNCHANGED provider

\* dict(block.input) or json.dumps(result) raises, before the tool or after it.
DispatchFails ==
  /\ talk.stage = "dispatch"
  /\ talk' = [talk EXCEPT !.stage = "failed"]
  /\ acted' \in {acted, acted \/ TookEffect(Head(talk.pending).name, "returned")}
  /\ UNCHANGED provider

\* The results are appended; the loop goes on only after "tool_use", and only
\* for max_tool_iterations replies.
Answer ==
  /\ talk.stage = "answer"
  /\ talk' = [talk EXCEPT
       !.stage = IF talk.stop # "tool_use" \/ talk.iteration = MaxIterations
                 THEN "finished" ELSE "ask",
       !.messages = Append(@, Results(talk.results))]
  /\ UNCHANGED <<provider, acted>>

LoopStep == Reply \/ ReplyFails \/ Dispatch \/ DispatchFails \/ Answer

-----------------------------------------------------------------------------
(* Properties *)

\* Every request is one the provider accepts, in its own form: a tool that
\* failed, or that does not exist, is answered like the others.
CallsAreAnswered ==
  talk.stage = "ask" =>
    AnsweredInOne(talk.messages) /\ AnsweredOneByOne(ToOpenAI(talk.messages))

\* README.md: AgentRunner is a "provider-neutral tool-use loop".  A model that
\* stopped for its tools is sent their results, unless the replies are used up.
ToolAnswersAreSent ==
  talk.stage = "finished" /\ talk.stop = ToolStop => talk.iteration = MaxIterations
=============================================================================
