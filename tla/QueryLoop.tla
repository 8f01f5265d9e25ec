----------------------------- MODULE QueryLoop -----------------------------
(***************************************************************************)
(* The query loop of a session (core/query/loop.py): it sends the          *)
(* conversation to the model, commits the response, asks for permission,   *)
(* runs the tool calls, and goes on until a response calls none.  Streams  *)
(* fail and are replayed; the loop is cancelled at any await; the session  *)
(* is resumed from what was recorded.                                      *)
(*                                                                         *)
(* A message is its kind, the tool calls it makes or answers, and its      *)
(* uuid.  Tool call ids are numbers, given in order by the provider, who   *)
(* may also repeat the id of a call the request holds.  Text, thinking,    *)
(* usage and token counts are left out: whether a request is too large is  *)
(* a choice, and so is the verdict on a call (schema, plan mode, exposure, *)
(* rules, reviewer).                                                       *)
(***************************************************************************)
EXTENDS Integers, Sequences, FiniteSets, SequencesExt

CONSTANTS
  Calls,          \* tool call ids
  Safe,           \* those of tools that are concurrency safe
  Hooks,          \* tool hooks are configured, and print for every call
  MaxTurns,       \* QueryParams.max_turns
  MaxRetries,     \* max_retries of a stream
  MaxContinues,   \* auto_continue_max_attempts
  MaxItems,       \* bound: texts and calls in a response
  MaxQueries,     \* bound: prompts
  MaxRequests,    \* bound: requests sent
  MaxEvents       \* bound: stops, compactions, replays, guidance that arrives, answers nobody waits for

ASSUME BoundsAssumption ==
  /\ Calls \subseteq Nat \ {0} /\ Safe \subseteq Calls /\ Hooks \in BOOLEAN
  /\ MaxTurns \in Nat \ {0} /\ MaxRetries \in Nat /\ MaxContinues \in Nat
  /\ {MaxItems, MaxQueries, MaxRequests, MaxEvents} \subseteq Nat

VARIABLES
  messages,  \* params.messages, the live projection; while streaming, the request
  stored,    \* what a restart loads, in the order it was appended
  uuid,      \* messages made so far
  itemAware, \* the adapter emits response_item_done
  content,   \* assistant_content: Text and tool calls, in order
  done,      \* completed_content_count
  text,      \* current_text is not empty
  pc,        \* where the loop is suspended; "idle" between queries
  retrying,  \* pending_stream_retry
  retries,   \* stream_retry_state.retries
  failures,  \* history: requests that failed since a response was completed
  counts,    \* turn_count, _auto_continue_attempts and _context_retries
  at,        \* the tool call the loop decides about
  approved,  \* approved_blocks
  stage,     \* each approved call in _run_tools
  executed,  \* history: times a call's tool was called
  cut,       \* history: calls repeated by a response that was cut off before they were answered again
  asked,     \* history: calls of this response permission was requested for
  answers,   \* permission_queue
  buffered,  \* buffered_permission_responses
  given,     \* history: the answers given for a call of this response
  guidance,  \* steering and peer messages that wait
  fresh,     \* the next tool call id of the provider
  used       \* bounded events so far

conversation == <<messages, stored, uuid>>
stream  == <<itemAware, content, done, text>>
control == <<pc, retrying, retries, failures, counts>>
tools   == <<at, approved, stage, executed, cut>>
prompts == <<asked, answers, buffered, given>>
world   == <<guidance, fresh, used>>
vars    == <<conversation, stream, control, tools, prompts, world>>

Text == 0
Nothing == [c \in Calls |-> "none"]
Nobody == [c \in Calls |-> {}]
NoCounts == [turns |-> 0, continues |-> 0, overflows |-> 0]

Message(kind, calls, n) == [kind |-> kind, calls |-> calls, n |-> n]
Result(c, n) == Message("result", <<c>>, n)

Init ==
  /\ messages = <<>> /\ stored = <<>> /\ uuid = 0
  /\ itemAware \in BOOLEAN /\ content = <<>> /\ done = 0 /\ text = FALSE
  /\ pc = "idle" /\ retrying = FALSE /\ retries = 0 /\ failures = 0
  /\ counts = NoCounts
  /\ at = 1 /\ approved = <<>> /\ stage = Nothing
  /\ executed = [c \in Calls |-> 0] /\ cut = {}
  /\ asked = {} /\ answers = <<>> /\ buffered = {}
  /\ given = Nobody
  /\ guidance = {} /\ fresh = 1
  /\ used = [queries |-> 0, requests |-> 0, events |-> 0]

May(event, bound) == used[event] < bound
Uses(event) == used' = [used EXCEPT ![event] = @ + 1]
-----------------------------------------------------------------------------
(* The conversation. *)

CallsIn(ms) == UNION {ToSet(ms[i].calls) : i \in {j \in DOMAIN ms : ms[j].kind = "assistant"}}
ResultsIn(ms) == UNION {ToSet(ms[i].calls) : i \in {j \in DOMAIN ms : ms[j].kind = "result"}}

\* Where the first result of a call is, and the first message that makes it.
FirstResult(ms, c) == SelectInSeq(ms, LAMBDA m : m.kind = "result" /\ m.calls = <<c>>)
FirstCaller(ms, c) == SelectInSeq(ms, LAMBDA m : m.kind = "assistant" /\ c \in ToSet(m.calls))

\* _append_missing_tool_results
Closed(ms, cs, n) ==
  LET missing == SelectSeq(cs, LAMBDA c : c \notin ResultsIn(ms))
      first == [k \in DOMAIN missing |-> missing[k] \in ToSet(SubSeq(missing, 1, k - 1))]
  IN ms \o FlattenSeq([k \in DOMAIN missing |-> IF first[k] THEN <<>> ELSE <<Result(missing[k], n + k)>>])

\* A call's first result stands behind its call; the repair moves it there.
Moved(ms, j) ==
  /\ ms[j].kind = "result"
  /\ LET c == ms[j].calls[1] IN j = FirstResult(ms, c) /\ FirstCaller(ms, c) \in 1 .. j - 1

\* What the repair puts behind message i for the k-th call it makes.
Behind(ms, i, k, n) ==
  LET c == ms[i].calls[k]
  IN IF FirstResult(ms, c) = 0 THEN <<Result(c, n)>>
     ELSE IF FirstCaller(ms, c) = i /\ FirstResult(ms, c) > i /\ c \notin ToSet(SubSeq(ms[i].calls, 1, k - 1))
          THEN <<ms[FirstResult(ms, c)]>> ELSE <<>>

\* Mutant: the missing results are appended, like those of a cancelled run.
RepairedAtEnd(ms, n) ==
  LET callers == SelectSeq(ms, LAMBDA m : m.kind = "assistant")
  IN Closed(ms, FlattenSeq([i \in DOMAIN callers |-> callers[i].calls]), n)

\* _repair_unpaired_tool_calls; the uuids of the results it makes are unique.
Repaired(ms, n) ==
  FlattenSeq([i \in DOMAIN ms |->
    IF Moved(ms, i) THEN <<>>
    ELSE IF ms[i].kind # "assistant" THEN <<ms[i]>>
    ELSE <<ms[i]>> \o FlattenSeq([k \in DOMAIN ms[i].calls |-> Behind(ms, i, k, n + MaxItems * i + k)])])

\* _commit_query_projection: append_message skips the uuids it has.
Committed(ms) ==
  stored \o SelectSeq(ms, LAMBDA m : \A i \in DOMAIN stored : stored[i].n # m.n)

\* conversation_turn_starts and _select_head_and_tail: at most two user turns are kept.
Starts(ms) == {i \in DOMAIN ms : ms[i].kind = "user"}
Tails(ms) ==
  {s \in Starts(ms) :
     /\ Cardinality({t \in Starts(ms) : t > s}) <= 1
     /\ \E i \in 1 .. s - 1 : ms[i].kind \notin {"summary", "note"}}

\* compact_conversation and _append_compact_resume_prompt
Compacted(ms, s, n) ==
  LET tail == SubSeq(ms, s, Len(ms))
  IN <<Message("summary", <<>>, n + 1)>> \o tail
     \o (IF Last(tail).kind = "note" THEN <<>> ELSE <<Message("note", <<>>, n + 2)>>)

\* _drain_steering_messages and drain_peer_messages: one user message for each.
Drained(ms, n) ==
  ms \o [k \in 1..Cardinality(guidance) |-> Message("user", <<>>, n + k)]
-----------------------------------------------------------------------------
(* A query begins and ends. *)

Unsent == /\ content' = <<>> /\ done' = 0 /\ text' = FALSE
Unhandled ==
  /\ at' = 1 /\ approved' = <<>> /\ stage' = Nothing
  /\ asked' = {} /\ given' = Nobody

\* CoreSession appends and records the prompt; query_loop repairs the history.
Prompt ==
  /\ pc = "idle" /\ May("queries", MaxQueries) /\ Uses("queries")
  /\ LET user == Message("user", <<>>, uuid + 1)
         ms == Append(messages, user)
     IN /\ messages' = Repaired(ms, uuid + 1)
        /\ stored' = Append(stored, user)
        /\ uuid' = uuid + 1 + MaxItems * (Len(ms) + 1)
  /\ pc' = "head"
  /\ UNCHANGED <<stream, retrying, retries, failures, counts, tools, prompts, guidance, fresh>>

\* The query is over: its projection is committed, its own state is gone.
Gone ==
  /\ pc' = "idle" /\ Unsent /\ Unhandled
  /\ retrying' = FALSE /\ retries' = 0 /\ failures' = 0 /\ counts' = NoCounts
  /\ buffered' = {}

Over(ms) ==
  /\ messages' = ms /\ stored' = Committed(ms)
  /\ Gone

\* The calls of the last response: tool_use_blocks.
ResponseCalls == messages[SelectLastInSeq(messages, LAMBDA m : m.kind = "assistant")].calls

\* The ids it repeats, of calls that have a result, that the loop has not come to.
Unanswered ==
  IF pc \in {"decide", "ask"}
  THEN (ToSet(SubSeq(ResponseCalls, at, Len(ResponseCalls))) \ ToSet(SubSeq(ResponseCalls, 1, at - 1)))
         \intersect ResultsIn(messages)
  ELSE {}

\* Cancellation at an await.  Waiting for an answer closes every call of the
\* response, running tools closes the approved ones, other awaits close none.
Interrupt ==
  /\ pc # "idle" /\ May("events", MaxEvents) /\ Uses("events")
  /\ LET open == CASE pc = "ask" -> ResponseCalls [] pc = "run" -> approved [] OTHER -> <<>>
     IN /\ Over(Closed(messages, open, uuid))
        /\ uuid' = uuid + Len(open)
  /\ cut' = cut \union Unanswered
  /\ UNCHANGED <<itemAware, executed, answers, guidance, fresh>>

\* The process ends; the session is resumed from what was recorded.
Restart ==
  /\ May("events", MaxEvents) /\ Uses("events")
  /\ messages' = stored /\ Gone
  /\ answers' = <<>> /\ guidance' = {}
  /\ UNCHANGED <<stored, uuid, itemAware, executed, cut, fresh>>
-----------------------------------------------------------------------------
(* The request. *)

\* The loop head: guidance is applied; a turn is counted.
LoopHead ==
  /\ pc = "head" /\ pc' = "preflight"
  /\ messages' = Drained(messages, uuid) /\ uuid' = uuid + Cardinality(guidance) /\ guidance' = {}
  /\ counts' = [counts EXCEPT !.turns = @ + 1]
  /\ retrying' = FALSE
  /\ UNCHANGED <<stored, stream, retries, failures, tools, prompts, fresh, used>>

\* The pause before a replay, and the reset of the client that may fail.
ResetFails ==
  /\ pc = "head" /\ retrying
  /\ Over(messages)
  /\ UNCHANGED <<uuid, itemAware, executed, cut, answers, world>>

\* _perform_compaction succeeds; the session records the projection.
Compacts(trigger) ==
  /\ May("events", MaxEvents) /\ Len(messages) >= 4
  /\ \E s \in Tails(messages) :
       /\ messages' = Compacted(messages, s, uuid)
       /\ stored' = messages'
  /\ uuid' = uuid + 2
  /\ Uses("events")

\* The preflight compacts the conversation.
Compact ==
  /\ pc = "preflight" /\ Compacts("auto")
  /\ UNCHANGED <<stream, control, tools, prompts, guidance, fresh>>

\* The request does not fit.
DoesNotFit ==
  /\ pc = "preflight"
  /\ Over(messages)
  /\ UNCHANGED <<uuid, itemAware, executed, cut, answers, world>>

Send ==
  /\ pc = "preflight" /\ pc' = "stream"
  /\ May("requests", MaxRequests) /\ Uses("requests")
  /\ UNCHANGED <<conversation, stream, retrying, retries, failures, counts, tools, prompts, guidance, fresh>>
-----------------------------------------------------------------------------
(* The response. *)

Receiving == pc = "stream" /\ Len(content) < MaxItems

TextChunk ==
  /\ Receiving /\ ~text /\ text' = TRUE
  /\ UNCHANGED <<conversation, itemAware, content, done, control, tools, prompts, world>>

Flushed == IF text THEN Append(content, Text) ELSE content

\* tool_use_end: without item events the call is complete, unless it is a replay.
CallChunk ==
  /\ Receiving
  /\ \E c \in {fresh} \union CallsIn(messages) \union (ToSet(content) \ {Text}) :
       /\ c \in Calls
       /\ fresh' = IF c = fresh THEN fresh + 1 ELSE fresh
       /\ content' = Append(Flushed, c)
       /\ done' = IF ~itemAware /\ c \notin ResultsIn(messages) THEN Len(content') ELSE done
  /\ text' = FALSE
  /\ UNCHANGED <<conversation, itemAware, control, tools, prompts, guidance, used>>

\* response_item_done
ItemDone ==
  /\ pc = "stream" /\ itemAware /\ done < Len(Flushed)
  /\ content' = Flushed /\ done' = Len(content') /\ text' = FALSE
  /\ UNCHANGED <<conversation, itemAware, control, tools, prompts, world>>

\* message_stop
MessageStop ==
  /\ pc = "stream" /\ pc' = "stopped"
  /\ content' = Flushed /\ done' = Len(content') /\ text' = FALSE
  /\ UNCHANGED <<conversation, itemAware, retrying, retries, failures, counts, tools, prompts, world>>

CallsOf(items) == SelectSeq(items, LAMBDA x : x # Text)

\* A response with output becomes a message.  Its calls are decided about; with
\* none, steering or a pending replay makes the loop go on.
Respond(items, retry) ==
  LET ms == Append(messages, Message("assistant", CallsOf(items), uuid + 1))
      steering == guidance \intersect {"steering"}
  IN /\ \/ /\ CallsOf(items) # <<>>
           /\ messages' = ms /\ uuid' = uuid + 1 /\ pc' = "decide"
           /\ UNCHANGED guidance
        \/ /\ CallsOf(items) = <<>> /\ (steering # {} \/ retry)
           /\ messages' = ms \o [k \in 1..Cardinality(steering) |-> Message("user", <<>>, uuid + 1 + k)]
           /\ uuid' = uuid + 1 + Cardinality(steering) /\ pc' = "head"
           /\ guidance' = guidance \ steering
     /\ Unsent
     /\ UNCHANGED <<stored, itemAware, tools, prompts, fresh>>

\* The stream is exhausted; the next one has a fresh budget.
Exhausted ==
  /\ pc \in {"stream", "stopped"} /\ Flushed # <<>>
  /\ retries' = 0 /\ failures' = 0
  /\ Respond(Flushed, FALSE)
  /\ UNCHANGED <<retrying, counts, used>>

\* A response that calls no tool ends the turn.
EndTurn ==
  /\ pc \in {"stream", "stopped"} /\ Flushed = <<Text>> /\ "steering" \notin guidance
  /\ Over(Append(messages, Message("assistant", <<>>, uuid + 1))) /\ uuid' = uuid + 1
  /\ UNCHANGED <<itemAware, executed, cut, answers, world>>

\* An empty response is asked for again, a number of times in a query.
Empty ==
  /\ pc \in {"stream", "stopped"} /\ Flushed = <<>> /\ counts.continues < MaxContinues
  /\ counts' = [counts EXCEPT !.continues = @ + 1, !.turns = @ - 1]
  /\ retries' = 0 /\ failures' = 0 /\ pc' = "head"
  /\ UNCHANGED <<conversation, stream, retrying, tools, prompts, world>>

EmptyAgain ==
  /\ pc \in {"stream", "stopped"} /\ Flushed = <<>> /\ counts.continues >= MaxContinues
  /\ Over(messages)
  /\ UNCHANGED <<uuid, itemAware, executed, cut, answers, world>>

\* Mutant: a replay that completed a part of the response has a fresh budget.
FailAfresh ==
  /\ pc \in {"stream", "stopped"} /\ retries < MaxRetries
  /\ May("events", MaxEvents) /\ Uses("events")
  /\ retries' = IF done > 0 THEN 0 ELSE retries + 1
  /\ failures' = failures + 1 /\ retrying' = TRUE
  /\ counts' = [counts EXCEPT !.turns = @ - 1]
  /\ \/ done > 0 /\ Respond(SubSeq(content, 1, done), TRUE)
     \/ /\ done = 0 /\ pc' = "head" /\ Unsent
        /\ UNCHANGED <<conversation, itemAware, tools, prompts, guidance, fresh>>

\* A timeout, an error event or an exception that may be retried: what was
\* completed is kept and handled as a response, the rest is discarded.
Fail ==
  /\ pc \in {"stream", "stopped"} /\ retries < MaxRetries
  /\ May("events", MaxEvents) /\ Uses("events")
  /\ retries' = retries + 1 /\ failures' = failures + 1 /\ retrying' = TRUE
  /\ counts' = [counts EXCEPT !.turns = @ - 1]
  /\ \/ done > 0 /\ Respond(SubSeq(content, 1, done), TRUE)
     \/ /\ done = 0 /\ pc' = "head" /\ Unsent
        /\ UNCHANGED <<conversation, itemAware, tools, prompts, guidance, fresh>>

\* The error is not recoverable, or the budget is used up.
FailForGood ==
  /\ pc \in {"stream", "stopped"}
  /\ Over(messages)
  /\ UNCHANGED <<uuid, itemAware, executed, cut, answers, world>>

\* The provider refuses the size of the request before any output.
Overflow ==
  /\ pc = "stream" /\ content = <<>> /\ ~text
  /\ counts.overflows = 0
  /\ Compacts("overflow")
  /\ counts' = [counts EXCEPT !.overflows = 1, !.turns = @ - 1]
  /\ retries' \in {0, retries}   \* an error event resets the budget, an exception does not
  /\ pc' = "head"
  /\ UNCHANGED <<stream, retrying, failures, tools, prompts, guidance, fresh>>
-----------------------------------------------------------------------------
(* The tool calls of the response, one after the other. *)

Deciding == pc = "decide"
Current == ResponseCalls[at]

\* On to the next call; when all are decided, the approved ones run.
Decided == at' = at + 1 /\ pc' = IF at < Len(ResponseCalls) THEN "decide" ELSE "run"
Waiting == UNCHANGED <<retrying, retries, failures, counts>>

\* The id was seen in this response: the loop suppresses it.
Duplicate ==
  /\ Deciding /\ Current \in ToSet(SubSeq(ResponseCalls, 1, at - 1))
  /\ Decided /\ Waiting
  /\ UNCHANGED <<conversation, stream, approved, stage, executed, cut, prompts, world>>

New == Deciding /\ Current \notin ToSet(SubSeq(ResponseCalls, 1, at - 1))

\* _completed_tool_result finds the call's result: a copy answers the replay.
Replay ==
  /\ New /\ Current \in ResultsIn(messages)
  /\ messages' = Append(messages, Result(Current, uuid + 1)) /\ uuid' = uuid + 1
  /\ Decided /\ Waiting
  /\ UNCHANGED <<stored, stream, approved, stage, executed, cut, prompts, world>>

\* Mutant: a replayed id is not looked up in the conversation.
UndecidedAgain == New

Undecided == New /\ Current \notin ResultsIn(messages)

Deny ==
  /\ messages' = Append(messages, Result(Current, uuid + 1)) /\ uuid' = uuid + 1
  /\ Decided
  /\ UNCHANGED <<stored, approved>>

Approve ==
  /\ approved' = Append(approved, Current) /\ Decided
  /\ UNCHANGED conversation

\* Invalid input, plan mode, a tool that is not exposed, a rule or the reviewer.
Refuse ==
  /\ Undecided /\ Deny /\ Waiting
  /\ UNCHANGED <<stream, stage, executed, cut, prompts, world>>

\* A rule, the mode or the reviewer allows it.
Allow ==
  /\ Undecided /\ Approve /\ Waiting
  /\ UNCHANGED <<stream, stage, executed, cut, prompts, world>>

\* PermissionRequestEvent: an answer may be there already.
AskUser ==
  /\ Undecided
  /\ asked' = asked \union {Current}
  /\ LET early == {b \in buffered : b.call = Current}
     IN \/ /\ early = {} /\ pc' = "ask"
           /\ UNCHANGED <<conversation, at, approved, buffered>>
        \/ /\ \E b \in early : IF b.allowed THEN Approve ELSE Deny
           /\ buffered' = buffered \ early
  /\ Waiting
  /\ UNCHANGED <<stream, stage, executed, cut, answers, given, world>>

\* permission_queue.get(): the answer counts, waits for its call, or is too old.
Hear ==
  /\ pc = "ask" /\ answers # <<>>
  /\ answers' = Tail(answers)
  /\ LET answer == Head(answers)
         others == {b \in buffered : b.call # answer.call}
     IN \/ /\ answer.call = Current
           /\ IF answer.allowed THEN Approve ELSE Deny
           /\ UNCHANGED buffered
        \/ /\ answer.call # Current
           /\ buffered' = IF answer.call \in ToSet(ResponseCalls) THEN others \union {answer} ELSE buffered
           /\ UNCHANGED <<conversation, at, approved, pc>>
  /\ Waiting
  /\ UNCHANGED <<stream, stage, executed, cut, asked, given, world>>

-----------------------------------------------------------------------------
(* _run_tools: the safe calls together, then the others one by one. *)

Running == {c \in ToSet(approved) : stage[c] # "reported"}
RunSafe == Running \intersect Safe

\* The call whose turn it is: any safe one, then the first of the others.
Turn(c) ==
  /\ pc = "run" /\ c \in Running
  /\ RunSafe = {} => c = SelectSeq(approved, LAMBDA b : b \in Running)[1]
  /\ RunSafe # {} => c \in Safe

\* A call's messages: what its hooks printed, and its result.
Report(c, n) ==
  IF Hooks THEN <<Message("note", <<>>, n), Result(c, n + 1)>> ELSE <<Result(c, n)>>

\* A result of an unsafe call is appended at once, those of safe calls together.
Ends(c) ==
  IF c \in Safe
  THEN stage' = [stage EXCEPT ![c] = "ended"] /\ UNCHANGED conversation
  ELSE /\ stage' = [stage EXCEPT ![c] = "reported"]
       /\ messages' = messages \o Report(c, uuid + 1)
       /\ uuid' = uuid + 2
       /\ UNCHANGED stored

\* Validation and the hook let the tool be called, which may have its effect.
CallTool(c) ==
  /\ Turn(c) /\ stage[c] = "none"
  /\ stage' = [stage EXCEPT ![c] = "called"]
  /\ executed' = [executed EXCEPT ![c] = @ + 1]
  /\ UNCHANGED <<conversation, stream, control, at, approved, cut, prompts, world>>

\* Validation, the hook, or what changed since the decision stops the call.
StopTool(c) ==
  /\ Turn(c) /\ stage[c] = "none" /\ Ends(c)
  /\ UNCHANGED <<stream, control, at, approved, executed, cut, prompts, world>>

\* The tool returns, raises or times out.
ToolReturns(c) ==
  /\ Turn(c) /\ stage[c] = "called" /\ Ends(c)
  /\ UNCHANGED <<stream, control, at, approved, executed, cut, prompts, world>>

\* gather() returns when the last safe call has ended.
SafeReported ==
  /\ pc = "run" /\ RunSafe # {} /\ \A c \in RunSafe : stage[c] = "ended"
  /\ LET safe == SelectSeq(approved, LAMBDA c : c \in Safe)
     IN messages' = messages \o FlattenSeq([k \in DOMAIN safe |-> Report(safe[k], uuid + 2 * k)])
  /\ uuid' = uuid + 2 * Len(approved) + 1
  /\ stage' = [c \in Calls |-> IF c \in RunSafe THEN "reported" ELSE stage[c]]
  /\ UNCHANGED <<stored, stream, control, at, approved, executed, cut, prompts, world>>

\* The tools have run: the loop goes on, unless a tool switched the mode or the
\* turns are used up.
RunEnds ==
  /\ pc = "run" /\ Running = {}
  /\ \/ /\ counts.turns < MaxTurns /\ pc' = "head" /\ Unhandled
        /\ UNCHANGED <<messages, stored, content, done, text, retrying, retries, failures, counts, buffered>>
     \/ /\ counts.turns >= MaxTurns \/ approved # <<>>
        /\ Over(messages)
  /\ UNCHANGED <<uuid, itemAware, executed, cut, answers, world>>
-----------------------------------------------------------------------------
(* Around the loop. *)

\* Steering and peer messages arrive before the loop looks for them: at its head,
\* and for steering when a response ends.
Arrive ==
  /\ pc \in {"head", "stream"} /\ May("events", MaxEvents) /\ Uses("events")
  /\ \E kind \in IF pc = "head" THEN {"steering", "peer"} ELSE {"steering"} :
       kind \notin guidance /\ guidance' = guidance \union {kind}
  /\ UNCHANGED <<conversation, stream, control, tools, prompts, fresh>>

Answer(c) ==
  \E allowed \in BOOLEAN :
    /\ allowed \notin given[c]
    /\ given' = [given EXCEPT ![c] = @ \union {allowed}]
    /\ answers' = Append(answers, [call |-> c, allowed |-> allowed])

\* The user answers the prompt that waits.
AnswerPrompt ==
  /\ pc = "ask" /\ given[Current] = {} /\ Answer(Current)
  /\ UNCHANGED <<conversation, stream, control, tools, asked, buffered, world>>

\* The user answers another call that is shown, or answers again.  The loop reads
\* the queue only while it asks, so that answers that come before come here.
AnswerOther ==
  /\ pc = "ask" /\ May("events", MaxEvents) /\ Uses("events")
  /\ \E c \in CallsIn(messages) : Answer(c)
  /\ UNCHANGED <<conversation, stream, control, tools, asked, buffered, guidance, fresh>>

Loop ==
  \/ LoopHead \/ ResetFails \/ Compact \/ DoesNotFit \/ Send
  \/ TextChunk \/ CallChunk \/ ItemDone \/ MessageStop
  \/ Exhausted \/ EndTurn \/ Empty \/ EmptyAgain \/ Fail \/ FailForGood \/ Overflow
  \/ Duplicate \/ Replay \/ Refuse \/ Allow \/ AskUser \/ Hear
  \/ \E c \in Calls : CallTool(c) \/ StopTool(c) \/ ToolReturns(c)
  \/ SafeReported \/ RunEnds

Next == Loop \/ Prompt \/ Interrupt \/ Restart \/ Arrive \/ AnswerPrompt \/ AnswerOther

Spec == Init /\ [][Next]_vars

\* The loop goes on when it can: a stream ends or times out, a tool returns, a
\* user who is asked answers.
Fairness == WF_vars(Loop \/ AnswerPrompt)

FairSpec == Spec /\ Fairness
-----------------------------------------------------------------------------
(* Properties. *)

TypeOK ==
  /\ pc \in {"idle", "head", "preflight", "stream", "stopped", "decide", "ask", "run"}
  /\ done \in 0..Len(content) /\ at \in Nat /\ fresh \in Nat
  /\ executed \in [Calls -> Nat] /\ asked \subseteq Calls
  /\ stage \in [Calls -> {"none", "called", "ended", "reported"}]

\* Between messages i and j, and at j, the conversation holds results and
\* messages of the kinds given.
Adjacent(i, j, kinds) ==
  i < j /\ \A k \in i + 1 .. j : messages[k].kind \in {"result"} \union kinds

Makes(i, c) == messages[i].kind = "assistant" /\ c \in ToSet(messages[i].calls)
Answers(j, c) == messages[j].kind = "result" /\ messages[j].calls = <<c>>

Paired(kinds) ==
  /\ \A i \in DOMAIN messages, c \in Calls \ cut :
       Makes(i, c) /\ (\A k \in 1 .. i - 1 : ~Makes(k, c))
         => \E j \in DOMAIN messages : Answers(j, c) /\ Adjacent(i, j, kinds)
  /\ \A j \in DOMAIN messages, c \in Calls :
       Answers(j, c) => \E i \in DOMAIN messages : Makes(i, c) /\ Adjacent(i, j, kinds)

\* In every request that is sent, each call is answered before the next message
\* of the user or the model, but for what hooks print, and each result answers
\* a call: after cancellations, replays, compactions and restarts.  A response that
\* repeats a call and is cut off before it is answered again is an exception: a
\* compaction may keep the repetition and drop the result.
RequestsPaired == pc \in {"stream", "stopped"} => Paired({"note"})

\* A provider requires every tool call to have its result before another user
\* message (loop.py:76).
ResultsComeFirst == pc = "stream" => Paired({})

\* No tool is called twice for a call id, through replayed requests, replayed
\* and duplicate ids, cancellations and restarts, and one the user was asked about
\* runs only if an answer to it allowed it: answers that are early, late, repeated
\* or for other calls do not.  A call in `cut' may have lost its result.
CallsRunOnceWithLeave ==
  /\ \A c \in Calls \ cut : executed[c] <= 1
  /\ \A c \in asked \ cut : stage[c] = "called" => TRUE \in given[c]

\* A query ends: replays stay within the budget of a response, though each may
\* complete a part of one, and no answer is lost while the loop waits for it.
QueriesEnd ==
  /\ [](failures <= (1 + counts.overflows) * MaxRetries)
  /\ []<>(pc = "idle")
=============================================================================
