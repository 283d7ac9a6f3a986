# TLA+ verification of the voice assessment agent

The system is a phone interviewer: a FastAPI control plane over PostgreSQL, a
grading worker, and a Pipecat voice agent that talks to the candidate and calls
the control plane over HTTP. All shared state is in the database. Every process
may stop and restart; calls, agents, workers, manual graders, ingestions and
evaluations run at the same time. This directory models the parts that keep
state, checks the models with TLC, and proves theorems about every one of
them with TLAPS, in eight proof modules.

    tlc -workers 2 -config GradingQueue.cfg MCGradingWorker.tla   # one run
    tlapm GradingWorkerProofs.tla                                  # proofs

`PROJECT.json` lists every run with its module, and maps each definition to the
source lines it models.

## 1. Inventory

| Component (under `app/`) | State | Operations | What is hard | What makes it correct |
|---|---|---|---|---|
| Assessment submission (`services/assessment_service.py`, `api/assessment.py`) | `assessment_session`, `assessment_answer`, `grading_job` | `start_session`, `grade_answer`, `_pending`, `by_call` | the agent retries a POST whose response is late; a repeated request must be told from a new one; positions come from counting rows | one utterance, one answer; each answer at the question it answered |
| Grading worker (`worker/grading_worker.py`) | leases and attempts of `grading_job`; scores; completion of the session | `reclaim_stale_leases`, `claim_batch`, `process_job`, `reconcile_missing_jobs`, `grade_pending_answer`, `_maybe_stamp_completion` | values read before the grader call and used after it; leases that expire under a live worker; two last graders; crashes | completed iff graded; a score is never lost; each answer is settled in the end |
| Telephony admission (`api/telephony.py`, `services/voice_session_service.py`, `services/call_service.py`) | `voice_session_token`, `call` | webhook (heal, count, rate-limit, mint), consume, `end_call` | webhook retries; counting and redeeming at once; dead agents holding slots | ceiling and rate hold; a token opens one connection; slots come back; an ended call stays ended |
| Agent connection (`agent/pipeline.py`: `bot`, `greet`, event handlers, watchdogs, observers) | pipeline task, timers, `last_activity`, per connection | redeem, connect, speak, disconnect, watchdogs, `close_call` | coroutines cancelled while they await; a disconnect during `greet`; lost and late requests; turns that die | the slot is released; no conversation outlives its watchdogs; silence ends |
| Interview orchestrator (`services/interview_orchestrator.py`, `domain/states.py`, `api/interviews.py`, `api/calls.py`) | `interview`, `interview_answer`, `call.interview_id` | action, answer, complete, interrupt; inbound, identify, verify_invitation | requests about one interview from two calls; hangups and late interrupts; expiry between reading and deciding | statuses follow the table; the pointer is the first unanswered question; one call drives |
| Knowledge base (`rag/*`, `api/rag.py`, `scripts/ingest_kb.py`) | `kb_source`, `kb_chunk` | ingest, dense and text search, fuse, assemble, answer | an ingestion commits between the statements of a question | one version per file; nothing internal; answers rest on a near text |
| Agent tools (`agent/tools.py`, tool handlers of `agent/pipeline.py`) | per-connection `state` (session, call, interview) | three LLM tools, `_post` | cancellation by barge-in, timeouts, broken connections | the tool calls of submission; every tool call ends |
| Interview evaluation (`services/evaluation_service.py`) | `answer_evaluation` | `evaluate_interview` | read-then-insert with no unique constraint; overlapping requests; failures of the model on one question | every answer is covered; a rerun adds nothing; the report is what is stored |
| Schema start-up (`db/session.py`, `main.py`) | catalog of the database | `init_db` and its seven steps | two processes migrate at once; a stop half-way; data that violates a new constraint | nobody serves on an incomplete schema; everyone serves in the end |
| Database session (`db/session.py`, `db/models.py`) | – | commit or roll back; constraints | which exception reaches whom | in the modules above |
| Auth, config, health, tracing, scenarios, scripts, web, deploy | none that the program decides on | – | – | not modelled |

Interactions: the agent calls the control plane (submission, telephony, calls,
knowledge base) over HTTP. Submission hands answers to the grading worker
through `grading_job` rows. Telephony hands calls to the agent through tokens.
The call row is shared by telephony (slot, end), the agent connection (which
ends it) and the orchestrator (attachment, `has_active_call`). Evaluations read
the answers that the orchestrator records. API and worker both run `init_db`.
The voice agent's LLM is offered the assessment tools only; the interview
endpoints have a client in `tools.py` and are modelled from the server's side.

## 2. Modules

| Module | Models | Remarks |
|---|---|---|
| `AssessmentScoring` | `_summary`, "graded" | operators shared by the two below |
| `GradingWorker` | worker, manual grader, stamping | one step per statement, or per group of statements no transaction can separate |
| `GradeLedger` | what grading promises | abstract: accept, score once, stamp with the last score; what two graders of one answer may do besides |
| `AssessmentSubmit` | agent tool calls, `_post`, `start_session`, `grade_answer`, `by_call` | the network is a set of requests; a response whose client has left is dropped; after a barge-in the LLM is free |
| `VoiceSession` | webhook, tokens, calls, agent connections in four phases | the advisory lock is "no other hook is in a transaction" |
| `AgentConnection` | one connection in detail: `bot`, handlers, watchdogs, observers | instantiates `VoiceSession` and implements its connection |
| `InterviewStates` | `domain/states.py` | both tables, as functions |
| `InterviewLifecycle` | orchestrator, call attachment | the row lock is "no other request is locked on it" |
| `KnowledgeBase` | ingestion and questions | an ingestion is one transaction and one step |
| `EvaluationRun` | `evaluate_interview` | what a request wrote is invisible to others until its commit |
| `SchemaStartup` | `init_db` | looking at the catalog is one step, the statements of a migration step are another |
| `*Proofs` | – | TLAPS: one module each for `GradingWorker`, `AssessmentSubmit`, `VoiceSession`, `AgentConnection`, `InterviewLifecycle`, `KnowledgeBase`, `EvaluationRun`, `SchemaStartup` |
| `MC*` | values and symmetries for TLC | `AssessmentSubmit`, `AgentConnection` and `EvaluationRun` need none |

How state corresponds to code: a variable is a table, or the local variables of
a running handler (`proc`, `request`, `hook`, `conn`, `agent`, `asked`, `run`). A
step is one SQL statement, or a group that no other transaction can separate: after
its first lock a transaction's later reads of the locked rows can be taken with
it. A handler that computes outside the database (grader call, agent waiting for
a response) is split there; the coroutines of `AgentConnection` are split at their
awaits. The ORM is modelled where it matters: an object loaded before a wait
keeps its values (`GradingWorker!proc[p].done`), a flush writes only the columns
that differ from what was loaded (`Persisted`, `Stamped`, `Commit`).

Time is not counted. A lease, token, window or call is in or out of date, and
an action lets it pass; that covers every real duration and some that the
configuration excludes. Silence on the line is the one exception: `AgentConnection`
counts `Silence` ticks without activity, so that activity in between counts. One result
needs a duration, and a constant of the module says so: with `AssessmentSubmit!Prompt`,
requests reach the server in the order they were sent, and a repeat comes within the duplicate
window. The window is 30 seconds, and the retry of a submission is sent 20.5 seconds after the
request, so this is the normal case and not a certainty: it is the one condition that is left.

Some things go wrong in the code in a known way, and would make a property false for everything
else too. They are not assumed away. A history variable, which no action reads, names what they
have touched, and the property says that nothing else is:

| History variable | Holds |
|---|---|
| `GradingWorker!overran`, `byHand` | the answers whose lease ran out under their worker, and those `grade_pending_answer` took up; together they are `Contested` |
| `AssessmentSubmit`: `again` of a row, `astray` | the answers submitted right after a barge-in; whether a barge-in cancelled a start |
| `VoiceSession!slipped` | the ACTIVE calls redeemed between the two counts of a webhook, or with a token that had run out |
| `VoiceSession!late` | the CallSids that were given a token after they had connected |

Two modules are tied to a more abstract one by refinement:
`GradingWorker!ImplementsLedger` says that the worker, with its leases, retries and
crashes, implements `GradeLedger` (checked and proved);
`AgentConnection!ConnectionSteps` says that every step of the detailed connection is
a step, or a stutter, of the connection that `VoiceSession` composes with admission
(checked and proved).

Definitions marked "mutant" are plausible bugs of the code. No specification uses
them; substituted for the real definition next to them they must break a property,
which shows that the property can fail.

## 3. Runs

| Run | Module | States | What it shows |
|---|---|---|---|
| `grading_queue` | GradingWorker | 256,428 | a crash, and a lease that runs out under its worker or a manual run: completed iff graded, no score erased, FAILED only after all attempts, every accepted answer settled; for uncontested answers exclusive work, jobs that tell the outcome, one stamp; grading implements the ledger |
| `submit_retries` | AssessmentSubmit | 1,798,924 | timeouts, barge-ins with the same words, other words or a new start after them, blank turns, a crash of the API: no tool call stored twice, answers aligned but for rewordings after a barge-in, the agent asks the first question without an answer, the count a transaction read is current, every tool call ends |
| `voice_admission` | VoiceSession | 284,169 | one slot, two callers, redemptions inside webhooks, CallSids announced late: ceiling respected but for calls that slipped in, rate respected, tokens and connections one to one, ended calls stay ended unless announced late, leaked slots heal |
| `agent_connection` | AgentConnection | 62,633 | the handler of the disconnect, the watchdogs and their cancellation in every order, lost and late requests, dead turns: steps of `VoiceSession`, the slot released, a hard stop, silence noticed |
| `interview_calls` | InterviewLifecycle | 1,035,886 | a phone call and a browser session, two requests at a time: table followed, pointer right, decisions on the current row |
| `kb_swap` | KnowledgeBase | 294,289 | files edited, hidden, removed and ingested between the statements of a question: chunks are those of the source, one version per file, nothing internal, answers grounded |
| `evaluation_runs` | EvaluationRun | 387,496 | three overlapping evaluations, forced or not, some rolled back, while answers arrive: every answer known at the start is covered, an unforced rerun adds nothing, the report is what is stored |
| `schema_startup` | SchemaStartup | 22,215 | API and worker start on any kind of old database, are stopped and started again: nobody serves on an incomplete schema, both serve in the end |

Four runs end in a violation. Each shows a disagreement between the code and one
of its own sentences; `PROJECT.json` quotes them under "findings".

- `stamped_twice` (`StampedOnce`): `_maybe_stamp_completion` locks the session row, but tests
  `completed_at` on the object loaded before the lock, which the locking SELECT does not refresh.
  Two workers are enough, once the lease of one has run out while it is at work.
- `call_reopened` (`TerminalIsFinal`): a consume sets the call it finds to ACTIVE
  whether or not it has ended. The row then is ACTIVE with `ended_at` set, which
  `end_call` can never change.
- `two_drivers` (`OneDriver`): `_resume` does not ask `has_active_call`, and a
  browser session is never ACTIVE, so two calls can be told to start or resume one
  interview.
- `own_call_busy` (`RefusedForAnotherCall`): a Twilio call is ACTIVE before it is
  attached, so `_start` finds the caller's own call and refuses to start.

### Bounds, and why they are enough

- Grading: one session, because a step touches one session and sessions share
  nothing but the queue. Two questions, so that "the last two grades" are two; two workers
  and a manual run, as every race in the code is between two transactions; two attempts,
  so that a first and a last one exist. `MaxCrashes` and `MaxContests` are 1: one crash, and
  one lease that runs out under its worker or one manual run, each at any moment. The
  proofs lift these bounds.
- Submission: two questions and three utterances, so that an answer can arrive
  when all are taken; two texts, so that a repeat, a coincidence and a rewording differ; two
  starts; two interruptions or crashes on top of the retry each tool call may have. The
  proofs lift these bounds.
- Telephony: two CallSids of one number, two tokens, two hooks, two connections, ceiling and
  rate 1. A ceiling of one means that any call too many shows; the rest, such as a retry that finds
  its own live token, is in the proofs, which lift the bounds. Tokens and CallSids that no query
  can find are used again, so behaviours are unbounded although the sets are small.
- Connection: `Silence = 2`, so that activity can come between two ticks. The module
  is about one connection; connections share only the call rows, which `VoiceSession`
  has.
- Interview: one interview, two calls of different transport, two requests, two
  questions. Requests about different interviews share no row except through the
  candidate's open interviews, which the proofs cover for any number.
- Knowledge base: two files that may be missing, a body of two chunks and one of one, so that a
  file grows and shrinks; the first may be declared visible or internal without a change of the
  body. Four versions per file (one stored, one in each search, a new one). `TopK = FinalK = 2`
  makes fusion cut.
- Evaluation: three requests, so that two overlap before a third that comes after
  them; two questions, so that an answer can arrive between two requests; a
  score in range and one that is clamped.
- Start-up: two processes, two stops or lock timeouts, so that either or both can be
  stopped in the middle. Eight objects stand for those of `init_db`: the extension, two tables,
  a later column that a new table brings along, two indexes, two constraints. The step of the
  RAG indexes has none (it works like the other two); the proof is for any objects.

Deadlock is checked except where the modelled activity ends: `AssessmentSubmit`
(counters), `AgentConnection` (one connection), `EvaluationRun` (each request once),
`SchemaStartup` (all serve).

### Fairness

- `GradingWorker!Fairness`: a worker polls for ever and is restarted by the
  container runtime (`restart: unless-stopped`); a manual run that was begun ends; clocks
  advance. Nobody owes an answer, a manual run, a crash or an overrun. `EveryAnswerSettled` needs
  crashes and overruns to stop (`MaxCrashes`, `MaxContests`): the code does not count an attempt
  that dies, and a job whose grading always takes longer than its lease may go round for ever.
- `AssessmentSubmit!FairSpec`: the HTTP client's timer runs whatever the server
  does. The server owes nothing.
- `VoiceSession!Fairness`: clocks advance, started transactions end, connections
  end (hangup or watchdog). Strong fairness of `CountActive` says that people keep
  calling; without it no slot heals, because the code heals only when a webhook
  arrives.
- `AgentConnection!Fairness`: the event loop resumes each coroutine that can run,
  timers elapse, a request of `_post` is answered or times out, a turn of the LLM ends
  in speech or dies. The server may be slow for ever and the caller owes nothing.
- `SchemaStartup!Fairness`: a process goes on with its start, and is started again when
  it has ended (container runtime). Stops are bounded by `MaxFaults`.
- `InterviewLifecycle`, `KnowledgeBase` and `EvaluationRun` state no fairness and no
  liveness.

## 4. Proofs

All theorems are for every value of the constants, from the named assumptions of
the modules: `N` and `MAX_ATTEMPTS` positive, workers and manual graders disjoint,
outcomes and `Null` distinct, `Scores \subseteq 0..10`; `Blank` no text; for the
interview at least one question and `Webrtc \subseteq Call`; every body with a chunk,
and four names for versions; and so on. A theorem that needs more says so with ASSUME.

| Module | Theorem | Says | Assumes |
|---|---|---|---|
| `GradingWorkerProofs` | `TypeCorrect` | `[]TypeOK` | |
| | `SessionCompletedIffGraded` | `[]CompletedIffGraded` | |
| | `GradesStay` | `GradeNeverErased` | |
| | `FailedMeansExhausted` | `[]FailedAfterAllAttempts` | |
| | `WorkIsExclusive` | `[]ExclusiveWork` | |
| | `JobsTellOutcomes` | `[]JobTellsOutcome` | |
| | `StampsOnce` | `[]CleanStamp` | |
| | `GradingImplementsLedger` | `ImplementsLedger` | |
| `AssessmentSubmitProofs` | `TypeCorrect` | `[]TypeOK` | |
| | `CountStaysCurrent` | `[]CountIsCurrent` | |
| | `UtterancesStoredOnce` | `[]NoUtteranceTwice` | `Prompt` |
| | `AnswersAligned` | `[]Aligned` | `Prompt` |
| | `AgentStaysInStep` | `[]AgentInStep` | `Prompt` |
| `VoiceSessionProofs` | `TypeCorrect` | `[]TypeOK` | |
| | `TokensStaySingle` | `[]TokensSingle` | |
| | `RateHolds` | `[]RateRespected` | |
| | `CeilingHolds` | `[]CeilingRespected` | |
| | `TerminalStays` | `TerminalUnlessLate` | |
| | `SelfHealFrees` | `[][StaleFreed]_vars`: a webhook that counts leaves no stale ACTIVE call, late CallSids excepted | |
| `AgentConnectionProofs` | `TypeCorrect` | `[]TypeOK` | |
| | `ConnectionImplements` | `ConnectionSteps` | |
| | `PipelineIsStopped` | `[]TaskHasStopper`: a running pipeline has a coroutine that will cancel it | |
| | `SlotIsClosed` | `[]SlotHasCloser`: a call that holds its slot has a coroutine that will end it | |
| `InterviewLifecycleProofs` | `TypeCorrect` | `[]TypeOK` | |
| | `StatusFollowsTable` | `LegalTransitions` | |
| | `PointerFollowsAnswers` | `[]PointerIsNext` | |
| | `RequestsDecideOnCurrentRow` | `[]DecidesOnCurrentRow` | |
| `KnowledgeBaseProofs` | `TypeCorrect` | `[]TypeOK` | |
| | `ChunksAreThoseOfSource` | `[]ChunksMatchSource` | |
| | `ContextIsOfOneVersion` | `[]OneVersion` | |
| | `AnswersAreGrounded` | `[]Grounded` | |
| | `InternalStaysHidden` | `InternalHidden` | |
| `EvaluationRunProofs` | `TypeCorrect` | `[]TypeOK` | |
| | `EveryAnswerHasARow` | `[]CommittedCovers` | |
| | `RerunChangesNothing` | `RerunIdempotent` | |
| | `ReportIsTheTable` | `[]ReportIsStored` | |
| `SchemaStartupProofs` | `TypeCorrect` | `[]TypeOK` | |
| | `ServingIsComplete` | `[]ServesComplete` | |

*Grading, types.* `TypeOK` is not inductive: `proc` holds `attempts` below
`MAX_ATTEMPTS`, which comes from the job it loaded. `TypeInv` adds that a job in
the queue has attempts left (`JobInv`) and that a transaction past its load has an
answer, and past its flush an outcome (`ProcInv`).

*Grading, completion.* Whether a commit stamps is decided when the transaction locks
the session, so `CompletedIffGraded` needs to know that the decision is still right
at the commit. `SessionLockInv`: the lock is exclusive. `DecisionInv`: while it is
held, the decision equals the one that would be taken now. `DoneInv`: a completion
read before the lock is never wrong, only old, because completion is never undone.
`AcceptedInv` says that only accepted answers have jobs, scores and transactions,
so that an answer that arrives later cannot make a completed session incomplete. Two lemmas
on `AllGraded` (it is monotone; other sessions do not matter) carry the rest.

*Grading, outcomes.* A commit writes a score over a score because `Persisted` leaves an
unchanged NULL out; a worker that is about to write FAILED had one attempt left when it
flushed (`FlushedInv`), whatever others have counted since.

*Grading, ledger.* A job in a worker's batch is RUNNING under that worker's live lease until the
worker has dealt with it, unless its lease has run out meanwhile (`BatchInv`, `HeldInv`). From
that: two workers hold different jobs, the overrun ones aside (`ExInv`). A transaction on an
uncontested answer is therefore that of the one worker that holds its job, and finds no score yet
(`OwnInv`). So its commit overwrites nothing, statuses and scores agree, and a worker that
still has an answer to grade cannot meet a stamp (`OutcomeInv`). A commit is then one of three
steps of `GradeLedger`: on an answer without a score it is `Grade`, with the stamp exactly if
this was the last one (`CommitIsGrade`, from `DecisionInv`); on one that has a score, which is
contested, it is `Regrade` or `Restamp` (`CommitIsRegrade`); or nothing shows. An overrun or a manual load is `Contest`.

*Submission.* `Base` is types, counters, what the agent knows of sessions, and the row lock;
`CountIsCurrent` is part of it. `UInv` says that rows are in the order of utterances and
that the session of a pending request holds only older utterances, or the request's own
one as its last row: a repeat therefore always meets its own text in the duplicate guard.
`InStep` holds until a call fails. Without barge-ins all pending requests would repeat one
tool call. With them, requests of several calls may be pending, all about one question: each is the
answer to the next position, or to the one before it and then either a repeat that the guard
catches or a rewording (`OwnInv`, `InsertInv`, `Reworded`). What the agent learns is the position
after the last row once its own request is handled, because older ones are handled before
(`ReplyInv`); `astray` marks the one case in which it does not learn of a session at all.

*Telephony.* `BaseInv` is types, the webhook's and the connection's phases (`HookInv`,
`ConnInv`) and `TokensSingle`. `RateInv` says that an admitted webhook still has room under the
limit when it mints. `CeilingInv` is the interesting one: the webhook's two counts are taken at
different times while tokens are redeemed. Until the second, the active calls do not outgrow the
first count, but for those that slip past it; from then on a redemption only moves a slot from
the tokens to the calls, and the place of the new token stays free. `FinalInv`: a token that is
not consumed belongs to a call that has not connected, or to a late CallSid, so no other redemption finds
an ended row. `ActiveIsOpen` (an ACTIVE row has not ended, unless it is late) follows
from it, and makes the `WHERE ended_at IS NULL` of the self-heal harmless.

*Agent connection.* Every coroutine that closes can be cancelled by another one, so the question is
whether they can cancel each other until nobody is left. `ConnectionInv` relates the phases: before
`bot` runs nothing else does, a request is in the network only of a coroutine that has begun to
close, and there are no watchdogs until `greet` has returned. `ByeInv`: the handler of
the disconnect is never cancelled, and is over only when the call has ended or its request is
lost. `TaskHasStopper` and `SlotHasCloser` are inductive with them: whoever cancels the coroutine
that was to act is one that will act itself. They name what is excepted: a coroutine that raised,
and lost requests. For the refinement, the redemption of the token is `ClaimToken` and then `CommitConsume`
of `VoiceSession`, a refused one `AgentCrash`; the arrival of the request that ends the call is
`CloseCall`; the first request to close, or the disconnect, is `Disconnect`; all other steps stutter.

*Interview.* `Inv` is types, `RowsInv` (only COMPLETED rows have all questions answered; the
pointer of an open row is the next question), `RequestInv`, and `LockInv` (the lock is exclusive,
and what its owner read is what the row holds). `EffectSound` shows, for any row that satisfies
`RowInv` and any operation, that the new columns are well typed, follow the table and satisfy
`RowInv`; with `LockInv` the commit writes exactly that.

*Knowledge base.* `KInv` is types, `SourceInv` (the chunks of a source are those of its body) and
`AskedInv` (each search has found rows of one version per file, and so has the context; a row that is
found twice by one id has one text, `SameText`). A question, with the store, can know three
versions of a file, so of four names one is free and an ingestion never reuses a name that is
still in use (`FreshVersion`). `Grounded` needs `SameText`: the similarity was recorded by id in the
dense search and the text read later. `HiddenInv` adds that a found row whose version is still
stored belongs to a source that is visible: the front matter of a stored version never changes, because a
file is skipped or gets a new version.

*Evaluation.* `NameInv`: stored rows, and the requests that another counts as earlier, belong to
committed requests. `WorkInv`: what a running request has written is for questions it has dealt
with, in rows of its own or, if it is forced, in stored ones. `CoverInv` follows the request from
question to question: each one dealt with has a row, stored or about to be; as no step removes a row,
it still has when the request commits. `RerunInv`: what earlier requests scored an unforced request
does not write. `ReportInv`: until a forced request commits, a reported row is stored with the
reported score, and what a forced request is about to overwrite is what it has seen.

*Start-up.* `PassedInv`: what the steps a process has passed were to create exists. No step
removes an object, so it stays true for a process that serves.

Only model-checked: the liveness properties (`EveryAnswerSettled`, `ToolCallEnds`, `SlotsHeal`,
`SlotReleased`, `HardStop`, `DeadAirEnds`, `EveryoneServes`), because arguments from fairness need
ENABLED, which the prover does not reason about. For three of them the safety part is proved, that
somebody is there to do what must happen: `PipelineIsStopped` for `HardStop`, `SlotIsClosed` for
`SlotReleased`, `SelfHealFrees` for `SlotsHeal`. That this somebody gets to act is what TLC checks.

## 5. Limits, and other disagreements met

What holds only with an exception or under a condition, and what the code does outside it:

- `ExclusiveWork`, `JobTellsOutcome` and `CleanStamp` except answers that were contested. A lease
  (60 s) is not renewed, a batch is up to five grader calls one after the other, and `process_job`
  looks at a job's status, not at its lease owner. A worker that overran its lease, or a manual
  grader, can therefore overwrite a newer verdict, record a score behind the stamp, or stamp again
  (`stamped_twice`), even with an aggregate that leaves a recorded score out. `GradeLedger` says that
  this is all (`Regrade`, `Restamp`); completion, kept scores and settled jobs hold for contested answers too.
- `NoUtteranceTwice`, `Aligned` and `AgentInStep` need `Prompt`. A late repeat is stored as the
  answer to the next question.
- `Aligned` excepts rewordings. A barge-in cancels the tool handler (`pipeline.py:510-517`, `:543-545`), not
  its request, and the LLM is free in what it submits next. Other words miss the guard
  (`assessment_service.py:356`) and take the position of the next question, as
  `PRODUCTION_READINESS_TODO.md:291-295` says; the next question is then never asked. What the model adds is
  that the answers after it are in place again, and that nothing else displaces a row.
- `Aligned` and `AgentInStep` stop at a failed tool call: the handler gives the LLM an empty
  `next_question` (`pipeline.py:523`) and the code has no way back. `AgentInStep` does not promise the newest session
  while `astray`: the LLM was interrupted in a start, and may go on with the session it knew.
- `ToolCallEnds` is about connections that do not break. `_post` "NEVER raises" because a handler that raises
  leaves the LLM's function call hanging (`tools.py:22-24`), but it catches `ConnectError` and
  `TimeoutException` only, so a connection that breaks while reading raises.
- `CeilingRespected` excepts calls that slipped in: a token redeemed between the webhook's two counts is
  in neither, and each such call is one above the ceiling.
- `TerminalUnlessLate` and `SlotsHeal` except CallSids that were announced again after they had connected
  (`telephony.py:174`): a reopened row keeps its slot for ever (`call_reopened`).
- `SlotReleased` and `HardStop` except coroutines that died of an exception, because nothing replaces
  them. A `greet` that dies of one `_post` does not catch leaves the call without watchdogs, and then
  the hard stop that `SLO.md` promises does not happen.
- `DeadAirEnds` counts the inactivity watchdog as an end: a second turn that dies within the cooldown
  of the recovery line gets none, and the caller hears nothing until then.
- `RerunIdempotent` is about what was scored before the rerun began. Two overlapping evaluations of one
  interview each insert a row per answer, and both rows stay. A NULL that a failed model call left is
  taken for a score by every later run that is not forced.
- `EveryoneServes` leaves out data that violates a new constraint or unique index: the transaction
  fails at every start.
- `InternalHidden` is about the visibility that is stored. The checksum covers the body
  (`ingest.py:94-103`), so a file of which only the front matter becomes internal is skipped, its row stays
  visible, and its text is given to candidates until the body changes or someone re-indexes, while
  `RAG_INTEGRATION_PLAN.md:121` says internal sources are never returned.

Also seen: `start_session` inserts a session for every request, while `tools.py:25-28` says every
endpoint is idempotent; a disconnect while `greet` is awaited finds no watchdogs to cancel, and they
are created afterwards and outlive the connection; a connection whose CallSid differs from its token's
is closed after the token is spent, and its call stays ACTIVE until a webhook heals it; a question
whose chunks are replaced before `_assemble` escalates, while `RAG_INTEGRATION_PLAN.md:171` says there
is no read gap; a source without `visibility` is visible to candidates; a failed `kb_answer` gives the
LLM an empty answer (`pipeline.py:539`); `SLO.md` places the rate limit in `ingest_call`, it is in
`rate_limited`, asked by the webhook; indexes and constraints that a model declares inline are created
with their table only, so a table of an older release never gets those that `init_db` does not name.

Abstractions a reader should know:

- A grade is a member of `Scores`, a malformed reply or a provider error: `_grade` takes the model's own
  score, validated to 0..10, and the rating band and the pass flag of an answer follow from it. The
  overall score is rounded to one decimal before it is compared with the pass mark
  (`assessment_service.py:505`), so an average of 6.95 passes; scores here are integers and
  `overall_pass` is left out.
- All interviews are one candidate's, and each has a question. Sessions are used by one call.
- `verify_invitation` is one step. Its attempt limit (`calls.py:98`) is counted and then recorded without
  a lock, so overlapping tries can pass it; the model has tries one after the other.
- `process_job` for a missing answer row is left out: the foreign key excludes it.
- Ingestions run one at a time (the script is started by hand). `kb_source.uri` has no unique
  constraint, so two at once could insert a source twice.
- The role filter works like the visibility filter and is left out, as are candidate documents.
- Similarity scores are one bit per text: near the question or not. The vector index is approximate,
  so a search returns any visible rows up to `TopK`.
- That a start on a complete schema runs no DDL (a comment of `session.py`) is how the model works, and
  is not stated as a property.

Not modelled: the audio pipeline and turn detection (Pipecat's), text filters before TTS, the metrics
observer, tracing and redaction, authentication, configuration, health, scenario seeding, scripts that
only read, backup and restore, deployment. None of them keeps state that the program decides on.

## 6. Plan

Done, in the order of importance to the product: grading, submission, telephony, interview, knowledge
base, agent connection, evaluation, start-up, and theorems about each of them: every safety property
that a passing run checks is a theorem, and so are both refinements. What is left:

1. `KnowledgeBase`: candidate documents, the role filter, two ingestions at a time.
2. `InterviewLifecycle`: tries of an invitation code that overlap.
3. Fractional scores, to state what the rounding of the overall score does.
