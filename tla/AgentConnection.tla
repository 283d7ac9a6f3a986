--------------------------- MODULE AgentConnection ---------------------------
(***************************************************************************)
(* One Twilio connection inside the agent process (bot in                  *)
(* app/agent/pipeline.py): redeeming the token, the pipeline task, the     *)
(* handlers of the transport's two events, the two watchdogs, and the      *)
(* observers that notice silence and failed turns.                         *)
(*                                                                         *)
(* The coroutines interleave at their awaits.  Cancelling one that awaits  *)
(* close_call does not take back the request it has sent.  Three           *)
(* coroutines may end the call: the handler of the disconnect ("bye") and  *)
(* the watchdogs.                                                          *)
(*                                                                         *)
(* VoiceSession has the same connection in four phases; ConnectionSteps    *)
(* says that this module does nothing VoiceSession leaves out.  A browser  *)
(* connection redeems no token, and has no watchdogs and no handler of the *)
(* disconnect.                                                             *)
(***************************************************************************)
EXTENDS Integers

CONSTANT Silence  \* clock ticks without activity that count as MAX_INACTIVITY_SECONDS

ASSUME SilenceAssumption == Silence \in Nat \ {0}

VARIABLES
  row,        \* the call: whether it is ACTIVE, and whether it has ended
  bot,        \* how far bot() has come
  task,       \* the pipeline task
  connected,  \* _on_connected
  closer,     \* closer[c]: the coroutine c that ends the call
  net,        \* the coroutines with an /end request the server has not handled
  client,     \* the caller's line is up
  turn,       \* whose turn it is in the conversation
  cooling,    \* a recovery line was queued less than _COOLDOWN_S ago
  quiet,      \* ticks since last_activity
  lost        \* the coroutines whose close_call got no answer

vars == <<row, bot, task, connected, closer, net, client, turn, cooling, quiet, lost>>
talk == <<turn, cooling, quiet>>

-----------------------------------------------------------------------------
Watchdog == {"duration", "inactivity"}
Closer == Watchdog \cup {"bye"}

BotPhase == {"waiting", "consuming", "redeemed", "running", "rejected", "failed"}
\* "try0" and "try1": awaiting close_call; "cancelling": awaiting task.cancel
CloserPhase == {"none", "sleeping", "try0", "try1", "cancelling", "interrupting", "over", "raised", "cancelled"}
Posting(c) == closer[c] \in {"try0", "try1"}

NoRow == [status |-> "NONE", ended |-> FALSE]

Init ==
  /\ row = NoRow
  /\ bot = "waiting" /\ task = "none" /\ connected = "none"
  /\ closer = [c \in Closer |-> "none"]
  /\ net = {}
  /\ client = TRUE
  /\ turn = "none" /\ cooling = FALSE /\ quiet = 0
  /\ lost = {}

-----------------------------------------------------------------------------
(***************************************************************************)
(* bot(): nothing is built before the token is redeemed.                   *)
(***************************************************************************)

\* consume_voice_session: the server takes the token (refused, the socket is closed and
\* nothing more happens) ...
Consume ==
  /\ bot = "waiting"
  /\ bot' = "consuming"
  /\ UNCHANGED <<row, task, connected, closer, net, client, talk, lost>>

\* ... and makes the call ACTIVE; there is no retry, and without a response bot() raises
Redeemed ==
  /\ bot = "consuming"
  /\ row' = [row EXCEPT !.status = "ACTIVE"]
  /\ bot' \in {"redeemed", "failed"}
  /\ UNCHANGED <<task, connected, closer, net, client, talk, lost>>

\* the CallSid of the media stream's handshake is not the token's: the socket is closed
\* and nobody ends the call
Reject ==
  /\ bot = "redeemed"
  /\ bot' = "rejected" /\ client' = FALSE
  /\ UNCHANGED <<row, task, connected, closer, net, talk, lost>>

BuiltEarly(phase) == phase \in {"waiting", "redeemed"}  \* mutant: the token is redeemed too late
\* build_interview_task and runner.run; the transport reports the client
Built(phase) == phase = "redeemed"
Run ==
  /\ Built(bot)
  /\ bot' = "running" /\ task' = "running" /\ connected' = "greeting"
  /\ UNCHANGED <<row, closer, net, client, talk, lost>>

-----------------------------------------------------------------------------
(***************************************************************************)
(* _on_connected: greet, then the watchdogs.                               *)
(***************************************************************************)

\* greet has its answer, or {"ok": False}, which it takes for an unknown caller: the
\* first LLM run is queued and the watchdogs are created, also when the caller has
\* hung up in the meantime
Greeted ==
  /\ connected = "greeting"
  /\ connected' = "done"
  /\ closer' = [c \in Closer |-> IF c \in Watchdog THEN "sleeping" ELSE closer[c]]
  /\ turn' = IF task = "running" THEN "bot" ELSE turn
  /\ quiet' = 0
  /\ UNCHANGED <<row, bot, task, net, client, cooling, lost>>

\* the connection to the control plane breaks: the exception leaves greet, and no
\* watchdog is ever created
GreetRaises ==
  /\ connected = "greeting"
  /\ connected' = "raised"
  /\ UNCHANGED <<row, bot, task, closer, net, client, talk, lost>>

-----------------------------------------------------------------------------
(***************************************************************************)
(* close_call and task.cancel.                                             *)
(***************************************************************************)

\* the request leaves, and reaches the server or not
Post(c, try, others) ==
  /\ closer' = [others EXCEPT ![c] = try]
  /\ net' \in {net, net \cup {c}}

WatchdogSkipsCancel(c) == "over"  \* mutant: the pipeline is left running
\* what c does when close_call has returned
AfterClose(c) == IF c \in Watchdog THEN "cancelling" ELSE "over"

Timeout(c) ==
  /\ Posting(c)
  /\ IF closer[c] = "try0"
       THEN Post(c, "try1", closer) /\ UNCHANGED lost
       ELSE /\ closer' = [closer EXCEPT ![c] = AfterClose(c)]
            /\ lost' = lost \cup {c}
            /\ UNCHANGED net
  /\ UNCHANGED <<row, bot, task, connected, client, talk>>

\* an exception other than ConnectError and TimeoutException ends the coroutine
PostRaises(c) ==
  /\ Posting(c)
  /\ closer' = [closer EXCEPT ![c] = "raised"]
  /\ lost' = lost \cup {c}
  /\ UNCHANGED <<row, bot, task, connected, net, client, talk>>

\* end_call: UPDATE ... WHERE ended_at IS NULL
Ended(r) == IF r.ended THEN r ELSE [status |-> "DISCONNECTED", ended |-> TRUE]

\* the server handles the request of c; c may be cancelled or past waiting by then
End(c) ==
  /\ c \in net
  /\ net' = net \ {c}
  /\ row' = Ended(row)
  /\ closer' \in {closer, IF Posting(c) THEN [closer EXCEPT ![c] = AfterClose(c)] ELSE closer}
  /\ UNCHANGED <<bot, task, connected, client, talk, lost>>

\* the pipeline stops and takes the transport down
Stopped == task' = (IF task = "running" THEN "cancelled" ELSE task)

CancelTask(w) ==
  /\ w \in Watchdog /\ closer[w] = "cancelling"
  /\ Stopped
  /\ closer' = [closer EXCEPT ![w] = "over"]
  /\ UNCHANGED <<row, bot, connected, net, client, talk, lost>>

-----------------------------------------------------------------------------
(***************************************************************************)
(* The watchdogs and the handler of the disconnect.                        *)
(***************************************************************************)
DurationElapses ==
  /\ closer["duration"] = "sleeping"
  /\ Post("duration", "try0", closer)
  /\ UNCHANGED <<row, bot, task, connected, client, talk, lost>>

InactivityAfterSpeech ==  \* mutant: silence counts only while the caller is expected to speak
  /\ closer["inactivity"] = "sleeping" /\ quiet = Silence /\ turn = "caller"
  /\ Post("inactivity", "try0", closer)
  /\ UNCHANGED <<row, bot, task, connected, client, talk, lost>>

\* one of the polls of _inactivity_watchdog
InactivityElapses ==
  /\ closer["inactivity"] = "sleeping" /\ quiet = Silence
  /\ Post("inactivity", "try0", closer)
  /\ UNCHANGED <<row, bot, task, connected, client, talk, lost>>

\* watchdog_task.cancel() and inactivity_task.cancel(), for those that exist
Cancelled ==
  [c \in Closer |-> IF c \in Watchdog /\ closer[c] \notin {"none", "over", "raised"} THEN "cancelled"
                    ELSE closer[c]]

\* the caller hangs up, or the transport reports that the cancelled task took it down
Disconnected ==
  /\ bot = "running" /\ client
  /\ client' = FALSE
  /\ closer' = [Cancelled EXCEPT !["bye"] = "cancelling"]
  /\ UNCHANGED <<row, bot, task, connected, net, talk, lost>>

\* _on_disconnected: task.cancel, whose exceptions are swallowed; mark_interrupted if
\* greet has found an interview, likewise; close_call
ByeCancels ==
  /\ closer["bye"] = "cancelling"
  /\ Stopped
  /\ \/ connected = "done" /\ closer' = [closer EXCEPT !["bye"] = "interrupting"] /\ UNCHANGED net
     \/ Post("bye", "try0", closer)
  /\ UNCHANGED <<row, bot, connected, client, talk, lost>>

ByeStops == closer' = [closer EXCEPT !["bye"] = "raised"] /\ UNCHANGED net  \* mutant: not swallowed
ByeCloses == Post("bye", "try0", closer)
ByeMarksInterrupted ==
  /\ closer["bye"] = "interrupting"
  /\ ByeCloses
  /\ UNCHANGED <<row, bot, task, connected, client, talk, lost>>

\* Pipecat ends the task for reasons of its own, without the disconnect event
PipelineEnds ==
  /\ task = "running"
  /\ Stopped
  /\ UNCHANGED <<row, bot, connected, closer, net, client, talk, lost>>

-----------------------------------------------------------------------------
(***************************************************************************)
(* The conversation, as the observers see it.                              *)
(***************************************************************************)
Talking == task = "running" /\ turn # "none"
Rest == <<row, bot, task, connected, closer, net, client, lost>>

\* UserStoppedSpeakingFrame
CallerSpeaks ==
  /\ Talking /\ client /\ turn # "bot"
  /\ turn' = "bot" /\ quiet' = 0
  /\ UNCHANGED <<Rest, cooling>>

\* TTSStartedFrame
BotSpeaks ==
  /\ Talking /\ turn = "bot"
  /\ turn' = "caller" /\ quiet' = 0
  /\ UNCHANGED <<Rest, cooling>>

\* the LLM's completion fails.  DeadTurnRecoveryObserver queues a spoken line, unless
\* it did less than _COOLDOWN_S ago: then nobody says anything.
TurnDies ==
  /\ Talking /\ turn = "bot"
  /\ IF cooling THEN turn' = "dead" /\ UNCHANGED <<cooling, quiet>>
                ELSE turn' = "caller" /\ cooling' = TRUE /\ quiet' = 0
  /\ UNCHANGED Rest

CooldownPasses ==
  /\ cooling
  /\ cooling' = FALSE
  /\ UNCHANGED <<Rest, turn, quiet>>

Tick ==
  /\ connected = "done" /\ quiet < Silence
  /\ quiet' = quiet + 1
  /\ UNCHANGED <<Rest, turn, cooling>>

-----------------------------------------------------------------------------
Coroutines ==
  \/ Consume \/ Redeemed \/ Run \/ Greeted \/ GreetRaises
  \/ \E c \in Closer : Timeout(c) \/ PostRaises(c)
  \/ \E w \in Watchdog : CancelTask(w)
  \/ DurationElapses \/ InactivityElapses \/ ByeCancels \/ ByeMarksInterrupted
Environment ==
  \/ Reject \/ Disconnected \/ PipelineEnds
  \/ \E c \in Closer : End(c)
Conversation == CallerSpeaks \/ BotSpeaks \/ TurnDies \/ CooldownPasses \/ Tick

Next == Coroutines \/ Environment \/ Conversation

Spec == Init /\ [][Next]_vars

(***************************************************************************)
(* The event loop resumes every coroutine; timers and timeouts elapse; an  *)
(* LLM run ends with speech or an error.  The server may be slow, and a    *)
(* caller need neither speak nor hang up.                                  *)
(***************************************************************************)
Fairness ==
  /\ WF_vars(Greeted \/ GreetRaises)
  /\ \A c \in Closer : WF_vars(Timeout(c) \/ PostRaises(c) \/ End(c))
  /\ \A w \in Watchdog : WF_vars(CancelTask(w))
  /\ WF_vars(DurationElapses) /\ WF_vars(InactivityElapses)
  /\ WF_vars(ByeCancels) /\ WF_vars(ByeMarksInterrupted)
  /\ WF_vars(BotSpeaks \/ TurnDies) /\ WF_vars(Tick)

FairSpec == Spec /\ Fairness
-----------------------------------------------------------------------------
(***************************************************************************)
(* The same connection in VoiceSession, after its token was minted.        *)
(***************************************************************************)
Begun == \E c \in Closer : closer[c] \notin {"none", "sleeping"}
Phase == CASE bot = "consuming" -> "claimed"
           [] bot \in {"redeemed", "running"} /\ ~row.ended -> IF Begun THEN "closing" ELSE "live"
           [] OTHER -> "closed"

Admission == INSTANCE VoiceSession WITH
  Sid <- {"call"}, Token <- {"token"}, Hook <- {}, Conn <- {"connection"},
  Number <- {"number"}, From <- [sid \in {"call"} |-> "number"],
  MaxConcurrentCalls <- 1, MaxCallsPerNumberPerMinute <- 1,
  slipped <- {}, late <- {},
  token <- [t \in {"token"} |-> [sid |-> "call", consumed |-> bot \notin {"waiting", "consuming"},
                                 expired |-> FALSE, recent |-> TRUE]],
  call  <- [sid \in {"call"} |-> [status |-> row.status, ended |-> row.ended, stale |-> FALSE]],
  hook  <- [h \in {} |-> "idle"],
  conn  <- [k \in {"connection"} |-> [phase |-> Phase,
                                      token |-> IF Phase = "closed" THEN "none" ELSE "token"]]
-----------------------------------------------------------------------------
(***************************************************************************)
(* Properties.                                                             *)
(***************************************************************************)

\* The values every variable takes.
TypeOK ==
  /\ row \in [status : {"NONE", "ACTIVE", "DISCONNECTED"}, ended : BOOLEAN]
  /\ bot \in BotPhase
  /\ task \in {"none", "running", "cancelled"}
  /\ connected \in {"none", "greeting", "done", "raised"}
  /\ closer \in [Closer -> CloserPhase] /\ net \subseteq Closer
  /\ client \in BOOLEAN /\ cooling \in BOOLEAN /\ lost \subseteq Closer
  /\ turn \in {"none", "bot", "caller", "dead"} /\ quiet \in 0..Silence

\* Every step of the handlers, watchdogs and late requests is a step of the connection in
\* VoiceSession: whatever is proved or checked there about slots holds of this agent.
ConnectionSteps == [][Admission!Next]_(Admission!vars)

\* The slot of a call that got as far as its pipeline is released in the end: by a watchdog,
\* or by the handler of the disconnect that has cancelled the watchdogs, or by a watchdog
\* that was created after the disconnect.  It leaks when the last of them got no answer.
SlotReleased ==
  <>[](bot = "running" => \/ row.ended
                          \/ "bye" \in lost
                          \/ closer["bye"] = "none" /\ (connected = "raised" \/ "duration" \in lost))

\* Every conversation ends, whatever the caller does (SLO.md, max call duration: "Hard
\* stop"), unless greet or the watchdog of the duration died of an exception.
HardStop == task = "running" ~> task # "running" \/ connected = "raised" \/ closer["duration"] = "raised"

\* A turn that died without a recovery line is not dead air for good: the caller speaks
\* again, or the silence is noticed, as a dead turn counts as no activity
\* (DeadTurnRecoveryObserver, ActivityObserver).
DeadAirEnds ==
  turn = "dead" ~> turn # "dead" \/ task # "running" \/ closer["inactivity"] # "sleeping"

=============================================================================
