------------------------ MODULE AgentConnectionProofs ------------------------
(***************************************************************************)
(* Theorems about AgentConnection, for every length of the silence that    *)
(* the inactivity watchdog waits for.                                      *)
(***************************************************************************)
EXTENDS AgentConnection, TLAPS

\* Before the pipeline runs nobody ends the call.  A request that is on its way belongs to
\* a coroutine that has sent it, and the watchdogs exist once greet has returned.
ConnectionInv ==
  /\ bot # "running" => /\ closer = [c \in Closer |-> "none"] /\ net = {}
                        /\ connected = "none" /\ task = "none" /\ ~row.ended
  /\ \A c \in net : closer[c] \notin {"none", "sleeping"}
  /\ connected # "done" => \A w \in Watchdog : closer[w] = "none"

\* The handler of the disconnect is not over before the call has ended or its request is lost.
ByeInv ==
  /\ closer["bye"] \notin {"sleeping", "cancelled"}
  /\ closer["bye"] \in {"over", "raised"} => row.ended \/ "bye" \in lost

\* A running pipeline has somebody who will cancel it: greet is yet to return and create the
\* watchdogs, or the watchdog of the duration waits or is ending the call, or the handler of
\* the disconnect is about to; unless greet or that watchdog died of an exception.
TaskHasStopper ==
  task = "running" =>
    \/ connected \in {"greeting", "raised"}
    \/ closer["duration"] \in {"sleeping", "try0", "try1", "cancelling", "raised"}
    \/ closer["bye"] = "cancelling"

\* A call that holds its slot has somebody who will end it, through all cancellations; unless
\* the last of them had its requests lost, or greet raised and the caller is still there.
SlotHasCloser ==
  bot = "running" /\ ~row.ended =>
    \/ connected = "greeting"
    \/ closer["bye"] \in {"cancelling", "interrupting", "try0", "try1"}
    \/ "bye" \in lost
    \/ /\ closer["bye"] = "none"
       /\ \/ connected = "raised"
          \/ closer["duration"] \in {"sleeping", "try0", "try1"}
          \/ "duration" \in lost

AgentInv == TypeOK /\ ConnectionInv /\ ByeInv /\ TaskHasStopper /\ SlotHasCloser

-----------------------------------------------------------------------------
LEMMA InitAgentInv == Init => AgentInv
<1> SUFFICES ASSUME Init PROVE AgentInv
  OBVIOUS
<1>1. TypeOK
  <2>1. quiet \in 0..Silence
    BY SilenceAssumption DEF Init
  <2>2. closer \in [Closer -> CloserPhase]
    BY DEF Init, CloserPhase
  <2>3. QED
    BY <2>1, <2>2 DEF Init, NoRow, TypeOK, BotPhase
<1>2. ConnectionInv
  BY DEF Init, NoRow, ConnectionInv, Closer
<1>3. ByeInv /\ TaskHasStopper /\ SlotHasCloser
  BY DEF Init, ByeInv, TaskHasStopper, SlotHasCloser, Closer
<1>4. QED
  BY <1>1, <1>2, <1>3 DEF AgentInv

LEMMA Closers == \A c : c \in Closer <=> c \in Watchdog \/ c = "bye"
  BY DEF Closer

LEMMA Posted ==
  ASSUME NEW c \in Closer, NEW others \in [Closer -> CloserPhase], NEW try \in {"try0", "try1"},
         net \subseteq Closer, Post(c, try, others)
  PROVE  /\ closer' \in [Closer -> CloserPhase] /\ net' \subseteq Closer /\ net' \subseteq net \cup {c}
         /\ closer'[c] = try /\ \A d \in Closer \ {c} : closer'[d] = others[d]
  BY DEF Post, CloserPhase

LEMMA AfterCloseIs == \A c \in Closer : AfterClose(c) \in {"cancelling", "over"}
                                        /\ (c \in Watchdog <=> AfterClose(c) = "cancelling")
  BY DEF AfterClose

LEMMA NextTypeOK == TypeOK /\ [Next]_vars => TypeOK'
<1> SUFFICES ASSUME TypeOK, [Next]_vars PROVE TypeOK'
  OBVIOUS
<1> USE SilenceAssumption DEF TypeOK
<1>1. CASE Consume
  BY <1>1 DEF Consume, BotPhase, talk
<1>2. CASE Redeemed
  BY <1>2 DEF Redeemed, BotPhase, talk
<1>3. CASE Run
  BY <1>3 DEF Run, BotPhase, talk
<1>4. CASE Greeted
  BY <1>4 DEF Greeted, CloserPhase
<1>5. CASE GreetRaises
  BY <1>5 DEF GreetRaises, talk
<1>6. ASSUME NEW c \in Closer, Timeout(c) PROVE TypeOK'
  <2>1. CASE closer[c] = "try0"
    BY <1>6, <2>1, Posted DEF Timeout, talk
  <2>2. CASE closer[c] # "try0"
    BY <1>6, <2>2, AfterCloseIs DEF Timeout, talk, CloserPhase
  <2>3. QED
    BY <2>1, <2>2
<1>7. ASSUME NEW c \in Closer, PostRaises(c) PROVE TypeOK'
  BY <1>7 DEF PostRaises, talk, CloserPhase
<1>8. ASSUME NEW w \in Watchdog, CancelTask(w) PROVE TypeOK'
  BY <1>8 DEF CancelTask, Stopped, talk, CloserPhase
<1>9. CASE DurationElapses
  BY <1>9, Posted DEF DurationElapses, talk, Closer, Watchdog
<1>10. CASE InactivityElapses
  BY <1>10, Posted DEF InactivityElapses, talk, Closer, Watchdog
<1>11. CASE ByeCancels
  <2>1. CASE closer' = [closer EXCEPT !["bye"] = "interrupting"] /\ UNCHANGED net
    BY <1>11, <2>1 DEF ByeCancels, Stopped, talk, CloserPhase
  <2>2. CASE Post("bye", "try0", closer)
    BY <1>11, <2>2, Posted, Closers DEF ByeCancels, Stopped, talk
  <2>3. QED
    BY <1>11, <2>1, <2>2 DEF ByeCancels
<1>12. CASE ByeMarksInterrupted
  BY <1>12, Posted, Closers DEF ByeMarksInterrupted, ByeCloses, talk
<1>13. CASE Reject
  BY <1>13 DEF Reject, BotPhase, talk
<1>14. CASE Disconnected
  BY <1>14 DEF Disconnected, Cancelled, talk, CloserPhase
<1>15. CASE PipelineEnds
  BY <1>15 DEF PipelineEnds, Stopped, talk
<1>16. ASSUME NEW c \in Closer, End(c) PROVE TypeOK'
  BY <1>16, AfterCloseIs DEF End, Ended, talk, CloserPhase
<1>17. CASE Conversation
  <2>1. UNCHANGED Rest
    BY <1>17 DEF Conversation, CallerSpeaks, BotSpeaks, TurnDies, CooldownPasses, Tick
  <2>2. turn' \in {"none", "bot", "caller", "dead"} /\ cooling' \in BOOLEAN
    BY <1>17 DEF Conversation, CallerSpeaks, BotSpeaks, TurnDies, CooldownPasses, Tick
  <2>3. quiet' \in 0..Silence
    <3>1. quiet' \in {0, quiet} \/ (quiet < Silence /\ quiet' = quiet + 1)
      BY <1>17 DEF Conversation, CallerSpeaks, BotSpeaks, TurnDies, CooldownPasses, Tick
    <3>2. QED
      BY <3>1
  <2>4. QED
    BY <2>1, <2>2, <2>3 DEF Rest
<1>18. CASE UNCHANGED vars
  BY <1>18 DEF vars
<1>19. QED
  BY <1>1, <1>2, <1>3, <1>4, <1>5, <1>6, <1>7, <1>8, <1>9, <1>10, <1>11, <1>12, <1>13, <1>14,
     <1>15, <1>16, <1>17, <1>18 DEF Next, Coroutines, Environment

LEMMA NextAgentInv == AgentInv /\ [Next]_vars => AgentInv'
<1> SUFFICES ASSUME AgentInv, [Next]_vars PROVE (ConnectionInv /\ ByeInv /\ TaskHasStopper /\ SlotHasCloser)'
  BY NextTypeOK DEF AgentInv
<1>0. TypeOK
  BY DEF AgentInv
<1> DEFINE Parts == ConnectionInv /\ ByeInv /\ TaskHasStopper /\ SlotHasCloser
<1> USE DEF AgentInv, ConnectionInv, ByeInv, TaskHasStopper, SlotHasCloser
<1>1. CASE Consume
  BY <1>1 DEF Consume
<1>2. CASE Redeemed
  BY <1>0, <1>2 DEF Redeemed, TypeOK
<1>3. CASE Run
  BY <1>3 DEF Run, Built, Closer
<1>4. CASE Greeted
  BY <1>0, <1>4 DEF Greeted, TypeOK, CloserPhase, Closer, Watchdog
<1>5. CASE GreetRaises
  BY <1>0, <1>5 DEF GreetRaises, TypeOK, CloserPhase, Closer, Watchdog
<1>6. ASSUME NEW c \in Closer, Timeout(c) PROVE Parts'
  <2>0. bot = "running" /\ closer \in [Closer -> CloserPhase] /\ net \subseteq Closer
    BY <1>0, <1>6 DEF Timeout, Posting, TypeOK
  <2>1. CASE closer[c] = "try0"
    BY <1>6, <2>0, <2>1, Posted, Closers DEF Timeout, Watchdog
  <2>2. CASE closer[c] # "try0"
    BY <1>6, <2>0, <2>2, ZenonT(30) DEF Timeout, Posting, AfterClose, Closer, Watchdog
  <2>3. QED
    BY <2>1, <2>2
<1>7. ASSUME NEW c \in Closer, PostRaises(c) PROVE Parts'
  BY <1>0, <1>7 DEF PostRaises, Posting, TypeOK, Closer, Watchdog
<1>8. ASSUME NEW w \in Watchdog, CancelTask(w) PROVE Parts'
  BY <1>0, <1>8 DEF CancelTask, Stopped, TypeOK, Closer, Watchdog
<1>9. CASE DurationElapses
  BY <1>0, <1>9, Posted, Closers DEF DurationElapses, TypeOK, Watchdog
<1>10. CASE InactivityElapses
  BY <1>0, <1>10, Posted, Closers DEF InactivityElapses, TypeOK, Watchdog
<1>11. CASE ByeCancels
  <2>1. CASE closer' = [closer EXCEPT !["bye"] = "interrupting"] /\ UNCHANGED net
    BY <1>0, <1>11, <2>1 DEF ByeCancels, Stopped, TypeOK, Closer, Watchdog
  <2>2. CASE Post("bye", "try0", closer)
    BY <1>0, <1>11, <2>2, Posted, Closers DEF ByeCancels, Stopped, TypeOK, Watchdog
  <2>3. QED
    BY <1>11, <2>1, <2>2 DEF ByeCancels
<1>12. CASE ByeMarksInterrupted
  BY <1>0, <1>12, Posted, Closers DEF ByeMarksInterrupted, ByeCloses, TypeOK, Watchdog
<1>13. CASE Reject
  BY <1>13 DEF Reject
<1>14. CASE Disconnected
  BY <1>0, <1>14 DEF Disconnected, Cancelled, TypeOK, Closer, Watchdog
<1>15. CASE PipelineEnds
  BY <1>0, <1>15 DEF PipelineEnds, Stopped, TypeOK
<1>16. ASSUME NEW c \in Closer, End(c) PROVE Parts'
  <2>1. row'.ended /\ bot = "running" /\ bot' = bot
    BY <1>0, <1>16 DEF End, Ended, TypeOK
  <2>2. CASE closer' = closer
    BY <1>16, <2>1, <2>2 DEF End
  <2>3. CASE Posting(c) /\ closer' = [closer EXCEPT ![c] = AfterClose(c)]
    BY <1>0, <1>16, <2>1, <2>3 DEF End, Posting, AfterClose, TypeOK, Closer, Watchdog
  <2>4. QED
    BY <1>16, <2>2, <2>3 DEF End
<1>17. CASE Conversation
  <2>1. UNCHANGED Rest
    BY <1>17 DEF Conversation, CallerSpeaks, BotSpeaks, TurnDies, CooldownPasses, Tick
  <2>2. QED
    BY <2>1 DEF Rest
<1>18. CASE UNCHANGED vars
  BY <1>18 DEF vars
<1>19. QED
  BY <1>1, <1>2, <1>3, <1>4, <1>5, <1>6, <1>7, <1>8, <1>9, <1>10, <1>11, <1>12, <1>13, <1>14,
     <1>15, <1>16, <1>17, <1>18 DEF Next, Coroutines, Environment

THEOREM Invariant == Spec => []AgentInv
  BY InitAgentInv, NextAgentInv, PTL DEF Spec

\* The values every variable takes.
THEOREM TypeCorrect == Spec => []TypeOK
<1>1. AgentInv => TypeOK
  BY DEF AgentInv
<1>2. QED
  BY <1>1, Invariant, PTL

\* No cancellation leaves a running pipeline without somebody who will stop it.
THEOREM PipelineIsStopped == Spec => []TaskHasStopper
<1>1. AgentInv => TaskHasStopper
  BY DEF AgentInv
<1>2. QED
  BY <1>1, Invariant, PTL

\* No cancellation leaves a call that holds its slot without somebody who will end it: the
\* handler of the disconnect cancels the watchdogs and takes over from them.
THEOREM SlotIsClosed == Spec => []SlotHasCloser
<1>1. AgentInv => SlotHasCloser
  BY DEF AgentInv
<1>2. QED
  BY <1>1, Invariant, PTL

-----------------------------------------------------------------------------
(***************************************************************************)
(* The refinement of VoiceSession, step by step.                           *)
(***************************************************************************)

\* A step that leaves the call's row, how far bot() is and the phase as they are is invisible.
LEMMA Invisible ==
  ASSUME row' = row, bot' = bot, Phase' = Phase
  PROVE  UNCHANGED Admission!vars
  BY DEF Admission!vars

LEMMA ConsumeClaims ==
  ASSUME AgentInv, Consume
  PROVE  Admission!ClaimToken("connection", "token")
<1>1. Phase = "closed" /\ Phase' = "claimed" /\ bot = "waiting" /\ bot' = "consuming" /\ row' = row
  BY DEF Consume, Phase
<1>2. QED
  BY <1>1 DEF Admission!ClaimToken, Admission!Consumable, Admission!Claimed

LEMMA RedeemedCommits ==
  ASSUME AgentInv, Redeemed
  PROVE  Admission!CommitConsume("connection")
<1>1. /\ bot = "consuming" /\ bot' \in {"redeemed", "failed"}
      /\ row.ended = FALSE /\ row' = [row EXCEPT !.status = "ACTIVE"]
      /\ row'.status = "ACTIVE" /\ row'.ended = FALSE
  BY DEF Redeemed, AgentInv, ConnectionInv, TypeOK
<1>2. Phase = "claimed" /\ (bot' = "redeemed" => Phase' = "live") /\ (bot' = "failed" => Phase' = "closed")
  <2>1. ~Begun'
    BY DEF Redeemed, AgentInv, ConnectionInv, Begun
  <2>2. QED
    BY <1>1, <2>1 DEF Phase
<1>3. QED
  BY <1>1, <1>2 DEF Admission!CommitConsume, Admission!Slips, Admission!Closed

LEMMA RejectCrashes ==
  ASSUME AgentInv, Reject
  PROVE  Admission!AgentCrash("connection")
<1>1. bot = "redeemed" /\ bot' = "rejected" /\ row' = row /\ ~row.ended /\ ~Begun
  BY DEF Reject, AgentInv, ConnectionInv, Begun
<1>2. Phase = "live" /\ Phase' = "closed"
  BY <1>1 DEF Phase
<1>3. QED
  BY <1>1, <1>2 DEF Admission!AgentCrash, Admission!Closed

\* The first coroutine to send a request is what VoiceSession calls a disconnect.
LEMMA BeginsToClose ==
  ASSUME row' = row, bot' = bot, bot = "running", Begun'
  PROVE  Admission!Disconnect("connection") \/ UNCHANGED Admission!vars
<1>1. CASE ~row.ended /\ ~Begun
  <2>1. Phase = "live" /\ Phase' = "closing"
    BY <1>1 DEF Phase
  <2>2. QED
    BY <2>1 DEF Admission!Disconnect
<1>2. CASE row.ended \/ Begun
  <2>1. Phase' = Phase
    BY <1>2 DEF Phase
  <2>2. QED
    BY <2>1, Invisible
<1>3. QED
  BY <1>1, <1>2

LEMMA EndCloses ==
  ASSUME AgentInv, NEW c \in Closer, End(c)
  PROVE  Admission!CloseCall("connection") \/ UNCHANGED Admission!vars
<1>1. bot = "running" /\ bot' = bot /\ Begun /\ row' = Ended(row)
  BY DEF End, AgentInv, ConnectionInv, Begun
<1>2. CASE row.ended
  <2>1. row' = row /\ Phase' = Phase
    BY <1>1, <1>2 DEF Ended, Phase
  <2>2. QED
    BY <1>1, <2>1, Invisible
<1>3. CASE ~row.ended
  <2>1. row' = [status |-> "DISCONNECTED", ended |-> TRUE]
    BY <1>1, <1>3 DEF Ended
  <2>2. Phase = "closing" /\ Phase' = "closed"
    BY <1>1, <1>3, <2>1 DEF Phase
  <2>3. Admission!Ended([status |-> row.status, ended |-> row.ended, stale |-> FALSE], "DISCONNECTED")
          = [status |-> "DISCONNECTED", ended |-> TRUE, stale |-> FALSE]
    BY <1>3 DEF Admission!Ended
  <2> DEFINE calls == [sid \in {"call"} |->
                         [status |-> row.status, ended |-> row.ended, stale |-> FALSE]]
  <2>4. calls' = [calls EXCEPT !["call"] = Admission!Ended(@, "DISCONNECTED")]
    BY <2>1, <2>3
  <2>5. QED
    BY <1>1, <2>2, <2>4 DEF Admission!CloseCall, Admission!Closed
<1>4. QED
  BY <1>2, <1>3

LEMMA StepMaps ==
  ASSUME AgentInv, [Next]_vars
  PROVE  [Admission!Next]_(Admission!vars)
<1>0. TypeOK
  BY DEF AgentInv
<1>1. SUFFICES Admission!Connection("connection") \/ Admission!AgentCrash("connection")
               \/ UNCHANGED Admission!vars
  BY DEF Admission!Next
<1>2. CASE Consume
  BY <1>2, ConsumeClaims DEF Admission!Connection
<1>3. CASE Redeemed
  BY <1>3, RedeemedCommits DEF Admission!Connection
<1>4. CASE Reject
  BY <1>4, RejectCrashes
<1>5. CASE Run
  <2>1. bot = "redeemed" /\ bot' = "running" /\ row' = row /\ ~row.ended /\ ~Begun /\ ~Begun'
    BY <1>5 DEF Run, Built, AgentInv, ConnectionInv, Begun
  <2>2. Phase' = Phase
    BY <2>1 DEF Phase
  <2>3. QED
    BY <2>1, <2>2 DEF Admission!vars
<1>6. CASE Greeted
  <2>1. Begun' <=> Begun
    BY <1>0, <1>6 DEF Greeted, AgentInv, ConnectionInv, TypeOK, Begun, Closer
  <2>2. row' = row /\ bot' = bot
    BY <1>6 DEF Greeted
  <2>3. Phase' = Phase
    BY <2>1, <2>2 DEF Phase
  <2>4. QED
    BY <2>2, <2>3, Invisible
<1>7. ASSUME row' = row, bot' = bot, closer' = closer
      PROVE  UNCHANGED Admission!vars
  BY <1>7, Invisible DEF Phase, Begun
<1>8. CASE GreetRaises \/ PipelineEnds \/ Conversation \/ UNCHANGED vars
  <2>1. row' = row /\ bot' = bot /\ closer' = closer
    BY <1>8 DEF GreetRaises, PipelineEnds, Conversation, CallerSpeaks, BotSpeaks, TurnDies,
                CooldownPasses, Tick, Rest, vars
  <2>2. QED
    BY <1>7, <2>1
<1>9. ASSUME NEW c \in Closer, row' = row, bot' = bot,
             closer[c] \notin {"none", "sleeping"} \/ bot = "running",
             closer'[c] \notin {"none", "sleeping"}
      PROVE  Admission!Connection("connection") \/ UNCHANGED Admission!vars
  <2>1. bot = "running" /\ Begun'
    BY <1>9 DEF Begun, AgentInv, ConnectionInv
  <2>2. QED
    BY <1>9, <2>1, BeginsToClose DEF Admission!Connection
<1>10. ASSUME NEW c \in Closer, Timeout(c) \/ PostRaises(c)
       PROVE  Admission!Connection("connection") \/ UNCHANGED Admission!vars
  BY <1>0, <1>9, <1>10, AfterCloseIs DEF Timeout, PostRaises, Posting, Post, TypeOK
<1>11. ASSUME NEW w \in Watchdog, CancelTask(w)
       PROVE  Admission!Connection("connection") \/ UNCHANGED Admission!vars
  BY <1>0, <1>9, <1>11 DEF CancelTask, TypeOK, Closer
<1>12. ASSUME NEW c \in Watchdog, closer[c] = "sleeping", Post(c, "try0", closer), row' = row, bot' = bot
       PROVE  Admission!Connection("connection") \/ UNCHANGED Admission!vars
  <2>1. bot = "running" /\ closer'[c] = "try0"
    BY <1>0, <1>12 DEF Post, TypeOK, AgentInv, ConnectionInv, Closer
  <2>2. QED
    BY <1>9, <1>12, <2>1 DEF Closer
<1>13. CASE DurationElapses \/ InactivityElapses
  BY <1>12, <1>13 DEF DurationElapses, InactivityElapses, Watchdog
<1>14. CASE ByeCancels \/ ByeMarksInterrupted \/ Disconnected
  <2>1. /\ row' = row /\ bot' = bot
        /\ closer["bye"] \notin {"none", "sleeping"} \/ bot = "running"
        /\ closer'["bye"] \notin {"none", "sleeping"}
    BY <1>0, <1>14 DEF ByeCancels, ByeMarksInterrupted, ByeCloses, Disconnected, Cancelled, Post, TypeOK, Closer
  <2>2. QED
    BY <1>9, <2>1, Closers
<1>15. ASSUME NEW c \in Closer, End(c)
       PROVE  Admission!Connection("connection") \/ UNCHANGED Admission!vars
  BY <1>15, EndCloses DEF Admission!Connection
<1>16. QED
  BY <1>2, <1>3, <1>4, <1>5, <1>6, <1>8, <1>10, <1>11, <1>13, <1>14, <1>15
  DEF Next, Coroutines, Environment

\* Every interleaving of bot(), its handlers, its watchdogs and late requests does to the
\* call and its token what one connection of VoiceSession does, or nothing.
THEOREM ConnectionImplements == Spec => ConnectionSteps
  BY Invariant, StepMaps, PTL DEF Spec, ConnectionSteps

=============================================================================
