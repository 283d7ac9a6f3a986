---------------------------- MODULE VoiceSession ----------------------------
(***************************************************************************)
(* Admission and life of a phone call: the Twilio webhook                  *)
(* (app/api/telephony.py), the one-use voice-session tokens                *)
(* (app/services/voice_session_service.py), the call rows                  *)
(* (app/services/call_service.py) and the agent's connection that redeems  *)
(* a token and ends the call (bot in app/agent/pipeline.py).               *)
(*                                                                         *)
(* A step is one database statement, or a group of statements no other     *)
(* transaction can separate, under READ COMMITTED: the webhook counts the  *)
(* ACTIVE calls in one statement and the live tokens in another.           *)
(*                                                                         *)
(* Time is abstract: tokens expire and leave the rate-limit window, calls  *)
(* grow older than twice the maximum duration.  A token or a call that no  *)
(* query can find any more (dead and old; ended) gives its place to the    *)
(* next one, so that callers may keep calling.                             *)
(***************************************************************************)
EXTENDS Integers, FiniteSets

CONSTANTS
  Sid,            \* CallSids: places for calls
  Token,          \* places for rows of voice_session_token
  Number,         \* phone numbers
  From,           \* From[sid]: the caller's number
  Hook,           \* webhook requests handled at the same time
  Conn,           \* WebSocket connections to the agent
  MaxConcurrentCalls,          \* settings.max_concurrent_calls
  MaxCallsPerNumberPerMinute   \* settings.max_calls_per_number_per_minute

ASSUME FromAssumption == From \in [Sid -> Number]
ASSUME PlacesAssumption ==
  IsFiniteSet(Sid) /\ IsFiniteSet(Token) /\ "none" \notin Sid /\ "none" \notin Token
ASSUME LimitsAssumption ==
  MaxConcurrentCalls \in Nat /\ MaxCallsPerNumberPerMinute \in Nat

VARIABLES
  token,   \* token[t]: the row, with expires_at and issued_at against the clock
  call,    \* call[sid]: the row of provider_call_id sid
  hook,    \* hook[h]: the webhook transaction of h, and the count it has read
  conn     \* conn[k]: what connection k does, with the token it presented

\* history: what the two gaps of admission have let through; no action looks at it
VARIABLES
  slipped,  \* ACTIVE calls whose token neither count of a webhook saw
  late      \* CallSids that were given a token after they had been connected

vars == <<token, call, hook, conn, slipped, late>>

-----------------------------------------------------------------------------
NoToken == [sid |-> "none", consumed |-> TRUE, expired |-> TRUE, recent |-> FALSE]
TokenRow == [sid : Sid \cup {"none"}, consumed : BOOLEAN, expired : BOOLEAN, recent : BOOLEAN]

CallStatus == {"NONE", "ACTIVE", "DISCONNECTED", "FAILED"}
NoCall == [status |-> "NONE", ended |-> FALSE, stale |-> FALSE]
CallRow == [status : CallStatus, ended : BOOLEAN, stale : BOOLEAN]

HookState == [phase : {"idle", "counted", "admitted"}, sid : Sid \cup {"none"},
              active : 0..Cardinality(Sid)]
IdleHook == [phase |-> "idle", sid |-> "none", active |-> 0]

\* "claimed": the consume transaction has updated the token and not committed
ConnState == [phase : {"closed", "claimed", "live", "closing"}, token : Token \cup {"none"}]
Closed == [phase |-> "closed", token |-> "none"]

Active == {sid \in Sid : call[sid].status = "ACTIVE"}
\* unconsumed and unexpired: a slot for a call that has not connected yet
Reserved == {t \in Token : ~token[t].consumed /\ ~token[t].expired}
Claimed(t) == \E k \in Conn : conn[k] = [phase |-> "claimed", token |-> t]
Connected(sid) ==
  \E k \in Conn : conn[k].phase \in {"live", "closing"} /\ token[conn[k].token].sid = sid

Init ==
  /\ token = [t \in Token |-> NoToken]
  /\ call = [sid \in Sid |-> NoCall]
  /\ hook = [h \in Hook |-> IdleHook]
  /\ conn = [k \in Conn |-> Closed]
  /\ slipped = {} /\ late = {}

-----------------------------------------------------------------------------
(***************************************************************************)
(* The webhook, serialised by pg_advisory_xact_lock.                       *)
(***************************************************************************)
UnlockedAlways == TRUE  \* mutant: no advisory lock
Unlocked == \A h \in Hook : hook[h].phase = "idle"

\* a place for the token this webhook may mint
FreeToken(t) ==
  /\ token[t].consumed \/ token[t].expired
  /\ ~token[t].recent
  /\ \A k \in Conn : conn[k].token # t

\* end_call: UPDATE ... WHERE ended_at IS NULL
EndedOverwrites(row, status) == [row EXCEPT !.status = status, !.ended = TRUE]  \* mutant
\* mutant: a status outside ck_call_status_enum
EndedTimedOut(row, status) == [row EXCEPT !.status = "TIMED_OUT", !.ended = TRUE]
Ended(row, status) ==
  IF row.ended THEN row ELSE [row EXCEPT !.status = status, !.ended = TRUE]

\* at_concurrency_ceiling: force-end the stale ACTIVE calls, count those that remain
HealNothing == call  \* mutant: no self-heal
Healed == [sid \in Sid |-> IF call[sid].status = "ACTIVE" /\ call[sid].stale
                             THEN Ended(call[sid], "FAILED") ELSE call[sid]]

CountActive(h, sid) ==
  /\ hook[h].phase = "idle"
  /\ Unlocked
  /\ \E t \in Token : FreeToken(t)
  /\ call' = Healed
  /\ slipped' = slipped \cap Active'
  /\ hook' = [hook EXCEPT ![h] = [phase |-> "counted", sid |-> sid,
                                  active |-> Cardinality({c \in Sid : Healed[c].status = "ACTIVE"})]]
  /\ UNCHANGED <<token, conn, late>>

\* the tokens of a number issued within the last minute
Recent(number) == {t \in Token : token[t].recent /\ From[token[t].sid] = number}
RateLimited(number) == Cardinality(Recent(number)) >= MaxCallsPerNumberPerMinute

\* ... count the live tokens, then rate_limited; a refused webhook is over
Decide(h) ==
  LET refused == \/ hook[h].active + Cardinality(Reserved) >= MaxConcurrentCalls
                 \/ RateLimited(From[hook[h].sid])
  IN
  /\ hook[h].phase = "counted"
  /\ hook' = [hook EXCEPT ![h] = IF refused THEN IdleHook ELSE [@ EXCEPT !.phase = "admitted"]]
  /\ UNCHANGED <<token, call, conn, slipped, late>>

\* mint_token first kills the unconsumed tokens of the CallSid
InvalidateNone(sid) == token  \* mutant
Invalidated(sid) ==
  [t \in Token |-> IF token[t].sid = sid THEN [token[t] EXCEPT !.consumed = TRUE] ELSE token[t]]

Mint(h) ==
  LET sid == hook[h].sid IN
  /\ hook[h].phase = "admitted"
  /\ \A t \in Token : token[t].sid = sid => ~Claimed(t)
  /\ \E t \in Token :
       /\ FreeToken(t)
       /\ token' = [Invalidated(sid) EXCEPT
                      ![t] = [sid |-> sid, consumed |-> FALSE, expired |-> FALSE, recent |-> TRUE]]
  /\ hook' = [hook EXCEPT ![h] = IdleHook]
  /\ late' = late \cup IF call[sid].status = "NONE" THEN {} ELSE {sid}
  /\ UNCHANGED <<call, conn, slipped>>

-----------------------------------------------------------------------------
(***************************************************************************)
(* /telephony/session/consume: redeem the token, make the call ACTIVE,     *)
(* commit.  The token's row is locked from the first step to the second.   *)
(***************************************************************************)
Consumable(t) == ~token[t].consumed /\ ~token[t].expired

ClaimToken(k, t) ==
  /\ conn[k].phase = "closed"
  /\ token[t].sid # "none"
  /\ Consumable(t) /\ ~Claimed(t)
  /\ conn' = [conn EXCEPT ![k] = [phase |-> "claimed", token |-> t]]
  /\ UNCHANGED <<token, call, hook, slipped, late>>

\* A redemption slips past a webhook that has counted the ACTIVE calls and not yet the tokens;
\* one whose token has expired since it was claimed, past every webhook of that time.
Slips(t) == token[t].expired \/ \E h \in Hook : hook[h].phase = "counted"

\* ingest_call inserts the row or finds it; set_status makes it ACTIVE either way.
\* The agent may never see the response, and then serves nobody.
CommitConsume(k) ==
  LET t == conn[k].token
      sid == token[t].sid
  IN
  /\ conn[k].phase = "claimed"
  /\ token' = [token EXCEPT ![t].consumed = TRUE]
  /\ call' = [call EXCEPT ![sid].status = "ACTIVE"]
  /\ \/ conn' = [conn EXCEPT ![k].phase = "live"]
     \/ conn' = [conn EXCEPT ![k] = Closed]
  /\ slipped' = IF Slips(t) THEN slipped \cup {sid} ELSE slipped \ {sid}
  /\ UNCHANGED <<hook, late>>

\* the caller hangs up, or a watchdog ends the call
Disconnect(k) ==
  /\ conn[k].phase = "live"
  /\ conn' = [conn EXCEPT ![k].phase = "closing"]
  /\ UNCHANGED <<token, call, hook, slipped, late>>

\* close_call, by _on_disconnected or a watchdog
CloseCall(k) ==
  /\ conn[k].phase = "closing"
  /\ call' = [call EXCEPT ![token[conn[k].token].sid] = Ended(@, "DISCONNECTED")]
  /\ conn' = [conn EXCEPT ![k] = Closed]
  /\ slipped' = slipped \cap Active'
  /\ UNCHANGED <<token, hook, late>>

\* the agent process dies, or close_call fails twice: nobody ends the call.  A consume
\* transaction that was open rolls back.
AgentCrash(k) ==
  /\ conn[k].phase # "closed"
  /\ conn' = [conn EXCEPT ![k] = Closed]
  /\ UNCHANGED <<token, call, hook, slipped, late>>

-----------------------------------------------------------------------------
(***************************************************************************)
(* Time.                                                                   *)
(***************************************************************************)
TokenExpires(t) ==
  /\ token[t].sid # "none" /\ ~token[t].expired
  /\ token' = [token EXCEPT ![t].expired = TRUE]
  /\ UNCHANGED <<call, hook, conn, slipped, late>>

\* the token time-to-live is shorter than the rate-limit window
TokenAges(t) ==
  /\ token[t].recent /\ token[t].expired
  /\ token' = [token EXCEPT ![t].recent = FALSE]
  /\ UNCHANGED <<call, hook, conn, slipped, late>>

\* A call is older than twice its maximum duration.  It may still be connected: the
\* watchdogs are started only once greet has returned, and may fail to close the call.
CallAges(sid) ==
  /\ call[sid].status # "NONE" /\ ~call[sid].stale
  /\ call' = [call EXCEPT ![sid].stale = TRUE]
  /\ UNCHANGED <<token, hook, conn, slipped, late>>

\* a new CallSid takes the place of one that is over
NewCallSid(sid) ==
  /\ call[sid].ended /\ call[sid].status # "ACTIVE"
  /\ ~Connected(sid)
  /\ \A t \in Token : token[t].sid = sid => token[t].expired
  /\ \A h \in Hook : hook[h].sid # sid
  /\ call' = [call EXCEPT ![sid] = NoCall]
  /\ late' = late \ {sid}
  /\ UNCHANGED <<token, hook, conn, slipped>>

-----------------------------------------------------------------------------
Webhook(h) == (\E sid \in Sid : CountActive(h, sid)) \/ Decide(h) \/ Mint(h)
Connection(k) ==
  (\E t \in Token : ClaimToken(k, t)) \/ CommitConsume(k) \/ Disconnect(k) \/ CloseCall(k)
TimePasses ==
  \/ \E t \in Token : TokenExpires(t) \/ TokenAges(t)
  \/ \E sid \in Sid : CallAges(sid) \/ NewCallSid(sid)

Next ==
  \/ \E h \in Hook : Webhook(h)
  \/ \E k \in Conn : Connection(k) \/ AgentCrash(k)
  \/ TimePasses

Spec == Init /\ [][Next]_vars

(***************************************************************************)
(* Time passes for everyone, started transactions end, calls end (the      *)
(* watchdogs), and people keep calling: the self-heal runs only when a     *)
(* webhook arrives.                                                        *)
(***************************************************************************)
Fairness ==
  /\ \A t \in Token : WF_vars(TokenExpires(t)) /\ WF_vars(TokenAges(t))
  /\ \A sid \in Sid : WF_vars(CallAges(sid)) /\ WF_vars(NewCallSid(sid))
  /\ \A h \in Hook : WF_vars(Decide(h) \/ Mint(h))
  /\ \A k \in Conn : WF_vars(CommitConsume(k) \/ Disconnect(k) \/ CloseCall(k))
  /\ SF_vars(\E h \in Hook, sid \in Sid : CountActive(h, sid))

FairSpec == Spec /\ Fairness
-----------------------------------------------------------------------------
(***************************************************************************)
(* Properties.                                                             *)
(***************************************************************************)

\* The values every variable takes.
TypeOK ==
  /\ token \in [Token -> TokenRow]
  /\ call \in [Sid -> CallRow]
  /\ hook \in [Hook -> HookState]
  /\ conn \in [Conn -> ConnState]
  /\ slipped \subseteq Active
  /\ late \subseteq Sid

\* Connected calls and reserved slots together stay within the ceiling, through bursts
\* of webhooks (_handle_twilio_voice's advisory lock; at_concurrency_ceiling), but for the
\* calls that slipped in (redeemed between a webhook's two counts, or after their token ran out).
CeilingRespected ==
  Cardinality(Active \ slipped) + Cardinality(Reserved) <= MaxConcurrentCalls

\* No number has more tokens issued within a minute than allowed, counting retries.
RateRespected ==
  \A n \in Number : Cardinality(Recent(n)) <= MaxCallsPerNumberPerMinute

\* A retried webhook leaves one unconsumed token per CallSid, so that the insert of
\* mint_token never meets the partial unique index.
OneLiveToken ==
  \A t, u \in Token : ~token[t].consumed /\ ~token[u].consumed /\ token[t].sid = token[u].sid
                        => t = u

\* A token opens one connection.
OneConnectionPerToken ==
  \A j, k \in Conn : conn[j].phase # "closed" /\ conn[k].phase # "closed"
                     /\ conn[j].token = conn[k].token => j = k

\* Of a webhook sent twice and a token presented twice, one connection remains.
TokensSingle == OneLiveToken /\ OneConnectionPerToken

\* The first terminal status of a call is final (end_call: "Whichever caller's UPDATE
\* commits first is the one true terminal state", call_service.py:125-126).
TerminalIsFinal ==
  [][\A sid \in Sid : call[sid].ended => call'[sid].status \in {call[sid].status, "NONE"}]_vars

\* Only a CallSid that was announced again after it had connected can be reopened: whatever else
\* happens in whatever order, its first terminal status stays.
TerminalUnlessLate ==
  [][\A sid \in Sid \ late :
       call[sid].ended => call'[sid].status \in {call[sid].status, "NONE"}]_vars

\* A call whose agent is gone does not hold its slot forever (at_concurrency_ceiling:
\* crashes do not lock out every future caller), unless it was reopened.
Leaked(sid) == call[sid].status = "ACTIVE" /\ ~Connected(sid) /\ sid \notin late
SlotsHeal == \A sid \in Sid : Leaked(sid) ~> ~Leaked(sid)

=============================================================================
