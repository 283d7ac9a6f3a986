------------------------- MODULE VoiceSessionProofs -------------------------
(***************************************************************************)
(* Proofs about VoiceSession, for any number of CallSids, tokens, webhooks *)
(* and connections and any limits.                                         *)
(*                                                                         *)
(* BaseInv, the inductive invariant of the first part, adds to the types   *)
(* who may do what: one webhook at a time holds the advisory lock, a       *)
(* connection that is not closed names a token of a real CallSid, the      *)
(* token of a claim is not consumed yet, and that of a live call is.       *)
(***************************************************************************)
EXTENDS VoiceSession, FiniteSetTheorems, TLAPS

Busy(h) == hook[h].phase # "idle"

HookInv ==
  /\ \A h \in Hook : Busy(h) => hook[h].sid \in Sid
  /\ \A g, h \in Hook : Busy(g) /\ Busy(h) => g = h

ConnInv ==
  \A k \in Conn : conn[k].phase # "closed" =>
    /\ conn[k].token \in Token
    /\ token[conn[k].token].sid \in Sid
    /\ token[conn[k].token].consumed <=> conn[k].phase # "claimed"

BaseInv == TypeOK /\ HookInv /\ ConnInv /\ TokensSingle

-----------------------------------------------------------------------------
LEMMA ActiveCount ==
  ASSUME NEW rows
  PROVE  Cardinality({c \in Sid : rows[c].status = "ACTIVE"}) \in 0..Cardinality(Sid)
<1> DEFINE A == {c \in Sid : rows[c].status = "ACTIVE"}
<1>1. A \subseteq Sid
  OBVIOUS
<1>2. Cardinality(A) <= Cardinality(Sid) /\ Cardinality(A) \in Nat /\ Cardinality(Sid) \in Nat
  BY <1>1, PlacesAssumption, FS_Subset, FS_CardinalityType
<1> QED
  BY <1>2

LEMMA InitBase == Init => BaseInv
<1> SUFFICES ASSUME Init PROVE BaseInv
  OBVIOUS
<1>1. 0 \in 0..Cardinality(Sid)
  BY PlacesAssumption, FS_CardinalityType
<1> QED
  BY <1>1 DEF Init, BaseInv, TypeOK, HookInv, ConnInv, TokensSingle, OneLiveToken,
              OneConnectionPerToken, Busy, Active, NoToken, TokenRow, NoCall, CallRow, CallStatus,
              IdleHook, HookState, Closed, ConnState

LEMMA EndedType ==
  ASSUME NEW row \in CallRow, NEW status \in CallStatus
  PROVE  Ended(row, status) \in CallRow
  BY DEF Ended, CallRow, CallStatus

\* The webhook's three steps.
LEMMA CountActiveBase ==
  ASSUME BaseInv, NEW h \in Hook, NEW sid \in Sid, CountActive(h, sid)
  PROVE  BaseInv'
<1> USE DEF BaseInv
<1>1. call' \in [Sid -> CallRow]
  BY EndedType DEF CountActive, Healed, TypeOK, CallStatus
<1>2. Cardinality({c \in Sid : Healed[c].status = "ACTIVE"}) \in 0..Cardinality(Sid)
  BY ActiveCount
<1>3. hook' \in [Hook -> HookState]
  BY <1>2 DEF CountActive, TypeOK, HookState
<1>4. HookInv'
  BY DEF CountActive, TypeOK, HookInv, Busy, Unlocked, HookState
<1>5. UNCHANGED <<token, conn, late>> /\ slipped' \subseteq Active'
  BY DEF CountActive
<1> QED
  BY <1>1, <1>3, <1>4, <1>5
     DEF TypeOK, ConnInv, TokensSingle, OneLiveToken, OneConnectionPerToken

LEMMA DecideBase ==
  ASSUME BaseInv, NEW h \in Hook, Decide(h)
  PROVE  BaseInv'
<1> USE DEF BaseInv
<1>1. UNCHANGED <<token, call, conn, slipped, late>> /\ Active' = Active
  BY DEF Decide, Active
<1>2. hook' \in [Hook -> HookState]
  <2>1. IdleHook \in HookState
    BY PlacesAssumption, FS_CardinalityType DEF IdleHook, HookState
  <2> QED
    BY <2>1 DEF Decide, TypeOK, HookState
<1>3. HookInv'
  BY DEF Decide, TypeOK, HookInv, Busy, HookState, IdleHook
<1> QED
  BY <1>1, <1>2, <1>3 DEF TypeOK, ConnInv, TokensSingle, OneLiveToken, OneConnectionPerToken

LEMMA MintBase ==
  ASSUME BaseInv, NEW h \in Hook, Mint(h)
  PROVE  BaseInv'
<1> USE DEF BaseInv
<1> DEFINE sid == hook[h].sid
<1>1. PICK t \in Token :
        /\ FreeToken(t)
        /\ token' = [Invalidated(sid) EXCEPT
             ![t] = [sid |-> sid, consumed |-> FALSE, expired |-> FALSE, recent |-> TRUE]]
  BY DEF Mint
<1>2. sid \in Sid
  BY DEF Mint, HookInv, Busy
<1>3. UNCHANGED <<call, conn, slipped>> /\ Active' = Active /\ late' \subseteq Sid
  BY <1>2 DEF Mint, Active, TypeOK
<1>4. token' \in [Token -> TokenRow]
  <2>1. Invalidated(sid) \in [Token -> TokenRow]
    BY DEF TypeOK, TokenRow, Invalidated
  <2>2. [sid |-> sid, consumed |-> FALSE, expired |-> FALSE, recent |-> TRUE] \in TokenRow
    BY <1>2 DEF TokenRow
  <2> QED
    BY <1>1, <2>1, <2>2
<1>5. hook' \in [Hook -> HookState]
  <2>1. IdleHook \in HookState
    BY PlacesAssumption, FS_CardinalityType DEF IdleHook, HookState
  <2> QED
    BY <2>1 DEF Mint, TypeOK
<1>6. HookInv'
  BY DEF Mint, TypeOK, HookInv, Busy, HookState, IdleHook
<1>7. ConnInv'
  <2> SUFFICES ASSUME NEW k \in Conn, conn[k].phase # "closed"
               PROVE  /\ conn[k].token \in Token
                      /\ token'[conn[k].token].sid \in Sid
                      /\ token'[conn[k].token].consumed <=> conn[k].phase # "claimed"
    BY <1>3 DEF ConnInv
  <2> DEFINE u == conn[k].token
  <2>1. u \in Token /\ u # t
    BY <1>1 DEF ConnInv, FreeToken
  <2>2. token'[u] = Invalidated(sid)[u]
    BY <1>1, <2>1 DEF Invalidated
  <2>3. CASE token[u].sid = sid
    <3>1. ~Claimed(u)
      BY <2>1, <2>3 DEF Mint
    <3>2. conn[k].phase # "claimed"
      BY <3>1 DEF Claimed, TypeOK, ConnState
    <3> QED
      BY <2>1, <2>2, <3>2 DEF ConnInv, Invalidated, TypeOK, TokenRow
  <2>4. CASE token[u].sid # sid
    BY <2>1, <2>2, <2>4 DEF ConnInv, Invalidated
  <2> QED
    BY <2>3, <2>4
<1>8. OneLiveToken'
  BY <1>1, <1>2 DEF OneLiveToken, TokensSingle, Invalidated, TypeOK, TokenRow
<1>9. OneConnectionPerToken'
  BY <1>3 DEF TokensSingle, OneConnectionPerToken
<1> QED
  BY <1>3, <1>4, <1>5, <1>6, <1>7, <1>8, <1>9 DEF TypeOK, TokensSingle

\* The connection's steps.
LEMMA ClaimBase ==
  ASSUME BaseInv, NEW k \in Conn, NEW t \in Token, ClaimToken(k, t)
  PROVE  BaseInv'
<1> USE DEF BaseInv
<1>1. UNCHANGED <<token, call, hook, slipped, late>> /\ Active' = Active
  BY DEF ClaimToken, Active
<1>2. conn' = [conn EXCEPT ![k] = [phase |-> "claimed", token |-> t]]
  BY DEF ClaimToken
<1>3. conn' \in [Conn -> ConnState]
  BY <1>2 DEF TypeOK, ConnState
<1>4. ConnInv'
  BY <1>1, <1>2 DEF ClaimToken, Consumable, ConnInv, TypeOK, TokenRow, ConnState
<1>5. \A j \in Conn : conn[j].phase # "closed" => conn[j].token # t
  <2> SUFFICES ASSUME NEW j \in Conn, conn[j].phase # "closed", conn[j].token = t
               PROVE  FALSE
    OBVIOUS
  <2>1. conn[j].phase = "claimed"
    BY DEF ConnInv, ClaimToken, Consumable
  <2>2. conn[j] = [phase |-> "claimed", token |-> t]
    BY <2>1 DEF TypeOK, ConnState
  <2> QED
    BY <2>2 DEF ClaimToken, Claimed
<1>6. OneConnectionPerToken'
  BY <1>2, <1>5 DEF TypeOK, ConnState, TokensSingle, OneConnectionPerToken
<1> QED
  BY <1>1, <1>3, <1>4, <1>6 DEF TypeOK, HookInv, Busy, TokensSingle, OneLiveToken

LEMMA CommitBase ==
  ASSUME BaseInv, NEW k \in Conn, CommitConsume(k)
  PROVE  BaseInv'
<1> USE DEF BaseInv
<1> DEFINE t == conn[k].token
           sid == token[t].sid
<1>1. t \in Token /\ sid \in Sid /\ conn[k].phase = "claimed"
  BY DEF CommitConsume, ConnInv
<1>2. token' = [token EXCEPT ![t].consumed = TRUE] /\ UNCHANGED hook
  BY DEF CommitConsume
<1>3. token' \in [Token -> TokenRow]
  BY <1>1, <1>2, ZenonT(30) DEF TypeOK, TokenRow
<1>4. call' \in [Sid -> CallRow]
  BY <1>1 DEF CommitConsume, TypeOK, CallRow, CallStatus
<1>5. conn' = [conn EXCEPT ![k].phase = "live"] \/ conn' = [conn EXCEPT ![k] = Closed]
  BY DEF CommitConsume
<1>5a. slipped' \subseteq Active' /\ UNCHANGED late
  <2>1. Active' = Active \cup {sid}
    BY <1>1 DEF CommitConsume, Active, TypeOK, CallRow
  <2> QED
    BY <2>1 DEF CommitConsume, TypeOK
<1>6. conn' \in [Conn -> ConnState]
  BY <1>5 DEF TypeOK, ConnState, Closed
<1>7. \A j \in Conn \ {k} : conn[j].phase # "closed" => conn[j].token # t
  BY <1>1 DEF TokensSingle, OneConnectionPerToken
<1>8. ConnInv'
  BY <1>1, <1>2, <1>5, <1>7 DEF ConnInv, TypeOK, ConnState, TokenRow, Closed
<1>9. OneConnectionPerToken'
  BY <1>1, <1>5, <1>7 DEF TokensSingle, OneConnectionPerToken, TypeOK, ConnState, Closed
<1>10. OneLiveToken'
  BY <1>1, <1>2 DEF TokensSingle, OneLiveToken, TypeOK, TokenRow
<1> QED
  BY <1>2, <1>3, <1>4, <1>5a, <1>6, <1>8, <1>9, <1>10 DEF TypeOK, HookInv, Busy, TokensSingle

LEMMA EndBase ==
  ASSUME BaseInv, NEW k \in Conn, Disconnect(k) \/ CloseCall(k) \/ AgentCrash(k)
  PROVE  BaseInv'
<1> USE DEF BaseInv
<1>1. UNCHANGED <<token, hook, late>> /\ slipped' \subseteq Active'
  BY DEF Disconnect, CloseCall, AgentCrash, TypeOK, Active
<1>2. \/ conn[k].phase = "live" /\ conn' = [conn EXCEPT ![k].phase = "closing"]
      \/ conn' = [conn EXCEPT ![k] = Closed]
  BY DEF Disconnect, CloseCall, AgentCrash
<1>3. call' \in [Sid -> CallRow]
  <2>1. CASE UNCHANGED call
    BY <2>1 DEF TypeOK
  <2>2. CASE CloseCall(k)
    <3> DEFINE sid == token[conn[k].token].sid
    <3>1. sid \in Sid
      BY <2>2 DEF CloseCall, ConnInv
    <3>2. Ended(call[sid], "DISCONNECTED") \in CallRow
      BY <3>1, EndedType DEF TypeOK, CallStatus
    <3> QED
      BY <2>2, <3>1, <3>2 DEF CloseCall, TypeOK
  <2> QED
    BY <2>1, <2>2 DEF Disconnect, AgentCrash
<1>4. conn' \in [Conn -> ConnState]
  BY <1>2 DEF TypeOK, ConnState, Closed
<1>5. ConnInv'
  BY <1>1, <1>2 DEF ConnInv, TypeOK, ConnState, TokenRow, Closed
<1>6. OneConnectionPerToken'
  BY <1>2 DEF TokensSingle, OneConnectionPerToken, TypeOK, ConnState, Closed
<1> QED
  BY <1>1, <1>3, <1>4, <1>5, <1>6 DEF TypeOK, HookInv, Busy, TokensSingle, OneLiveToken

\* Time.
LEMMA TimeBase ==
  ASSUME BaseInv, TimePasses
  PROVE  BaseInv'
<1> USE DEF BaseInv
<1>1. ASSUME NEW t \in Token, TokenExpires(t) \/ TokenAges(t) PROVE BaseInv'
  <2>1. token' = [token EXCEPT ![t].expired = TRUE] \/ token' = [token EXCEPT ![t].recent = FALSE]
    BY <1>1 DEF TokenExpires, TokenAges
  <2>1a. UNCHANGED <<call, hook, conn, slipped, late>> /\ Active' = Active
    BY <1>1 DEF TokenExpires, TokenAges, Active
  <2>2. token' \in [Token -> TokenRow]
    <3>1. ASSUME NEW u \in Token
          PROVE  /\ [token[u] EXCEPT !.expired = TRUE] \in TokenRow
                 /\ [token[u] EXCEPT !.recent = FALSE] \in TokenRow
      BY DEF TypeOK, TokenRow
    <3> QED
      BY <2>1, <3>1 DEF TypeOK
  <2>3. \A u \in Token : token'[u].sid = token[u].sid /\ token'[u].consumed = token[u].consumed
    <3>1. CASE token' = [token EXCEPT ![t].expired = TRUE]
      BY <3>1 DEF TypeOK, TokenRow
    <3>2. CASE token' = [token EXCEPT ![t].recent = FALSE]
      BY <3>2 DEF TypeOK, TokenRow
    <3> QED
      BY <2>1, <3>1, <3>2
  <2> QED
    BY <2>1a, <2>2, <2>3
       DEF TypeOK, HookInv, Busy, ConnInv, TokensSingle, OneLiveToken, OneConnectionPerToken
<1>3. ASSUME NEW sid \in Sid, CallAges(sid) \/ NewCallSid(sid) PROVE BaseInv'
  <2>1. UNCHANGED <<token, hook, conn, slipped>> /\ late' \subseteq Sid
    BY <1>3 DEF CallAges, NewCallSid, TypeOK
  <2>2. call' \in [Sid -> CallRow]
    <3>1. NoCall \in CallRow
      BY DEF NoCall, CallRow, CallStatus
    <3>2. CASE NewCallSid(sid)
      BY <3>1, <3>2 DEF NewCallSid, TypeOK
    <3>3. CASE CallAges(sid)
      BY <3>3 DEF CallAges, TypeOK, CallRow
    <3> QED
      BY <1>3, <3>2, <3>3
  <2>3. Active' = Active
    BY <1>3 DEF CallAges, NewCallSid, NoCall, Active, TypeOK, CallRow
  <2> QED
    BY <2>1, <2>2, <2>3
       DEF TypeOK, HookInv, Busy, ConnInv, TokensSingle, OneLiveToken, OneConnectionPerToken
<1> QED
  BY <1>1, <1>3 DEF TimePasses

LEMMA NextBase == BaseInv /\ [Next]_vars => BaseInv'
<1> SUFFICES ASSUME BaseInv, [Next]_vars PROVE BaseInv'
  OBVIOUS
<1>1. ASSUME NEW h \in Hook, Webhook(h) PROVE BaseInv'
  BY <1>1, CountActiveBase, DecideBase, MintBase DEF Webhook
<1>2. ASSUME NEW k \in Conn, Connection(k) \/ AgentCrash(k) PROVE BaseInv'
  BY <1>2, ClaimBase, CommitBase, EndBase DEF Connection
<1>3. CASE TimePasses
  BY <1>3, TimeBase
<1>4. CASE UNCHANGED vars
  BY <1>4 DEF vars, BaseInv, TypeOK, Active, HookInv, Busy, ConnInv, TokensSingle, OneLiveToken,
              OneConnectionPerToken
<1> QED
  BY <1>1, <1>2, <1>3, <1>4 DEF Next

LEMMA BaseInvariance == Spec => []BaseInv
<1> QED
  BY InitBase, NextBase, PTL DEF Spec

\* Every variable of the admission model keeps its type, for any limits and numbers of
\* calls, tokens, webhooks and connections.
THEOREM TypeCorrect == Spec => []TypeOK
<1>1. BaseInv => TypeOK
  BY DEF BaseInv
<1> QED
  BY <1>1, BaseInvariance, PTL

\* A webhook that is sent twice leaves one unconsumed token, and a token presented twice
\* opens one connection, also when tokens are redeemed while webhooks are being handled.
THEOREM TokensStaySingle == Spec => []TokensSingle
<1>1. BaseInv => TokensSingle
  BY DEF BaseInv
<1> QED
  BY <1>1, BaseInvariance, PTL

-----------------------------------------------------------------------------
(***************************************************************************)
(* The rate limit.  What a webhook has been promised must still be true    *)
(* when it mints: the number it admitted has a token to spare, because     *)
(* nobody else mints while it holds the lock.                              *)
(***************************************************************************)
RateInv ==
  /\ RateRespected
  /\ \A h \in Hook : hook[h].phase = "admitted" =>
       Cardinality(Recent(From[hook[h].sid])) < MaxCallsPerNumberPerMinute

LEMMA SmallerCount ==
  ASSUME NEW S, IsFiniteSet(S), NEW T \in SUBSET S
  PROVE  /\ IsFiniteSet(T) /\ Cardinality(T) \in Nat /\ Cardinality(S) \in Nat
         /\ Cardinality(T) <= Cardinality(S)
  BY FS_Subset, FS_CardinalityType

LEMMA OneMore ==
  ASSUME NEW S, IsFiniteSet(S), NEW x, NEW T \in SUBSET (S \cup {x})
  PROVE  /\ Cardinality(T) \in Nat /\ Cardinality(S) \in Nat
         /\ Cardinality(T) <= Cardinality(S) + 1
<1>1. Cardinality(S) \in Nat
  BY FS_CardinalityType
<1>2. IsFiniteSet(S \cup {x}) /\ Cardinality(S \cup {x}) <= Cardinality(S) + 1
  <2>1. CASE x \in S
    <3>1. S \cup {x} = S
      BY <2>1
    <3> QED
      BY <1>1, <3>1
  <2>2. CASE x \notin S
    <3>1. IsFiniteSet(S \cup {x}) /\ Cardinality(S \cup {x}) = Cardinality(S) + 1
      BY <2>2, FS_AddElement, Zenon
    <3> QED
      BY <1>1, <3>1
  <2> QED
    BY <2>1, <2>2
<1>3. /\ Cardinality(T) \in Nat /\ Cardinality(S \cup {x}) \in Nat
      /\ Cardinality(T) <= Cardinality(S \cup {x})
  BY <1>2, SmallerCount
<1> QED
  BY <1>1, <1>2, <1>3

\* A step that makes no token recent and admits no webhook keeps the limit.
LEMMA RateShrinks ==
  ASSUME RateInv,
         \A t \in Token : token'[t].recent => token[t].recent /\ token'[t].sid = token[t].sid,
         \A h \in Hook : hook'[h].phase = "admitted" => hook'[h] = hook[h]
  PROVE  RateInv'
<1>1. ASSUME NEW n
      PROVE  /\ Cardinality(Recent(n)') \in Nat /\ Cardinality(Recent(n)) \in Nat
             /\ Cardinality(Recent(n)') <= Cardinality(Recent(n))
  <2>1. Recent(n)' \subseteq Recent(n) /\ Recent(n) \subseteq Token
    BY DEF Recent
  <2> QED
    BY <2>1, PlacesAssumption, SmallerCount
<1>2. ASSUME NEW n \in Number PROVE Cardinality(Recent(n)') <= MaxCallsPerNumberPerMinute
  BY <1>1, LimitsAssumption DEF RateInv, RateRespected
<1>3. ASSUME NEW h \in Hook, hook'[h].phase = "admitted"
      PROVE  Cardinality(Recent(From[hook[h].sid]))' < MaxCallsPerNumberPerMinute
  <2>1. Cardinality(Recent(From[hook[h].sid])) < MaxCallsPerNumberPerMinute /\ hook'[h] = hook[h]
    BY <1>3 DEF RateInv
  <2>2. /\ Cardinality(Recent(From[hook[h].sid]))' \in Nat
        /\ Cardinality(Recent(From[hook[h].sid])) \in Nat
        /\ Cardinality(Recent(From[hook[h].sid]))' <= Cardinality(Recent(From[hook[h].sid]))
    <3>1. /\ Recent(From[hook[h].sid])' \subseteq Recent(From[hook[h].sid])
          /\ Recent(From[hook[h].sid]) \subseteq Token
      BY <2>1 DEF Recent
    <3> QED
      BY <3>1, PlacesAssumption, SmallerCount
  <2> QED
    BY <2>1, <2>2, LimitsAssumption
<1> QED
  BY <1>2, <1>3 DEF RateInv, RateRespected

LEMMA MintRate ==
  ASSUME BaseInv, RateInv, NEW h \in Hook, Mint(h)
  PROVE  RateInv'
<1> DEFINE sid == hook[h].sid
<1> USE DEF BaseInv
<1>1. PICK t \in Token :
        /\ FreeToken(t)
        /\ token' = [Invalidated(sid) EXCEPT
             ![t] = [sid |-> sid, consumed |-> FALSE, expired |-> FALSE, recent |-> TRUE]]
  BY DEF Mint
<1>2. hook' = [hook EXCEPT ![h] = IdleHook] /\ hook[h].phase = "admitted" /\ sid \in Sid
  BY DEF Mint, HookInv, Busy
<1>3. /\ token'[t].sid = sid
      /\ \A u \in Token \ {t} : token'[u].sid = token[u].sid /\ token'[u].recent = token[u].recent
  BY <1>1 DEF Invalidated, TypeOK, TokenRow
<1>4. \A g \in Hook : hook'[g].phase # "admitted"
  BY <1>2 DEF HookInv, Busy, TypeOK, HookState, IdleHook
<1>5. ASSUME NEW n \in Number
      PROVE  Cardinality(Recent(n)') <= MaxCallsPerNumberPerMinute
  <2>1. IsFiniteSet(Recent(n)) /\ Recent(n)' \subseteq Recent(n) \cup {t}
    <3>1. Recent(n) \subseteq Token
      BY DEF Recent
    <3> QED
      BY <1>3, <3>1, PlacesAssumption, FS_Subset DEF Recent
  <2>2. CASE From[sid] = n
    <3>1. Cardinality(Recent(n)) < MaxCallsPerNumberPerMinute
      BY <1>2, <2>2 DEF RateInv
    <3>2. /\ Cardinality(Recent(n)') <= Cardinality(Recent(n)) + 1
          /\ Cardinality(Recent(n)') \in Nat /\ Cardinality(Recent(n)) \in Nat
      BY <2>1, OneMore
    <3> QED
      BY <3>1, <3>2, LimitsAssumption
  <2>3. CASE From[sid] # n
    <3>1. Recent(n)' \subseteq Recent(n)
      BY <1>3, <2>3 DEF Recent
    <3>2. Cardinality(Recent(n)) <= MaxCallsPerNumberPerMinute
      BY DEF RateInv, RateRespected, Recent
    <3> QED
      BY <2>1, <3>1, <3>2, SmallerCount, LimitsAssumption
  <2> QED
    BY <2>2, <2>3
<1> QED
  BY <1>4, <1>5 DEF RateInv, RateRespected, Recent

LEMMA RateStep == BaseInv /\ RateInv /\ [Next]_vars => RateInv'
<1> SUFFICES ASSUME BaseInv, RateInv, [Next]_vars PROVE RateInv'
  OBVIOUS
<1> USE DEF BaseInv
<1>1. ASSUME NEW h \in Hook, Decide(h) PROVE RateInv'
  <2>1. UNCHANGED token
    BY <1>1 DEF Decide
  <2>3. Cardinality(Recent(From[hook[h].sid])) \in Nat
    <3>1. Recent(From[hook[h].sid]) \subseteq Token
      BY DEF Recent
    <3> QED
      BY <3>1, PlacesAssumption, FS_Subset, FS_CardinalityType
  <2>4. \A g \in Hook : hook'[g].phase = "admitted" =>
          Cardinality(Recent(From[hook'[g].sid])) < MaxCallsPerNumberPerMinute
    <3> SUFFICES ASSUME NEW g \in Hook, hook'[g].phase = "admitted"
                 PROVE  Cardinality(Recent(From[hook'[g].sid])) < MaxCallsPerNumberPerMinute
      OBVIOUS
    <3>1. CASE g = h
      <4>1. ~RateLimited(From[hook[h].sid]) /\ hook'[h].sid = hook[h].sid
        BY <1>1, <3>1 DEF Decide, TypeOK, HookState, IdleHook
      <4> QED
        BY <3>1, <4>1, <2>3, LimitsAssumption DEF RateLimited
    <3>2. CASE g # h
      BY <1>1, <3>2 DEF Decide, TypeOK, RateInv
    <3> QED
      BY <3>1, <3>2
  <2> QED
    BY <2>1, <2>4 DEF RateInv, RateRespected, Recent
<1>2. ASSUME NEW h \in Hook, NEW sid \in Sid, CountActive(h, sid) PROVE RateInv'
  <2>1. /\ UNCHANGED token
        /\ \A g \in Hook : hook'[g].phase = "admitted" => hook'[g] = hook[g]
    BY <1>2 DEF CountActive, TypeOK, HookState
  <2> QED
    BY <2>1, RateShrinks
<1>3. ASSUME NEW h \in Hook, Webhook(h) PROVE RateInv'
  BY <1>1, <1>2, <1>3, MintRate DEF Webhook
<1>4. ASSUME NEW k \in Conn, Connection(k) \/ AgentCrash(k) PROVE RateInv'
  <2>1. UNCHANGED hook
    BY <1>4 DEF Connection, AgentCrash, ClaimToken, CommitConsume, Disconnect, CloseCall
  <2>2. \A t \in Token : token'[t].recent = token[t].recent /\ token'[t].sid = token[t].sid
    BY <1>4 DEF Connection, AgentCrash, ClaimToken, CommitConsume, Disconnect, CloseCall,
                TypeOK, TokenRow
  <2> QED
    BY <2>1, <2>2, RateShrinks
<1>5. CASE TimePasses
  <2>1. UNCHANGED hook
    BY <1>5 DEF TimePasses, TokenExpires, TokenAges, CallAges, NewCallSid
  <2>2. \A t \in Token : token'[t].recent => token[t].recent /\ token'[t].sid = token[t].sid
    <3>1. ASSUME NEW u \in Token, TokenExpires(u) \/ TokenAges(u)
          PROVE  \A t \in Token : token'[t].recent => token[t].recent /\ token'[t].sid = token[t].sid
      <4>1. \/ token' = [token EXCEPT ![u].expired = TRUE]
            \/ token' = [token EXCEPT ![u].recent = FALSE]
        BY <3>1 DEF TokenExpires, TokenAges
      <4> QED
        BY <4>1 DEF TypeOK, TokenRow
    <3> QED
      BY <1>5, <3>1 DEF TimePasses, CallAges, NewCallSid
  <2> QED
    BY <2>1, <2>2, RateShrinks
<1>6. CASE UNCHANGED vars
  BY <1>6, RateShrinks DEF vars
<1> QED
  BY <1>3, <1>4, <1>5, <1>6 DEF Next

LEMMA InitRate == Init => RateInv
<1> SUFFICES ASSUME Init PROVE RateInv
  OBVIOUS
<1>1. \A n \in Number : Recent(n) = {}
  BY DEF Init, NoToken, Recent
<1>2. Cardinality({}) <= MaxCallsPerNumberPerMinute
  BY FS_EmptySet, LimitsAssumption
<1>3. RateRespected
  BY <1>1, <1>2 DEF RateRespected
<1>4. \A h \in Hook : hook[h].phase # "admitted"
  BY DEF Init, IdleHook
<1> QED
  BY <1>3, <1>4 DEF RateInv

\* No number is issued more tokens within a minute than the limit, whatever the overlap of
\* webhooks, retries, redemptions and crashes, for any limit and any numbers.
THEOREM RateHolds == Spec => []RateRespected
<1>1. RateInv => RateRespected
  BY DEF RateInv
<1> QED
  BY <1>1, InitRate, RateStep, BaseInvariance, PTL DEF Spec

-----------------------------------------------------------------------------
(***************************************************************************)
(* The ceiling.  The webhook counts calls and tokens at different times,   *)
(* and tokens are redeemed all the while.  Until it counts the tokens, the *)
(* calls do not outgrow the first count, but for those that slip past it;  *)
(* once it has, a redemption only moves a slot from the tokens to the      *)
(* calls, but for a token that was not counted because it had expired, and *)
(* the place of the new token stays free.                                  *)
(***************************************************************************)
Open == Active \ slipped

CeilingInv ==
  /\ Cardinality(Open) + Cardinality(Reserved) <= MaxConcurrentCalls
  /\ \A h \in Hook : hook[h].phase = "counted" => Cardinality(Open) <= hook[h].active
  /\ \A h \in Hook : hook[h].phase = "admitted" =>
       Cardinality(Open) + Cardinality(Reserved) < MaxConcurrentCalls

LEMMA SlotCounts ==
  /\ IsFiniteSet(Open) /\ Cardinality(Open) \in Nat
  /\ IsFiniteSet(Reserved) /\ Cardinality(Reserved) \in Nat
<1>1. Open \subseteq Sid /\ Reserved \subseteq Token
  BY DEF Active, Open, Reserved
<1> QED
  BY <1>1, PlacesAssumption, SmallerCount

\* A step that takes no slot, and begins and admits no webhook.
LEMMA CeilingShrinks ==
  ASSUME BaseInv, CeilingInv, Open' \subseteq Open, Reserved' \subseteq Reserved,
         \A h \in Hook : Busy(h)' => hook'[h] = hook[h]
  PROVE  CeilingInv'
<1>1. /\ Cardinality(Open') \in Nat /\ Cardinality(Open') <= Cardinality(Open)
      /\ Cardinality(Reserved') \in Nat /\ Cardinality(Reserved') <= Cardinality(Reserved)
      /\ Cardinality(Open) \in Nat /\ Cardinality(Reserved) \in Nat
  BY SlotCounts, SmallerCount
<1>2. Cardinality(Open') + Cardinality(Reserved') <= MaxConcurrentCalls
  BY <1>1, LimitsAssumption DEF CeilingInv
<1>3. ASSUME NEW h \in Hook, hook'[h].phase \in {"counted", "admitted"}
      PROVE  /\ hook'[h].phase = "counted" => Cardinality(Open') <= hook'[h].active
             /\ hook'[h].phase = "admitted" =>
                  Cardinality(Open') + Cardinality(Reserved') < MaxConcurrentCalls
  <2>1. hook'[h] = hook[h]
    BY <1>3 DEF Busy
  <2>2. hook[h].active \in Nat
    BY PlacesAssumption, FS_CardinalityType DEF BaseInv, TypeOK, HookState
  <2> QED
    BY <1>1, <2>1, <2>2, LimitsAssumption DEF CeilingInv
<1> QED
  BY <1>2, <1>3 DEF CeilingInv

LEMMA CountActiveCeiling ==
  ASSUME BaseInv, CeilingInv, NEW h \in Hook, NEW sid \in Sid, CountActive(h, sid)
  PROVE  CeilingInv'
<1> DEFINE A == {c \in Sid : Healed[c].status = "ACTIVE"}
<1>1. /\ hook' = [hook EXCEPT ![h] = [phase |-> "counted", sid |-> sid, active |-> Cardinality(A)]]
      /\ \A g \in Hook : hook[g].phase = "idle"
      /\ hook \in [Hook -> HookState]
  BY DEF CountActive, Unlocked, BaseInv, TypeOK
<1>2. Active' = A /\ slipped' = slipped \cap Active' /\ Reserved' = Reserved
  BY DEF CountActive, Active, Reserved
<1>3. A \subseteq Active
  BY DEF Healed, Ended, Active, BaseInv, TypeOK, CallRow
<1>4. Open' \subseteq Open /\ Open' \subseteq A
  BY <1>2, <1>3 DEF Open
<1>5. A \subseteq Sid /\ IsFiniteSet(A)
  BY PlacesAssumption, FS_Subset
<1>6. /\ Cardinality(Open') \in Nat /\ Cardinality(Open) \in Nat /\ Cardinality(A) \in Nat
      /\ Cardinality(Open') <= Cardinality(Open) /\ Cardinality(Open') <= Cardinality(A)
      /\ Cardinality(Reserved) \in Nat
  BY <1>4, <1>5, SlotCounts, SmallerCount
<1>7. Cardinality(Open') + Cardinality(Reserved') <= MaxConcurrentCalls
  BY <1>2, <1>6, LimitsAssumption DEF CeilingInv
<1>8. /\ \A g \in Hook : hook'[g].phase = "counted" => hook'[g].active = Cardinality(A)
      /\ \A g \in Hook : hook'[g].phase # "admitted"
  BY <1>1
<1> QED
  BY <1>6, <1>7, <1>8 DEF CeilingInv

LEMMA DecideCeiling ==
  ASSUME BaseInv, CeilingInv, NEW h \in Hook, Decide(h)
  PROVE  CeilingInv'
<1>1. UNCHANGED <<token, call, slipped>> /\ hook[h].phase = "counted"
  BY DEF Decide
<1>2. Open' = Open /\ Reserved' = Reserved
  BY <1>1 DEF Active, Open, Reserved
<1>3. \A g \in Hook \ {h} : hook'[g] = hook[g]
  BY DEF Decide, BaseInv, TypeOK
<1>4. hook \in [Hook -> HookState] /\ hook[h].active \in Nat
  BY PlacesAssumption, FS_CardinalityType DEF BaseInv, TypeOK, HookState
<1>5. CASE hook'[h] = IdleHook
  <2>1. \A g \in Hook : Busy(g)' => hook'[g] = hook[g]
    BY <1>3, <1>5 DEF Busy, IdleHook
  <2> QED
    BY <1>2, <2>1, CeilingShrinks
<1>6. CASE /\ hook'[h] = [hook[h] EXCEPT !.phase = "admitted"]
           /\ hook[h].active + Cardinality(Reserved) < MaxConcurrentCalls
  <2>1. hook'[h].phase = "admitted"
    BY <1>4, <1>6 DEF HookState
  <2>2. Cardinality(Open) <= hook[h].active
    BY <1>1 DEF CeilingInv
  <2>3. Cardinality(Open) + Cardinality(Reserved) < MaxConcurrentCalls
    BY <1>4, <1>6, <2>2, SlotCounts, LimitsAssumption
  <2>4. \A g \in Hook : hook'[g].phase = "counted" => Cardinality(Open') <= hook'[g].active
    BY <1>2, <1>3, <2>1 DEF CeilingInv
  <2> QED
    BY <1>2, <2>3, <2>4 DEF CeilingInv
<1>7. \/ hook'[h] = IdleHook
      \/ /\ hook'[h] = [hook[h] EXCEPT !.phase = "admitted"]
         /\ hook[h].active + Cardinality(Reserved) < MaxConcurrentCalls
  BY <1>4, SlotCounts, LimitsAssumption DEF Decide
<1> QED
  BY <1>5, <1>6, <1>7

LEMMA MintCeiling ==
  ASSUME BaseInv, CeilingInv, NEW h \in Hook, Mint(h)
  PROVE  CeilingInv'
<1> DEFINE sid == hook[h].sid
<1>1. PICK t \in Token :
        token' = [Invalidated(sid) EXCEPT
          ![t] = [sid |-> sid, consumed |-> FALSE, expired |-> FALSE, recent |-> TRUE]]
  BY DEF Mint
<1>2. /\ UNCHANGED <<call, slipped>> /\ hook' = [hook EXCEPT ![h] = IdleHook]
      /\ hook[h].phase = "admitted" /\ hook \in [Hook -> HookState] /\ Busy(h)
  BY DEF Mint, BaseInv, TypeOK, Busy
<1>3. Open' = Open
  BY <1>2 DEF Active, Open
<1>4. \A u \in Token \ {t} : (token'[u].consumed \/ token'[u] = token[u])
  BY <1>1 DEF Invalidated, BaseInv, TypeOK, TokenRow
<1>5. Reserved' \subseteq Reserved \cup {t}
  BY <1>4 DEF Reserved
<1>6. /\ Cardinality(Reserved') \in Nat /\ Cardinality(Reserved) \in Nat
      /\ Cardinality(Reserved') <= Cardinality(Reserved) + 1
  BY <1>5, SlotCounts, OneMore
<1>7. Cardinality(Open) + Cardinality(Reserved) < MaxConcurrentCalls
  BY <1>2 DEF CeilingInv
<1>8. Cardinality(Open') + Cardinality(Reserved') <= MaxConcurrentCalls
  BY <1>3, <1>6, <1>7, SlotCounts, LimitsAssumption
<1>9. \A g \in Hook : ~Busy(g)'
  BY <1>2 DEF Busy, IdleHook, BaseInv, HookInv
<1> QED
  BY <1>8, <1>9 DEF CeilingInv, Busy

LEMMA CommitCeiling ==
  ASSUME BaseInv, CeilingInv, NEW k \in Conn, CommitConsume(k)
  PROVE  CeilingInv'
<1> DEFINE t == conn[k].token
           sid == token[t].sid
<1>1. t \in Token /\ sid \in Sid /\ ~token[t].consumed
  BY DEF CommitConsume, BaseInv, ConnInv
<1>2. /\ token' = [token EXCEPT ![t].consumed = TRUE] /\ UNCHANGED hook
      /\ call' = [call EXCEPT ![sid].status = "ACTIVE"]
      /\ token \in [Token -> TokenRow] /\ call \in [Sid -> CallRow]
  BY DEF CommitConsume, BaseInv, TypeOK
<1>3. Active' = Active \cup {sid}
  BY <1>1, <1>2 DEF Active, CallRow
<1>4. Reserved' \subseteq Reserved \ {t}
  <2>1. \A u \in Token \ {t} : token'[u] = token[u]
    BY <1>2
  <2>2. token'[t].consumed
    BY <1>1, <1>2 DEF TokenRow
  <2> QED
    BY <2>1, <2>2 DEF Reserved
<1>5. CASE Slips(t)
  <2>1. Open' \subseteq Open
    BY <1>3, <1>5 DEF CommitConsume, Open
  <2> QED
    BY <1>2, <1>4, <2>1, CeilingShrinks
<1>6. CASE ~Slips(t)
  <2>1. t \in Reserved /\ \A h \in Hook : hook[h].phase # "counted"
    BY <1>1, <1>6 DEF Slips, Reserved
  <2>2. IsFiniteSet(Reserved \ {t}) /\ Cardinality(Reserved \ {t}) = Cardinality(Reserved) - 1
    BY <2>1, SlotCounts, FS_RemoveElement
  <2>3. /\ Cardinality(Reserved') <= Cardinality(Reserved) - 1 /\ Cardinality(Reserved') \in Nat
        /\ Cardinality(Reserved) \in Nat
    BY <1>4, <2>2, SlotCounts, SmallerCount
  <2>4. Open' \subseteq Open \cup {sid}
    BY <1>3, <1>6 DEF CommitConsume, Open
  <2>5. /\ Cardinality(Open') <= Cardinality(Open) + 1
        /\ Cardinality(Open') \in Nat /\ Cardinality(Open) \in Nat
    BY <2>4, SlotCounts, OneMore
  <2>6. /\ Cardinality(Open') + Cardinality(Reserved') <= MaxConcurrentCalls
        /\ \A h \in Hook : hook[h].phase = "admitted" =>
             Cardinality(Open') + Cardinality(Reserved') < MaxConcurrentCalls
    BY <2>3, <2>5, LimitsAssumption DEF CeilingInv
  <2> QED
    BY <1>2, <2>1, <2>6 DEF CeilingInv
<1> QED
  BY <1>5, <1>6

\* Claims and ends of connections.
LEMMA ConnCeiling ==
  ASSUME BaseInv, CeilingInv, NEW k \in Conn,
         \/ \E t \in Token : ClaimToken(k, t)
         \/ Disconnect(k) \/ CloseCall(k) \/ AgentCrash(k)
  PROVE  CeilingInv'
<1>1. UNCHANGED <<token, hook>>
  BY DEF ClaimToken, Disconnect, CloseCall, AgentCrash
<1>2. Open' \subseteq Open
  <2>1. CASE UNCHANGED <<call, slipped>>
    BY <2>1 DEF Active, Open
  <2>2. CASE CloseCall(k)
    <3>1. Active' \subseteq Active /\ slipped' = slipped \cap Active'
      BY <2>2 DEF CloseCall, Ended, Active, BaseInv, TypeOK, CallRow
    <3> QED
      BY <3>1 DEF Open
  <2> QED
    BY <2>1, <2>2 DEF ClaimToken, Disconnect, AgentCrash
<1> QED
  BY <1>1, <1>2, CeilingShrinks DEF Reserved

LEMMA TimeCeiling ==
  ASSUME BaseInv, CeilingInv, TimePasses
  PROVE  CeilingInv'
<1>1. UNCHANGED <<hook, slipped>>
  BY DEF TimePasses, TokenExpires, TokenAges, CallAges, NewCallSid
<1>2. Active' \subseteq Active
  <2>1. CASE UNCHANGED call
    BY <2>1 DEF Active
  <2>2. ASSUME NEW sid \in Sid, CallAges(sid) \/ NewCallSid(sid) PROVE Active' \subseteq Active
    BY <2>2 DEF CallAges, NewCallSid, NoCall, Active, BaseInv, TypeOK, CallRow
  <2> QED
    BY <2>1, <2>2 DEF TimePasses, TokenExpires, TokenAges
<1>3. Reserved' \subseteq Reserved
  <2>1. CASE UNCHANGED token
    BY <2>1 DEF Reserved
  <2>2. ASSUME NEW t \in Token, TokenExpires(t) \/ TokenAges(t) PROVE Reserved' \subseteq Reserved
    <3>1. \/ token' = [token EXCEPT ![t].expired = TRUE]
          \/ token' = [token EXCEPT ![t].recent = FALSE]
      BY <2>2 DEF TokenExpires, TokenAges
    <3> QED
      BY <3>1 DEF Reserved, BaseInv, TypeOK, TokenRow
  <2> QED
    BY <2>1, <2>2 DEF TimePasses, CallAges, NewCallSid
<1> QED
  BY <1>1, <1>2, <1>3, CeilingShrinks DEF Open

LEMMA CeilingStep == BaseInv /\ CeilingInv /\ [Next]_vars => CeilingInv'
<1> SUFFICES ASSUME BaseInv, CeilingInv, [Next]_vars PROVE CeilingInv'
  OBVIOUS
<1>1. ASSUME NEW h \in Hook, Webhook(h) PROVE CeilingInv'
  BY <1>1, CountActiveCeiling, DecideCeiling, MintCeiling DEF Webhook
<1>2. ASSUME NEW k \in Conn, Connection(k) \/ AgentCrash(k) PROVE CeilingInv'
  BY <1>2, CommitCeiling, ConnCeiling DEF Connection
<1>3. CASE TimePasses
  BY <1>3, TimeCeiling
<1>4. CASE UNCHANGED vars
  BY <1>4, CeilingShrinks DEF vars, Active, Open, Reserved
<1> QED
  BY <1>1, <1>2, <1>3, <1>4 DEF Next

LEMMA InitCeiling == Init => CeilingInv
<1> SUFFICES ASSUME Init PROVE CeilingInv
  OBVIOUS
<1>1. Open = {} /\ Reserved = {}
  BY DEF Init, Active, Open, Reserved, NoCall, NoToken
<1>2. Cardinality({}) = 0
  BY FS_EmptySet
<1>3. \A h \in Hook : hook[h].phase = "idle"
  BY DEF Init, IdleHook
<1> QED
  BY <1>1, <1>2, <1>3, LimitsAssumption DEF CeilingInv

\* The connected calls and the slots promised to callers stay within the ceiling, but for calls
\* that slipped past a count, for any ceiling and however webhooks, redemptions, retries, crashes
\* and expiries interleave.
THEOREM CeilingHolds == Spec => []CeilingRespected
<1>1. CeilingInv => CeilingRespected
  BY DEF CeilingInv, CeilingRespected, Open
<1> QED
  BY <1>1, CeilingStep, InitCeiling, BaseInvariance, PTL DEF Spec

-----------------------------------------------------------------------------
(***************************************************************************)
(* The terminal status.  The only step that writes the status of an ended  *)
(* call is the redemption of a token.  A CallSid has one unconsumed token, *)
(* so once it has connected there is none left, unless a webhook mints     *)
(* another, and then it is late.                                           *)
(***************************************************************************)
FinalInv ==
  /\ \A t \in Token : ~token[t].consumed =>
       /\ token[t].sid \in Sid
       /\ token[t].sid \notin late => call[token[t].sid].status = "NONE"
  /\ \A k \in Conn : conn[k].phase \in {"live", "closing"} =>
       call[token[conn[k].token].sid].status # "NONE"
  /\ \A sid \in Sid : call[sid].status = "NONE" => ~call[sid].ended

FinalStatus ==
  \A sid \in Sid \ late : call[sid].ended => call'[sid].status \in {call[sid].status, "NONE"}

LEMMA CountActiveFinal ==
  ASSUME BaseInv, FinalInv, NEW h \in Hook, NEW sid \in Sid, CountActive(h, sid)
  PROVE  FinalInv' /\ FinalStatus
<1> USE DEF BaseInv
<1>1. UNCHANGED <<token, conn, late>> /\ call' = Healed
  BY DEF CountActive
<1>2. \A c \in Sid : /\ call'[c].status = "NONE" <=> call[c].status = "NONE"
                     /\ call[c].status = "NONE" => call'[c] = call[c]
                     /\ call[c].ended => call'[c].status = call[c].status
  BY <1>1 DEF Healed, Ended, TypeOK, CallRow
<1>3. \A k \in Conn : conn[k].phase \in {"live", "closing"} => token[conn[k].token].sid \in Sid
  BY DEF ConnInv
<1> QED
  BY <1>1, <1>2, <1>3 DEF FinalInv, FinalStatus

LEMMA MintFinal ==
  ASSUME BaseInv, FinalInv, NEW h \in Hook, Mint(h)
  PROVE  FinalInv' /\ FinalStatus
<1> DEFINE sid == hook[h].sid
<1> USE DEF BaseInv
<1>1. PICK t \in Token :
        /\ FreeToken(t)
        /\ token' = [Invalidated(sid) EXCEPT
             ![t] = [sid |-> sid, consumed |-> FALSE, expired |-> FALSE, recent |-> TRUE]]
  BY DEF Mint
<1>2. UNCHANGED <<call, conn>> /\ Busy(h)
  BY DEF Mint, Busy
<1>3. sid \in Sid /\ late \subseteq late' /\ (sid \notin late' => call[sid].status = "NONE")
  BY <1>2 DEF Mint, HookInv
<1>4. /\ token'[t].sid = sid
      /\ \A u \in Token \ {t} : token'[u].sid = token[u].sid
                                /\ (~token'[u].consumed => ~token[u].consumed)
  BY <1>1 DEF Invalidated, TypeOK, TokenRow
<1>5. \A k \in Conn : conn[k].phase # "closed" => conn[k].token \in Token \ {t}
  BY <1>1 DEF FreeToken, ConnInv
<1>7. \A u \in Token : ~token'[u].consumed =>
        token'[u].sid \in Sid /\ (token'[u].sid \notin late' => call[token'[u].sid].status = "NONE")
  BY <1>3, <1>4 DEF FinalInv
<1>8. \A k \in Conn : conn[k].phase \in {"live", "closing"} =>
        call[token'[conn[k].token].sid].status # "NONE"
  BY <1>4, <1>5 DEF FinalInv
<1>9. FinalInv'
  BY <1>2, <1>7, <1>8 DEF FinalInv
<1> QED
  BY <1>2, <1>9 DEF FinalStatus

LEMMA CommitFinal ==
  ASSUME BaseInv, FinalInv, NEW k \in Conn, CommitConsume(k)
  PROVE  FinalInv' /\ FinalStatus
<1> DEFINE t == conn[k].token
           sid == token[t].sid
<1> USE DEF BaseInv
<1>1. t \in Token /\ sid \in Sid /\ conn[k].phase = "claimed" /\ ~token[t].consumed
  BY DEF CommitConsume, ConnInv
<1>2. /\ token' = [token EXCEPT ![t].consumed = TRUE] /\ UNCHANGED late
      /\ call' = [call EXCEPT ![sid].status = "ACTIVE"]
      /\ \/ conn' = [conn EXCEPT ![k].phase = "live"]
         \/ conn' = [conn EXCEPT ![k] = Closed]
  BY DEF CommitConsume
<1>4. /\ \A u \in Token : token'[u].sid = token[u].sid
      /\ \A u \in Token \ {t} : token'[u] = token[u]
      /\ token'[t].consumed
  BY <1>1, <1>2 DEF TypeOK, TokenRow
<1>5. /\ \A c \in Sid \ {sid} : call'[c] = call[c]
      /\ call'[sid].status = "ACTIVE" /\ call'[sid].ended = call[sid].ended
  BY <1>1, <1>2 DEF TypeOK, CallRow
<1>6. \A u \in Token : ~token'[u].consumed => token'[u].sid \in Sid \ {sid}
  BY <1>1, <1>4 DEF TokensSingle, OneLiveToken, FinalInv
<1>7. \A u \in Token : ~token'[u].consumed =>
        /\ token'[u].sid \in Sid
        /\ token'[u].sid \notin late' => call'[token'[u].sid].status = "NONE"
  <2>1. SUFFICES ASSUME NEW u \in Token, ~token'[u].consumed
                 PROVE  /\ token'[u].sid \in Sid
                        /\ token'[u].sid \notin late' => call'[token'[u].sid].status = "NONE"
    OBVIOUS
  <2>2. u # t /\ token'[u].sid \in Sid \ {sid}
    BY <1>4, <1>6, <2>1
  <2>3. token'[u] = token[u] /\ call'[token'[u].sid] = call[token[u].sid]
    BY <1>4, <1>5, <2>2
  <2>4. ~token[u].consumed /\ late' = late
    BY <1>2, <2>1, <2>3
  <2>5. token[u].sid \notin late => call[token[u].sid].status = "NONE"
    BY <2>4 DEF FinalInv
  <2> QED
    BY <2>2, <2>3, <2>4, <2>5
<1>8. \A j \in Conn : conn'[j].phase \in {"live", "closing"} =>
        /\ conn'[j].token = conn[j].token
        /\ j = k \/ conn[j].phase \in {"live", "closing"}
  BY <1>2 DEF Closed, TypeOK, ConnState
<1>9. \A j \in Conn : conn'[j].phase \in {"live", "closing"} =>
        call'[token'[conn'[j].token].sid].status # "NONE"
  <2>1. SUFFICES ASSUME NEW j \in Conn, conn'[j].phase \in {"live", "closing"}
                 PROVE  call'[token'[conn'[j].token].sid].status # "NONE"
    OBVIOUS
  <2>2. CASE j = k
    BY <1>1, <1>4, <1>5, <1>8, <2>1, <2>2
  <2>3. CASE conn[j].phase \in {"live", "closing"}
    <3>1. /\ conn[j].token \in Token /\ token[conn[j].token].sid \in Sid
          /\ call[token[conn[j].token].sid].status # "NONE"
      BY <2>3 DEF ConnInv, FinalInv
    <3>2. token'[conn'[j].token].sid = token[conn[j].token].sid
      BY <1>4, <1>8, <2>1, <3>1
    <3> QED
      BY <1>5, <3>1, <3>2
  <2> QED
    BY <1>8, <2>1, <2>2, <2>3
<1>10. sid \notin late => ~call[sid].ended
  BY <1>1 DEF FinalInv
<1>11. FinalInv'
  BY <1>5, <1>7, <1>9 DEF FinalInv
<1> QED
  BY <1>5, <1>10, <1>11 DEF FinalStatus

\* A step that redeems and mints nothing.
LEMMA QuietFinal ==
  ASSUME BaseInv, FinalInv, late' = late,
         \A t \in Token : token'[t].sid = token[t].sid
                          /\ (~token'[t].consumed => ~token[t].consumed),
         \A k \in Conn : conn'[k].phase \in {"live", "closing"} =>
           conn[k].phase \in {"live", "closing"} /\ conn'[k].token = conn[k].token,
         \A c \in Sid : /\ call'[c].status = "NONE" <=> call[c].status = "NONE"
                        /\ call[c].status = "NONE" => call'[c] = call[c]
                        /\ call[c].ended => call'[c].status = call[c].status
  PROVE  FinalInv' /\ FinalStatus
<1>1. \A t \in Token : ~token'[t].consumed =>
        /\ token'[t].sid \in Sid
        /\ token'[t].sid \notin late' => call'[token'[t].sid].status = "NONE"
  BY DEF FinalInv
<1>3. \A k \in Conn : conn'[k].phase \in {"live", "closing"} =>
        call'[token'[conn'[k].token].sid].status # "NONE"
  BY DEF FinalInv, BaseInv, ConnInv
<1>4. \A c \in Sid : call'[c].status = "NONE" => ~call'[c].ended
  BY DEF FinalInv
<1> QED
  BY <1>1, <1>3, <1>4 DEF FinalInv, FinalStatus

LEMMA EndFinal ==
  ASSUME BaseInv, FinalInv, NEW k \in Conn, Disconnect(k) \/ CloseCall(k) \/ AgentCrash(k)
  PROVE  FinalInv' /\ FinalStatus
<1> USE DEF BaseInv
<1>1. UNCHANGED <<token, late>>
  BY DEF Disconnect, CloseCall, AgentCrash
<1>2. \A j \in Conn : conn'[j].phase \in {"live", "closing"} =>
        conn[j].phase \in {"live", "closing"} /\ conn'[j].token = conn[j].token
  <2>1. CASE Disconnect(k)
    BY <2>1 DEF Disconnect, TypeOK, ConnState
  <2>2. CASE conn' = [conn EXCEPT ![k] = Closed]
    BY <2>2 DEF Closed, TypeOK, ConnState
  <2> QED
    BY <2>1, <2>2 DEF CloseCall, AgentCrash
<1>3. \A c \in Sid : /\ call'[c].status = "NONE" <=> call[c].status = "NONE"
                     /\ call[c].status = "NONE" => call'[c] = call[c]
                     /\ call[c].ended => call'[c].status = call[c].status
  <2>1. CASE UNCHANGED call
    BY <2>1
  <2>2. CASE CloseCall(k)
    <3> DEFINE sid == token[conn[k].token].sid
    <3>1. sid \in Sid /\ call[sid].status # "NONE"
      BY <2>2 DEF CloseCall, ConnInv, FinalInv
    <3>2. /\ \A c \in Sid \ {sid} : call'[c] = call[c]
          /\ call'[sid] = Ended(call[sid], "DISCONNECTED")
      BY <2>2, <3>1 DEF CloseCall, TypeOK
    <3>3. /\ call'[sid].status # "NONE"
          /\ call[sid].ended => call'[sid].status = call[sid].status
      BY <3>1, <3>2 DEF Ended, TypeOK, CallRow
    <3> QED
      BY <3>1, <3>2, <3>3
  <2> QED
    BY <2>1, <2>2 DEF Disconnect, AgentCrash
<1> QED
  BY <1>1, <1>2, <1>3, QuietFinal

LEMMA TimeFinal ==
  ASSUME BaseInv, FinalInv, TimePasses
  PROVE  FinalInv' /\ FinalStatus
<1> USE DEF BaseInv
<1>1. ASSUME NEW t \in Token, TokenExpires(t) \/ TokenAges(t) PROVE FinalInv' /\ FinalStatus
  <2>1. UNCHANGED <<call, conn, late>>
    BY <1>1 DEF TokenExpires, TokenAges
  <2>2. \/ token' = [token EXCEPT ![t].expired = TRUE]
        \/ token' = [token EXCEPT ![t].recent = FALSE]
    BY <1>1 DEF TokenExpires, TokenAges
  <2>3. \A u \in Token : token'[u].sid = token[u].sid
                         /\ (~token'[u].consumed => ~token[u].consumed)
    BY <2>2 DEF TypeOK, TokenRow
  <2> QED
    BY <2>1, <2>3, QuietFinal
<1>2. ASSUME NEW sid \in Sid, CallAges(sid) PROVE FinalInv' /\ FinalStatus
  <2>1. UNCHANGED <<token, conn, late>> /\ call[sid].status # "NONE"
    BY <1>2 DEF CallAges
  <2>2. \A c \in Sid : call'[c].status = call[c].status
                       /\ (call[c].status = "NONE" => call'[c] = call[c])
    BY <1>2 DEF CallAges, TypeOK, CallRow
  <2> QED
    BY <2>1, <2>2, QuietFinal
<1>3. ASSUME NEW sid \in Sid, NewCallSid(sid) PROVE FinalInv' /\ FinalStatus
  <2>1. /\ UNCHANGED <<token, conn>> /\ call' = [call EXCEPT ![sid] = NoCall]
        /\ ~Connected(sid) /\ late' = late \ {sid}
    BY <1>3 DEF NewCallSid
  <2>2. /\ \A c \in Sid \ {sid} : call'[c] = call[c]
        /\ call'[sid].status = "NONE" /\ ~call'[sid].ended
    BY <2>1 DEF NoCall, TypeOK
  <2>3. \A k \in Conn : conn[k].phase \in {"live", "closing"} =>
          token[conn[k].token].sid \in Sid \ {sid}
    BY <2>1 DEF Connected, ConnInv
  <2>4. \A t \in Token : ~token[t].consumed /\ token[t].sid \notin late' =>
          call'[token[t].sid].status = "NONE"
    BY <2>1, <2>2 DEF FinalInv
  <2>5. FinalInv'
    BY <2>1, <2>2, <2>3, <2>4 DEF FinalInv
  <2> QED
    BY <2>2, <2>5 DEF FinalStatus
<1> QED
  BY <1>1, <1>2, <1>3 DEF TimePasses

LEMMA FinalStep == BaseInv /\ FinalInv /\ [Next]_vars => FinalInv' /\ [FinalStatus]_vars
<1> SUFFICES ASSUME BaseInv, FinalInv, [Next]_vars
             PROVE  FinalInv' /\ [FinalStatus]_vars
  OBVIOUS
<1>1. ASSUME NEW h \in Hook, Decide(h) PROVE FinalInv' /\ FinalStatus
  <2>1. UNCHANGED <<token, call, conn, late>>
    BY <1>1 DEF Decide
  <2> QED
    BY <2>1, QuietFinal
<1>2. ASSUME NEW h \in Hook, Webhook(h) PROVE FinalInv' /\ FinalStatus
  BY <1>1, <1>2, CountActiveFinal, MintFinal DEF Webhook
<1>3. ASSUME NEW k \in Conn, NEW t \in Token, ClaimToken(k, t) PROVE FinalInv' /\ FinalStatus
  <2>1. UNCHANGED <<token, call, late>>
    BY <1>3 DEF ClaimToken
  <2>2. \A j \in Conn : conn'[j].phase \in {"live", "closing"} => conn'[j] = conn[j]
    BY <1>3 DEF ClaimToken, BaseInv, TypeOK
  <2> QED
    BY <2>1, <2>2, QuietFinal
<1>4. ASSUME NEW k \in Conn, Connection(k) \/ AgentCrash(k) PROVE FinalInv' /\ FinalStatus
  BY <1>3, <1>4, CommitFinal, EndFinal DEF Connection
<1>5. CASE TimePasses
  BY <1>5, TimeFinal
<1>6. CASE UNCHANGED vars
  BY <1>6 DEF vars, FinalInv
<1> QED
  BY <1>2, <1>4, <1>5, <1>6 DEF Next

LEMMA InitFinal == Init => FinalInv
  BY DEF Init, FinalInv, Busy, NoToken, NoCall, IdleHook, Closed

\* The first terminal status of a call is final, for any number of calls, tokens and connections,
\* unless its CallSid was given another token after it had connected.
THEOREM TerminalStays == Spec => TerminalUnlessLate
<1> QED
  BY FinalStep, InitFinal, BaseInvariance, PTL DEF Spec, TerminalUnlessLate, FinalStatus

-----------------------------------------------------------------------------
(***************************************************************************)
(* The self-heal.  UPDATE ... WHERE ended_at IS NULL frees a stale ACTIVE  *)
(* call only if it has not ended before, which a call that was reopened    *)
(* would have.                                                             *)
(***************************************************************************)
ActiveIsOpen == \A sid \in Sid \ late : call[sid].status = "ACTIVE" => ~call[sid].ended

StaleFreed ==
  \A h \in Hook, sid \in Sid : CountActive(h, sid) =>
    \A c \in Sid \ late : call'[c].status = "ACTIVE" => ~call'[c].stale

LEMMA OpenStep ==
  BaseInv /\ FinalInv /\ ActiveIsOpen /\ [Next]_vars => ActiveIsOpen'
<1> SUFFICES ASSUME BaseInv, FinalInv, ActiveIsOpen, [Next]_vars PROVE ActiveIsOpen'
  OBVIOUS
<1>1. call \in [Sid -> CallRow]
  BY DEF BaseInv, TypeOK
<1>2. CASE UNCHANGED call /\ late \subseteq late'
  BY <1>2 DEF ActiveIsOpen
<1>3. CASE call' = Healed /\ UNCHANGED late
  BY <1>1, <1>3 DEF ActiveIsOpen, Healed, Ended, CallRow
<1>4. ASSUME NEW k \in Conn, CommitConsume(k) PROVE ActiveIsOpen'
  <2> DEFINE t == conn[k].token
             sid == token[t].sid
  <2>1. /\ t \in Token /\ ~token[t].consumed /\ UNCHANGED late
        /\ call' = [call EXCEPT ![sid].status = "ACTIVE"]
    BY <1>4 DEF CommitConsume, BaseInv, ConnInv
  <2>2. sid \in Sid /\ (sid \notin late => ~call[sid].ended)
    BY <2>1 DEF FinalInv
  <2> QED
    BY <1>1, <2>1, <2>2 DEF ActiveIsOpen, CallRow
<1>5. ASSUME NEW k \in Conn, CloseCall(k) PROVE ActiveIsOpen'
  BY <1>1, <1>5 DEF CloseCall, Ended, ActiveIsOpen, CallRow
<1>6. ASSUME NEW sid \in Sid, CallAges(sid) \/ NewCallSid(sid) PROVE ActiveIsOpen'
  BY <1>1, <1>6 DEF CallAges, NewCallSid, NoCall, ActiveIsOpen, CallRow
<1> QED
  BY <1>2, <1>3, <1>4, <1>5, <1>6
     DEF Next, Webhook, CountActive, Decide, Mint, Connection, ClaimToken, Disconnect, AgentCrash,
         TimePasses, TokenExpires, TokenAges, vars

\* A webhook that counts the ACTIVE calls has freed every one of them that is stale and was not
\* reopened: none that the agent failed to end keeps its slot past the next call.
THEOREM SelfHealFrees == Spec => [][StaleFreed]_vars
<1>1. Init => ActiveIsOpen
  BY DEF Init, ActiveIsOpen, NoCall
<1>2. BaseInv /\ ActiveIsOpen => StaleFreed
  <2>1. SUFFICES ASSUME BaseInv, ActiveIsOpen, NEW h \in Hook, NEW sid \in Sid, CountActive(h, sid),
                        NEW c \in Sid \ late, call'[c].status = "ACTIVE"
                 PROVE  ~call'[c].stale
    BY DEF StaleFreed
  <2>2. call[c] \in CallRow /\ (call[c].status = "ACTIVE" => ~call[c].ended)
    BY <2>1 DEF BaseInv, TypeOK, ActiveIsOpen
  <2>3. call'[c] = IF call[c].status = "ACTIVE" /\ call[c].stale
                     THEN Ended(call[c], "FAILED") ELSE call[c]
    BY <2>1 DEF CountActive, Healed
  <2> QED
    BY <2>1, <2>2, <2>3 DEF Ended, CallRow
<1> QED
  BY <1>1, <1>2, OpenStep, FinalStep, InitFinal, BaseInvariance, PTL DEF Spec

=============================================================================
