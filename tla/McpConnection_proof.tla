-------------------------- MODULE McpConnection_proof --------------------------
(***************************************************************************)
(* Theorems about McpConnection, for any set of calls and of clients and   *)
(* any number of calls of close().                                         *)
(*                                                                         *)
(* CacheIsLive is not inductive: whether a resumed caller caches a live    *)
(* client depends on which states an awaited client can be in, and on the  *)
(* waiters of one attempt agreeing on the generation they connect for.     *)
(***************************************************************************)
EXTENDS McpConnection, TLAPS

(* An awaited attempt is under way or has settled a moment ago: nothing    *)
(* has closed or lost its client yet.                                      *)
AwaitedIsFresh ==
  \A k \in Calls : call[k] = "connecting" => conn[on[k]] \in {"opening", "open", "failed"}

(* Nobody waits for what is cached already.                                *)
CachedIsResumed == \A k \in Calls : call[k] = "connecting" => on[k] # client

(* Who waits for one attempt began under one generation ...                *)
WaitersAgree ==
  \A j, k \in Calls :
    (call[j] = "connecting" /\ call[k] = "connecting" /\ on[j] = on[k]) => gen[j] = gen[k]

(* ... which is the current one as long as the attempt is shared.          *)
SharedIsCurrent ==
  \A k \in Calls :
    (call[k] = "connecting" /\ on[k] = connecting) => gen[k] = generation

IInv == /\ McpTypeOK
        /\ CacheIsLive
        /\ AwaitedIsFresh
        /\ CachedIsResumed
        /\ WaitersAgree
        /\ SharedIsCurrent

-----------------------------------------------------------------------------
(* The invariant holds at first.                                           *)
LEMMA InitInv == McpInit => IInv
  BY ClientsAssumption, MaxClosesAssumption
     DEF McpInit, IInv, McpTypeOK, CacheIsLive, AwaitedIsFresh, CachedIsResumed,
         WaitersAgree, SharedIsCurrent

(* A new client takes a name that is free.                                 *)
LEMMA FreshIsFree == CanMake => Fresh \in Clients /\ Free(Fresh)
  BY DEF CanMake, Fresh

(* #connect keeps the invariant, if the cache and the states it starts     *)
(* from do.  The caller is not waiting when it comes.                      *)
LEMMA ConnectInv ==
  ASSUME IInv,
         NEW k \in Calls, call[k] # "connecting",
         NEW n \in {1, 2},
         NEW cache \in {client, NoClient},
         NEW states,
         \/ states = conn
         \/ client # NoClient /\ cache = NoClient /\ states = [conn EXCEPT ![client] = "closed"],
         Connect(k, n, cache, states)
  PROVE  IInv'
<1>1. /\ states \in [Clients -> {"none", "opening", "open", "lost", "failed", "closed"}]
      /\ cache # NoClient => states = conn /\ cache = client
      /\ connecting # NoClient => states[connecting] = "opening"
      /\ \A j \in Calls : call[j] = "connecting" =>
           /\ on[j] \in Clients
           /\ states[on[j]] = conn[on[j]]
  <2>1. connecting # NoClient => connecting # client /\ connecting \in Clients
    BY DEF IInv, CacheIsLive, McpTypeOK
  <2>2. client # NoClient => client \in Clients
    BY DEF IInv, McpTypeOK
  <2>3. \A j \in Calls : call[j] = "connecting" => on[j] \in Clients /\ on[j] # client
    BY DEF IInv, McpTypeOK, CachedIsResumed
  <2> QED BY <2>1, <2>2, <2>3 DEF IInv, McpTypeOK, CacheIsLive
<1>2. /\ try' = [try EXCEPT ![k] = n]
      /\ gen' = [gen EXCEPT ![k] = generation]
      /\ client' = cache
      /\ generation' = generation
  BY DEF Connect
<1>3. CASE /\ cache # NoClient
           /\ call' = [call EXCEPT ![k] = "requesting"]
           /\ on' = [on EXCEPT ![k] = cache]
           /\ conn' = states
           /\ UNCHANGED <<connecting, watched>>
  <2>1. McpTypeOK'
    BY <1>1, <1>2, <1>3 DEF IInv, McpTypeOK
  <2>2. CacheIsLive'
    BY <1>1, <1>2, <1>3 DEF IInv, CacheIsLive
  <2>3. \A j \in Calls : call'[j] = "connecting" =>
          j # k /\ call[j] = "connecting" /\ on'[j] = on[j] /\ gen'[j] = gen[j]
    BY <1>2, <1>3 DEF IInv, McpTypeOK
  <2> QED BY <1>1, <1>2, <1>3, <2>1, <2>2, <2>3
          DEF IInv, AwaitedIsFresh, CachedIsResumed, WaitersAgree, SharedIsCurrent
<1>4. CASE /\ cache = NoClient
           /\ call' = [call EXCEPT ![k] = "connecting"]
           /\ connecting # NoClient
           /\ on' = [on EXCEPT ![k] = connecting]
           /\ conn' = states
           /\ UNCHANGED <<connecting, watched>>
  <2>1. McpTypeOK'
    BY <1>1, <1>2, <1>4 DEF IInv, McpTypeOK
  <2>2. CacheIsLive'
    BY <1>1, <1>2, <1>4 DEF IInv, CacheIsLive
  <2>3. \A j \in Calls : call'[j] = "connecting" /\ j # k =>
          call[j] = "connecting" /\ on'[j] = on[j] /\ gen'[j] = gen[j]
    BY <1>2, <1>4 DEF IInv, McpTypeOK
  <2>4. on'[k] = connecting /\ gen'[k] = generation
    BY <1>2, <1>4 DEF IInv, McpTypeOK
  <2>5. AwaitedIsFresh'
    BY <1>1, <1>4, <2>3, <2>4 DEF IInv, AwaitedIsFresh
  <2>6. CachedIsResumed'
    BY <1>2, <1>4, <2>1, ClientsAssumption DEF CachedIsResumed, McpTypeOK
  <2>7. WaitersAgree'
    BY <1>2, <2>3, <2>4 DEF IInv, WaitersAgree, SharedIsCurrent
  <2>8. SharedIsCurrent'
    BY <1>2, <1>4, <2>3, <2>4 DEF IInv, SharedIsCurrent
  <2> QED BY <2>1, <2>2, <2>5, <2>6, <2>7, <2>8 DEF IInv
<1>5. CASE /\ cache = NoClient
           /\ call' = [call EXCEPT ![k] = "connecting"]
           /\ connecting = NoClient /\ CanMake
           /\ conn' = [states EXCEPT ![Fresh] = "opening"]
           /\ on' = [on EXCEPT ![k] = Fresh]
           /\ connecting' = Fresh
           /\ watched' = watched \ {Fresh}
  <2> DEFINE f == Fresh
  <2>1. f \in Clients /\ f # NoClient /\ Free(f)
    BY <1>5, FreshIsFree, ClientsAssumption
  <2> HIDE DEF f
  <2>2. /\ conn' = [states EXCEPT ![f] = "opening"]
        /\ on' = [on EXCEPT ![k] = f]
        /\ connecting' = f
        /\ watched' = watched \ {f}
    BY <1>5 DEF f
  <2>3. McpTypeOK'
    BY <1>1, <1>2, <1>5, <2>1, <2>2 DEF IInv, McpTypeOK
  <2>4. CacheIsLive'
    BY <1>1, <1>2, <1>5, <2>1, <2>2 DEF IInv, CacheIsLive
  <2>5. \A j \in Calls : call'[j] = "connecting" /\ j # k =>
          call[j] = "connecting" /\ on'[j] = on[j] /\ gen'[j] = gen[j] /\ on[j] # f
    BY <1>2, <1>5, <2>1, <2>2 DEF IInv, McpTypeOK, Free
  <2>6. on'[k] = f /\ gen'[k] = generation
    BY <1>2, <2>2 DEF IInv, McpTypeOK
  <2>7. AwaitedIsFresh'
    BY <1>1, <2>1, <2>2, <2>5, <2>6 DEF IInv, AwaitedIsFresh
  <2>8. CachedIsResumed'
    BY <1>2, <1>5, <2>3, ClientsAssumption DEF CachedIsResumed, McpTypeOK
  <2>9. WaitersAgree'
    BY <2>5, <2>6 DEF IInv, WaitersAgree
  <2>10. SharedIsCurrent'
    BY <1>2, <2>2, <2>5, <2>6 DEF SharedIsCurrent
  <2> QED BY <2>3, <2>4, <2>7, <2>8, <2>9, <2>10 DEF IInv
<1> QED BY <1>3, <1>4, <1>5 DEF Connect

-----------------------------------------------------------------------------
(* A call begins.                                                          *)
LEMMA StartInv == ASSUME IInv, NEW k \in Calls, Start(k) PROVE IInv'
  BY ConnectInv DEF Start

(* A request loses its connection.                                         *)
LEMMA RequestLostInv == ASSUME IInv, NEW k \in Calls, RequestLost(k) PROVE IInv'
<1>1. CASE FirstTry(k)
  <2>1. Connect(k, 2, CacheWithout(on[k]), ConnWithout(on[k])) /\ call[k] = "requesting"
    BY <1>1 DEF RequestLost
  <2>2. on[k] # NoClient
    BY <2>1 DEF IInv, McpTypeOK
  <2>3. CASE client = on[k]
    <3>1. CacheWithout(on[k]) = NoClient /\ ConnWithout(on[k]) = [conn EXCEPT ![client] = "closed"]
      BY <2>3 DEF CacheWithout, ConnWithout
    <3> QED BY <2>1, <2>2, <2>3, <3>1, ConnectInv
  <2>4. CASE client # on[k]
    <3>1. CacheWithout(on[k]) = client /\ ConnWithout(on[k]) = conn
      BY <2>4 DEF CacheWithout, ConnWithout
    <3> QED BY <2>1, <3>1, ConnectInv
  <2> QED BY <2>3, <2>4
<1>2. CASE ~FirstTry(k)
  <2>1. call' = [call EXCEPT ![k] = "failed"] /\ UNCHANGED <<shared, on, gen, try>>
        /\ call[k] = "requesting"
    BY <1>2 DEF RequestLost
  <2>2. \A j \in Calls : call'[j] = "connecting" => call[j] = "connecting"
    BY <2>1 DEF IInv, McpTypeOK
  <2>3. McpTypeOK'
    BY <2>1 DEF IInv, McpTypeOK, shared
  <2> QED BY <2>1, <2>2, <2>3 DEF IInv, CacheIsLive, AwaitedIsFresh, CachedIsResumed,
                                  WaitersAgree, SharedIsCurrent, shared
<1> QED BY <1>1, <1>2

(* The server answers.                                                     *)
LEMMA AnswerInv == ASSUME IInv, NEW k \in Calls, Answer(k) PROVE IInv'
<1>1. PICK end \in {"answered", "failed"} : call' = [call EXCEPT ![k] = end]
  BY DEF Answer
<1>2. UNCHANGED <<shared, on, gen, try>> /\ call[k] = "requesting"
  BY DEF Answer
<1>3. \A j \in Calls : call'[j] = "connecting" => call[j] = "connecting"
  BY <1>1 DEF IInv, McpTypeOK
<1>4. McpTypeOK'
  BY <1>1, <1>2 DEF IInv, McpTypeOK, shared
<1> QED BY <1>2, <1>3, <1>4 DEF IInv, CacheIsLive, AwaitedIsFresh, CachedIsResumed,
                                WaitersAgree, SharedIsCurrent, shared

(* A connect attempt settles: it is no longer shared.                      *)
LEMMA AttemptSettlesInv == ASSUME IInv, NEW c \in Clients, AttemptSettles(c) PROVE IInv'
<1>1. PICK end \in {"open", "failed"} : conn' = [conn EXCEPT ![c] = end]
  BY DEF AttemptSettles
<1>2. /\ conn[c] = "opening"
      /\ connecting' = IF connecting = c THEN NoClient ELSE connecting
      /\ UNCHANGED <<client, generation, watched, perCall>>
  BY DEF AttemptSettles, Clear
<1>3. McpTypeOK'
  BY <1>1, <1>2 DEF IInv, McpTypeOK, perCall
<1>4. CacheIsLive'
  BY <1>1, <1>2 DEF IInv, McpTypeOK, CacheIsLive
<1>5. AwaitedIsFresh'
  BY <1>1, <1>2 DEF IInv, McpTypeOK, AwaitedIsFresh, perCall
<1>6. CachedIsResumed' /\ WaitersAgree'
  BY <1>2 DEF IInv, CachedIsResumed, WaitersAgree, perCall
<1>7. SharedIsCurrent'
  BY <1>2 DEF IInv, McpTypeOK, SharedIsCurrent, perCall
<1> QED BY <1>3, <1>4, <1>5, <1>6, <1>7 DEF IInv

(* The waiters of an attempt go on: all of them cache it, or none.         *)
LEMMA ResumeInv == ASSUME IInv, NEW c \in Clients, Resume(c) PROVE IInv'
<1> DEFINE waiters == {k \in Calls : Awaits(k, c)}
           callers == {k \in waiters : conn[c] # "failed" /\ Current(k)}
<1>1. /\ Settled(c) /\ waiters # {}
      /\ call' = [k \in Calls |-> IF k \in callers THEN "requesting"
                                  ELSE IF k \in waiters THEN "failed" ELSE call[k]]
      /\ \/ callers = {} /\ UNCHANGED <<client, watched>>
         \/ callers # {} /\ client' = c /\ Watch(c)
      /\ \/ /\ conn[c] # "failed" /\ waiters # callers
            /\ conn' = [conn EXCEPT ![c] = "closed"]
         \/ /\ conn[c] = "failed" \/ waiters = callers
            /\ UNCHANGED conn
      /\ UNCHANGED <<connecting, generation, on, gen, try>>
  BY DEF Resume
<1>2. /\ \A k \in waiters : call[k] = "connecting" /\ on[k] = c
      /\ callers \subseteq waiters /\ waiters \subseteq Calls
  BY DEF Awaits
<1>3. conn[c] \in {"open", "failed"}
  BY <1>1, <1>2 DEF IInv, AwaitedIsFresh, Settled
<1>4. client # c
  BY <1>1, <1>2 DEF IInv, CachedIsResumed
<1>5. connecting # c
  BY <1>3, ClientsAssumption DEF IInv, CacheIsLive
<1>6. callers = {} \/ callers = waiters
  <2>1. ASSUME NEW j \in callers, NEW k \in waiters PROVE k \in callers
    <3>1. gen[j] = gen[k]
      BY <1>2 DEF IInv, WaitersAgree
    <3> QED BY <3>1 DEF Current
  <2> QED BY <2>1, <1>2
<1>7. \A k \in Calls : call'[k] = "connecting" => call[k] = "connecting" /\ on[k] # c
  <2> SUFFICES ASSUME NEW k \in Calls, call'[k] = "connecting"
               PROVE  call[k] = "connecting" /\ on[k] # c
    OBVIOUS
  <2>1. k \notin waiters
    BY <1>1, <1>2
  <2> QED BY <1>1, <1>2, <2>1 DEF Awaits
<1>8. McpTypeOK'
  <2>1. call' \in [Calls -> {"idle", "connecting", "requesting", "answered", "failed"}]
    BY <1>1 DEF IInv, McpTypeOK
  <2>2. \A k \in Calls : call'[k] # "idle" => on[k] # NoClient
    BY <1>1, <1>2, ClientsAssumption DEF IInv, McpTypeOK
  <2>3. client' \in watched' \cup {NoClient} /\ watched' \subseteq Clients
    BY <1>1 DEF IInv, McpTypeOK, Watch
  <2>4. conn' \in [Clients -> {"none", "opening", "open", "lost", "failed", "closed"}]
    BY <1>1 DEF IInv, McpTypeOK
  <2> HIDE DEF waiters, callers
  <2> QED BY <1>1, <2>1, <2>2, <2>3, <2>4 DEF IInv, McpTypeOK
<1>9. CacheIsLive'
  <2>1. connecting' # NoClient => conn'[connecting'] = "opening"
    BY <1>1, <1>5 DEF IInv, McpTypeOK, CacheIsLive
  <2>2. CASE callers = {}
    BY <1>1, <1>4, <2>1, <2>2 DEF IInv, McpTypeOK, CacheIsLive
  <2>3. CASE callers # {}
    <3>1. callers = waiters /\ conn[c] # "failed"
      BY <1>6, <2>3
    <3>2. conn' = conn /\ client' = c
      BY <1>1, <2>3, <3>1
    <3> QED BY <1>3, <2>1, <3>1, <3>2 DEF CacheIsLive
  <2> QED BY <2>2, <2>3
<1>10. AwaitedIsFresh'
  <2> SUFFICES ASSUME NEW k \in Calls, call'[k] = "connecting"
               PROVE  conn'[on'[k]] \in {"opening", "open", "failed"}
    BY DEF AwaitedIsFresh
  <2>1. conn'[on[k]] = conn[on[k]] /\ on'[k] = on[k]
    BY <1>1, <1>7 DEF IInv, McpTypeOK
  <2> QED BY <1>7, <2>1 DEF IInv, AwaitedIsFresh
<1>11. CachedIsResumed'
  BY <1>1, <1>7 DEF IInv, CachedIsResumed
<1>12. WaitersAgree' /\ SharedIsCurrent'
  <2> HIDE DEF waiters, callers
  <2> QED BY <1>1, <1>7 DEF IInv, WaitersAgree, SharedIsCurrent
<1> QED BY <1>8, <1>9, <1>10, <1>11, <1>12 DEF IInv

(* A connection ends by itself: no one is waiting for it.                  *)
LEMMA ConnectionEndsInv == ASSUME IInv, NEW c \in Clients, ConnectionEnds(c) PROVE IInv'
<1>1. PICK end \in {"closed", "lost"} : conn' = [conn EXCEPT ![c] = end]
  BY DEF ConnectionEnds
<1>2. /\ Calm /\ conn[c] = "open"
      /\ client' \in {client, NoClient}
      /\ client = c => client' = NoClient
      /\ UNCHANGED <<connecting, generation, watched, perCall>>
  <2>1. client = c => c \in watched
    BY ClientsAssumption DEF IInv, McpTypeOK
  <2> QED BY <2>1 DEF ConnectionEnds, CacheWithout
<1>3. \A k \in Calls : call[k] = "connecting" => on[k] # c
  BY <1>2 DEF Calm, Settled
<1>4. McpTypeOK'
  BY <1>1, <1>2 DEF IInv, McpTypeOK, perCall
<1>5. CacheIsLive'
  BY <1>1, <1>2 DEF IInv, McpTypeOK, CacheIsLive
<1>6. AwaitedIsFresh'
  BY <1>1, <1>2, <1>3 DEF IInv, McpTypeOK, AwaitedIsFresh, perCall
<1>7. CachedIsResumed'
  BY <1>2, <1>4, ClientsAssumption DEF IInv, McpTypeOK, CachedIsResumed, perCall
<1>8. WaitersAgree' /\ SharedIsCurrent'
  BY <1>2 DEF IInv, WaitersAgree, SharedIsCurrent, perCall
<1> QED BY <1>4, <1>5, <1>6, <1>7, <1>8 DEF IInv

(* close() disowns what is cached and what is under way.                   *)
LEMMA CloseInv == ASSUME IInv, Close PROVE IInv'
<1>1. /\ generation < MaxCloses /\ generation' = generation + 1
      /\ client' = NoClient /\ connecting' = NoClient
      /\ conn' = IF client = NoClient THEN conn ELSE [conn EXCEPT ![client] = "closed"]
      /\ UNCHANGED <<watched, perCall>>
  BY DEF Close
<1>2. \A k \in Calls : call[k] = "connecting" => on[k] # NoClient /\ on[k] \in Clients
  BY DEF IInv, McpTypeOK
<1>3. McpTypeOK'
  <2>1. generation' \in 0..MaxCloses
    BY <1>1, MaxClosesAssumption DEF IInv, McpTypeOK
  <2> QED BY <1>1, <2>1 DEF IInv, McpTypeOK, perCall
<1>4. CacheIsLive'
  BY <1>1 DEF CacheIsLive
<1>5. AwaitedIsFresh'
  BY <1>1, <1>2 DEF IInv, McpTypeOK, AwaitedIsFresh, CachedIsResumed, perCall
<1>6. CachedIsResumed' /\ SharedIsCurrent'
  BY <1>1, <1>2 DEF CachedIsResumed, SharedIsCurrent, perCall
<1>7. WaitersAgree'
  BY <1>1 DEF IInv, WaitersAgree, perCall
<1> QED BY <1>3, <1>4, <1>5, <1>6, <1>7 DEF IInv

(* Every step keeps the invariant.                                         *)
LEMMA StepInv == IInv /\ [McpNext]_mcpVars => IInv'
<1> SUFFICES ASSUME IInv, [McpNext]_mcpVars PROVE IInv'
  OBVIOUS
<1>1. ASSUME NEW k \in Calls, Start(k) PROVE IInv'
  BY <1>1, StartInv
<1>2. ASSUME NEW k \in Calls, Answer(k) PROVE IInv'
  BY <1>2, AnswerInv
<1>3. ASSUME NEW k \in Calls, RequestLost(k) PROVE IInv'
  BY <1>3, RequestLostInv
<1>4. ASSUME NEW c \in Clients, AttemptSettles(c) PROVE IInv'
  BY <1>4, AttemptSettlesInv
<1>5. ASSUME NEW c \in Clients, Resume(c) PROVE IInv'
  BY <1>5, ResumeInv
<1>6. ASSUME NEW c \in Clients, ConnectionEnds(c) PROVE IInv'
  BY <1>6, ConnectionEndsInv
<1>7. CASE Close
  BY <1>7, CloseInv
<1>8. CASE UNCHANGED mcpVars
  BY <1>8 DEF IInv, McpTypeOK, CacheIsLive, AwaitedIsFresh, CachedIsResumed,
              WaitersAgree, SharedIsCurrent, mcpVars, shared, perCall
<1> QED BY <1>1, <1>2, <1>3, <1>4, <1>5, <1>6, <1>7, <1>8 DEF McpNext, Finished

-----------------------------------------------------------------------------
(* Theorems.                                                               *)

(* The state of the shared connection stays in the inductive invariant,    *)
(* whatever its callers, its servers and close() do.                       *)
THEOREM Invariance == McpSpec => []IInv
  BY InitInv, StepInv, PTL DEF McpSpec

(* Types.                                                                  *)
THEOREM TypeCorrect == McpSpec => []McpTypeOK
<1>1. IInv => McpTypeOK
  BY DEF IInv
<1> QED BY <1>1, Invariance, PTL

(* #connect never hands out an attempt that has settled or a client that   *)
(* was closed or lost.                                                     *)
THEOREM LiveCache == McpSpec => []CacheIsLive
<1>1. IInv => CacheIsLive
  BY DEF IInv
<1> QED BY <1>1, Invariance, PTL

(* A connect that close() has overtaken ends without using its connection. *)
THEOREM ConnectsEnd == McpSpec => CloseEndsConnects
<1> DEFINE Ends == \A k \in Calls :
             (call[k] = "connecting" /\ gen[k] # generation)
             => call'[k] \in {"connecting", "failed"}
<1>1. ASSUME IInv, [McpNext]_mcpVars PROVE [Ends]_mcpVars
  <2> SUFFICES ASSUME NEW k \in Calls, call[k] = "connecting", gen[k] # generation
               PROVE  call'[k] \in {"connecting", "failed"}
    OBVIOUS
  <2>1. ASSUME NEW j \in Calls, NEW n, NEW cache, NEW states, call[j] # "connecting",
               Connect(j, n, cache, states)
        PROVE  call'[k] = "connecting"
    BY <1>1, <2>1 DEF Connect, IInv, McpTypeOK
  <2>2. ASSUME NEW j \in Calls, Start(j) PROVE call'[k] = "connecting"
    BY <2>1, <2>2 DEF Start
  <2>3. ASSUME NEW j \in Calls, Answer(j) PROVE call'[k] = "connecting"
    BY <1>1, <2>3 DEF Answer, IInv, McpTypeOK
  <2>4. ASSUME NEW j \in Calls, RequestLost(j) PROVE call'[k] = "connecting"
    <3>1. CASE FirstTry(j)
      BY <2>1, <2>4, <3>1 DEF RequestLost
    <3>2. CASE ~FirstTry(j)
      BY <1>1, <2>4, <3>2 DEF RequestLost, IInv, McpTypeOK
    <3> QED BY <3>1, <3>2
  <2>5. ASSUME NEW c \in Clients, Resume(c) PROVE call'[k] \in {"connecting", "failed"}
    BY <2>5 DEF Resume, Current
  <2>6. ASSUME NEW c \in Clients, AttemptSettles(c) \/ ConnectionEnds(c)
        PROVE  call'[k] = "connecting"
    BY <2>6 DEF AttemptSettles, ConnectionEnds, perCall
  <2>7. CASE Close \/ UNCHANGED mcpVars
    BY <2>7 DEF Close, mcpVars, perCall
  <2> QED BY <1>1, <2>2, <2>3, <2>4, <2>5, <2>6, <2>7 DEF McpNext, Finished
<1>2. CloseEndsConnects <=> [][Ends]_mcpVars
  BY DEF CloseEndsConnects
<1> QED BY <1>1, <1>2, Invariance, PTL DEF McpSpec

(* The cached client is taken away only by a call that worked on it, by    *)
(* its own end or by close().                                              *)
THEOREM OwnConnectionOnly == McpSpec => NobodyElsesConnection
<1> DEFINE Own == (client # NoClient /\ client' = NoClient /\ generation' = generation)
                  => \A k \in Calls :
                       (call'[k] # call[k] \/ try'[k] # try[k]) => on[k] = client
<1>1. ASSUME IInv, [McpNext]_mcpVars PROVE [Own]_mcpVars
  <2> SUFFICES ASSUME client # NoClient, client' = NoClient, generation' = generation,
                      NEW k \in Calls, call'[k] # call[k] \/ try'[k] # try[k]
               PROVE  on[k] = client
    OBVIOUS
  <2>1. ASSUME NEW j \in Calls, Start(j) PROVE FALSE
    BY <2>1 DEF Start, Connect
  <2>2. ASSUME NEW j \in Calls, Answer(j) PROVE FALSE
    BY <2>2 DEF Answer, shared
  <2>3. ASSUME NEW j \in Calls, RequestLost(j) PROVE on[k] = client
    <3>1. FirstTry(j) /\ Connect(j, 2, CacheWithout(on[j]), ConnWithout(on[j]))
      BY <2>3 DEF RequestLost, shared
    <3>2. client = on[j]
      BY <3>1 DEF Connect, CacheWithout
    <3>3. k = j
      BY <1>1, <3>1 DEF Connect, IInv, McpTypeOK
    <3> QED BY <3>2, <3>3
  <2>4. ASSUME NEW c \in Clients, Resume(c) PROVE FALSE
    BY <2>4, ClientsAssumption DEF Resume
  <2>5. ASSUME NEW c \in Clients, AttemptSettles(c) \/ ConnectionEnds(c) PROVE FALSE
    BY <2>5 DEF AttemptSettles, ConnectionEnds, perCall
  <2>6. CASE Close
    BY <1>1, <2>6 DEF Close, IInv, McpTypeOK
  <2>7. CASE UNCHANGED mcpVars
    BY <2>7 DEF mcpVars, shared
  <2> QED BY <1>1, <2>1, <2>2, <2>3, <2>4, <2>5, <2>6, <2>7 DEF McpNext, Finished
<1>2. NobodyElsesConnection <=> [][Own]_mcpVars
  BY DEF NobodyElsesConnection
<1> QED BY <1>1, <1>2, Invariance, PTL DEF McpSpec
===============================================================================
