----------------------------- MODULE McpConnection -----------------------------
(***************************************************************************)
(* McpConnection of packages/mcp (connection.ts): callers share a lazily   *)
(* opened client, a request whose connection is lost is retried once on a  *)
(* fresh one, and close() may come at any time.                            *)
(*                                                                         *)
(* A connect attempt and the client it makes have one name.  When an       *)
(* attempt settles, its finally clears #connecting before its waiters go   *)
(* on; only code that is already on its way in the same turn of the event  *)
(* loop comes between, never another answer of a server (see Calm).  The   *)
(* waiters of one promise go on one after the other with nothing between.  *)
(***************************************************************************)
EXTENDS Naturals, FiniteSets

CONSTANTS
  Calls,      \* calls of listTools, callTool and readResource
  Clients,    \* the clients that may be made
  MaxCloses,  \* bound on the calls of close()
  NoClient

ASSUME ClientsAssumption == NoClient \notin Clients
ASSUME MaxClosesAssumption == MaxCloses \in Nat

VARIABLES
  client,      \* #client
  connecting,  \* #connecting
  generation,  \* #generation
  conn,        \* per client: "none", "opening", "open", "lost", "failed", "closed"
  watched,     \* the clients whose onclose is set
  call,        \* per call: "idle", "connecting", "requesting", "answered", "failed"
  on,          \* per call: the client it waits for or works on
  gen,         \* per call: the generation at its last #connect
  try          \* per call: 1, or 2 on the retry

shared == <<client, connecting, generation, conn, watched>>
perCall == <<call, on, gen, try>>
mcpVars == <<shared, perCall>>

McpInit ==
  /\ client = NoClient /\ connecting = NoClient /\ generation = 0
  /\ conn = [c \in Clients |-> "none"] /\ watched = {}
  /\ call = [k \in Calls |-> "idle"]
  /\ on = [k \in Calls |-> NoClient]
  /\ gen = [k \in Calls |-> 0]
  /\ try = [k \in Calls |-> 1]

-----------------------------------------------------------------------------
Awaits(k, c) == call[k] = "connecting" /\ on[k] = c
Settled(c) == conn[c] \notin {"none", "opening"}

(* No continuation of a settled attempt is due: the answer of a server or  *)
(* the loss of a connection comes only then.                               *)
Calm == \A k \in Calls : call[k] = "connecting" => ~Settled(on[k])

(* A new client takes a name that nothing refers to any more: which one is *)
(* of no consequence.                                                      *)
Free(c) ==
  /\ conn[c] \notin {"opening", "open"}
  /\ c \notin {client, connecting}
  /\ \A k \in Calls : call[k] \in {"connecting", "requesting"} => on[k] # c
CanMake == \E c \in Clients : Free(c)
Fresh   == CHOOSE c \in Clients : Free(c)

(* #connect by a caller for its nth try, after the cache was left as cache *)
(* and the connections as states: the cached client, the attempt under     *)
(* way, or a new one.                                                      *)
Connect(k, n, cache, states) ==
  /\ try' = [try EXCEPT ![k] = n]
  /\ gen' = [gen EXCEPT ![k] = generation]
  /\ client' = cache
  /\ \/ /\ cache # NoClient
        /\ call' = [call EXCEPT ![k] = "requesting"]
        /\ on' = [on EXCEPT ![k] = cache]
        /\ conn' = states
        /\ UNCHANGED <<connecting, watched>>
     \/ /\ cache = NoClient
        /\ call' = [call EXCEPT ![k] = "connecting"]
        /\ \/ /\ connecting # NoClient
              /\ on' = [on EXCEPT ![k] = connecting]
              /\ conn' = states
              /\ UNCHANGED <<connecting, watched>>
           \/ /\ connecting = NoClient /\ CanMake
              /\ conn' = [states EXCEPT ![Fresh] = "opening"]
              /\ on' = [on EXCEPT ![k] = Fresh]
              /\ connecting' = Fresh
              /\ watched' = watched \ {Fresh}
  /\ UNCHANGED generation

Start(k) ==
  /\ call[k] = "idle"
  /\ Connect(k, 1, client, conn)

(* The attempt is over and its finally has run.                            *)
Clear(c) == connecting' = IF connecting = c THEN NoClient ELSE connecting
AttemptSettles(c) ==
  /\ Calm /\ conn[c] = "opening"
  /\ conn' \in {[conn EXCEPT ![c] = "open"], [conn EXCEPT ![c] = "failed"]}
  /\ Clear(c)
  /\ UNCHANGED <<client, generation, watched, perCall>>

(* Deviation: the generation is not compared.                              *)
AnyGeneration(k) == TRUE

(* The rest of #connect, for everyone who waits for the attempt: who has   *)
(* connected for a generation that close() has ended closes the client     *)
(* again, anyone else caches it.                                           *)
Current(k) == gen[k] = generation
Watch(c) == watched' = watched \cup {c}
Resume(c) ==
  LET waiters == {k \in Calls : Awaits(k, c)}
      callers == {k \in waiters : conn[c] # "failed" /\ Current(k)}
  IN
  /\ Settled(c) /\ waiters # {}
  /\ call' = [k \in Calls |-> IF k \in callers THEN "requesting"
                              ELSE IF k \in waiters THEN "failed" ELSE call[k]]
  /\ \/ callers = {} /\ UNCHANGED <<client, watched>>
     \/ callers # {} /\ client' = c /\ Watch(c)
  /\ \/ /\ conn[c] # "failed" /\ waiters # callers
        /\ conn' = [conn EXCEPT ![c] = "closed"]
     \/ /\ conn[c] = "failed" \/ waiters = callers
        /\ UNCHANGED conn
  /\ UNCHANGED <<connecting, generation, on, gen, try>>

(* The server answers: with a result, or with an error that is a verdict.  *)
Answer(k) ==
  /\ Calm /\ call[k] = "requesting" /\ conn[on[k]] = "open"
  /\ call' \in {[call EXCEPT ![k] = "answered"], [call EXCEPT ![k] = "failed"]}
  /\ UNCHANGED <<shared, on, gen, try>>

(* Deviations: whatever is cached is dropped; the retry is not the last.   *)
DropWhatever(c) == NoClient
AlwaysAgain(k) == TRUE

(* #discard: only the client that was lost, not one that replaced it.      *)
CacheWithout(c) == IF client = c THEN NoClient ELSE client
ConnWithout(c)  == IF client = c THEN [conn EXCEPT ![c] = "closed"] ELSE conn

(* The connection is gone under a request, or its session has expired: one *)
(* retry on a fresh connection.                                            *)
FirstTry(k) == try[k] = 1
RequestLost(k) ==
  /\ call[k] = "requesting"
  /\ conn[on[k]] = "open" => Calm
  /\ IF FirstTry(k)
     THEN Connect(k, 2, CacheWithout(on[k]), ConnWithout(on[k]))
     ELSE /\ call' = [call EXCEPT ![k] = "failed"]
          /\ UNCHANGED <<shared, on, gen, try>>

(* The connection ends out of band; onclose drops it from the cache.       *)
ConnectionEnds(c) ==
  /\ Calm /\ conn[c] = "open"
  /\ conn' = IF c \in watched /\ client = c THEN [conn EXCEPT ![c] = "closed"]
             ELSE [conn EXCEPT ![c] = "lost"]
  /\ client' = IF c \in watched THEN CacheWithout(c) ELSE client
  /\ UNCHANGED <<connecting, generation, watched, perCall>>

(* Deviation: close() leaves the attempt under way to later callers.       *)
CloseKeepsAttempt ==
  /\ generation < MaxCloses
  /\ generation' = generation + 1
  /\ client' = NoClient
  /\ conn' = IF client = NoClient THEN conn ELSE [conn EXCEPT ![client] = "closed"]
  /\ UNCHANGED <<connecting, watched, perCall>>

(* close(): what is cached is closed, what is under way is disowned.       *)
Close ==
  /\ generation < MaxCloses
  /\ generation' = generation + 1
  /\ client' = NoClient /\ connecting' = NoClient
  /\ conn' = IF client = NoClient THEN conn ELSE [conn EXCEPT ![client] = "closed"]
  /\ UNCHANGED <<watched, perCall>>

Finished == /\ \A k \in Calls : call[k] \in {"answered", "failed"}
            /\ UNCHANGED mcpVars

McpNext ==
  \/ \E k \in Calls : Start(k) \/ Answer(k) \/ RequestLost(k)
  \/ \E c \in Clients : AttemptSettles(c) \/ Resume(c) \/ ConnectionEnds(c)
  \/ Close
  \/ Finished

McpSpec == McpInit /\ [][McpNext]_mcpVars

(* Attempts settle, continuations run and servers answer or are lost.      *)
McpFairness ==
  /\ \A c \in Clients : WF_mcpVars(AttemptSettles(c)) /\ WF_mcpVars(Resume(c))
  /\ \A k \in Calls : WF_mcpVars(Answer(k) \/ RequestLost(k))
McpFairSpec == McpSpec /\ McpFairness

-----------------------------------------------------------------------------
(* Properties.                                                             *)

(* The variables keep their types, every call that has begun has a client, *)
(* and a cached client has its onclose set.                                *)
McpTypeOK ==
  /\ client \in watched \cup {NoClient} /\ connecting \in Clients \cup {NoClient}
  /\ generation \in 0..MaxCloses
  /\ conn \in [Clients -> {"none", "opening", "open", "lost", "failed", "closed"}]
  /\ watched \subseteq Clients
  /\ call \in [Calls -> {"idle", "connecting", "requesting", "answered", "failed"}]
  /\ on \in [Calls -> Clients \cup {NoClient}]
  /\ \A k \in Calls : call[k] # "idle" => on[k] # NoClient
  /\ gen \in [Calls -> 0..MaxCloses]
  /\ try \in [Calls -> {1, 2}]

(* The next call is never handed what is known to be gone: an attempt that *)
(* has settled is not cached as a rejection but made again, and a client   *)
(* that was closed or lost is out of the cache and not put back.           *)
CacheIsLive ==
  /\ connecting # NoClient => conn[connecting] = "opening"
  /\ client # NoClient => conn[client] = "open"

(* A connect that was in flight when close() ran does not go on to use its *)
(* connection, whoever else has started to connect since.                  *)
CloseEndsConnects ==
  [][\A k \in Calls :
       (call[k] = "connecting" /\ gen[k] # generation)
       => call'[k] \in {"connecting", "failed"}]_mcpVars

(* A caller that has lost its connection does not take the connection of   *)
(* the others: without close(), the cached client goes only with a call    *)
(* that worked on that very client, or when it ends by itself.             *)
NobodyElsesConnection ==
  [][(client # NoClient /\ client' = NoClient /\ generation' = generation)
     => \A k \in Calls : (call'[k] # call[k] \/ try'[k] # try[k]) => on[k] = client]_mcpVars

(* Every call ends, with an answer, a failed connect or its second loss.   *)
EveryCallEnds ==
  \A k \in Calls : call[k] \in {"connecting", "requesting"} ~> call[k] \in {"answered", "failed"}

===============================================================================
