--------------------------- MODULE MemoryProvider ---------------------------
(* The memory of a hosted agent (foundry/src/memory/provider.ts): what a run   *)
(* reads from the memory service before it starts and sends to it when it has  *)
(* ended.  One provider serves all sessions; runs overlap, also those of one   *)
(* session, and answers come in any order.                                     *)
(*                                                                             *)
(* The service is external.  A scope stands for the memories that are kept     *)
(* under it; an update's id is its place in the order in which it arrived.     *)
EXTENDS Naturals, Sequences
CONSTANTS Callers,   \* the runs
          Sessions, Scopes

Absent == "absent"
Named  == Absent \notin Sessions \cup Scopes
ASSUME NamedAssumption == Named

VARIABLES
  mode,      \* failureMode
  memory,    \* MemoryState of each session; profile: whose static memories
  pendingId, \* #pendingUpdateId, or 0
  updates,   \* the service's updates: [session, scope, follows, status, told]
  newest,    \* the update whose id was told last
  call,      \* of a run: [pc, session, scope, follows, profile]
  waiter,    \* a whenUpdatesCompleted: the update it asks for, or 0
  answers,   \* what the profile searches of each session came to
  overlapped \* the sessions of which two runs were under way at a time
memoryVars == <<mode, memory, pendingId, updates, newest, call, waiter, answers, overlapped>>

NewMemory == [scope |-> Absent, profile |-> Absent, initialized |-> FALSE, search |-> Absent, update |-> 0]
NewCall == [pc |-> "new", session |-> Absent, scope |-> Absent, follows |-> 0,
           anchor |-> Absent, profile |-> Absent]

MemoryInit ==
  /\ mode \in {"continue", "throw"}
  /\ memory = [s \in Sessions |-> NewMemory]
  /\ pendingId = 0 /\ updates = <<>> /\ newest = 0 /\ waiter = 0
  /\ call = [r \in Callers |-> NewCall]
  /\ answers = [s \in Sessions |-> {}] /\ overlapped = {}

Of(r) == call[r].session
Leaves(r) == call' = [call EXCEPT ![r] = [NewCall EXCEPT !.pc = "over"]]
UnderWay(s) == {r \in Callers : call[r].session = s}

-----------------------------------------------------------------------------
(* #resolveScope: a session that is pinned to another scope is refused.        *)
Resolves(s, scope) == memory[s].scope \in {Absent, scope}

(* The search for what the run's input is about continues the last one that    *)
(* found something.                                                            *)
Contextual(r, state) == [state EXCEPT !.pc = "contextual", !.anchor = memory'[state.session].search]

(* beforeRun up to its first request.                                          *)
Begin(r, s, scope) ==
  /\ call[r].pc = "new"
  /\ LET begun == [call[r] EXCEPT !.session = s, !.scope = scope]
     IN  IF Resolves(s, scope)
         THEN /\ memory' = [memory EXCEPT ![s].scope = scope]
              /\ call' = [call EXCEPT ![r] = IF memory[s].initialized THEN Contextual(r, begun)
                                           ELSE [begun EXCEPT !.pc = "profile"]]
              /\ overlapped' = IF UnderWay(s) = {} THEN overlapped ELSE overlapped \cup {s}
         ELSE Leaves(r) /\ UNCHANGED <<memory, overlapped>>
  /\ UNCHANGED <<mode, pendingId, updates, newest, waiter, answers>>

(* A failure that the run survives stands for an empty profile.                *)
ProfileFailed(r) ==
  IF mode = "continue"
  THEN memory' = [memory EXCEPT ![Of(r)].profile = Absent, ![Of(r)].initialized = TRUE]
  ELSE UNCHANGED memory

(* The profile search: answered, or failed, or cancelled by the caller.        *)
Profile(r) ==
  /\ call[r].pc = "profile"
  /\ \/ \E profile \in {Absent, call[r].scope} :
          /\ memory' = [memory EXCEPT ![Of(r)].profile = profile, ![Of(r)].initialized = TRUE]
          /\ answers' = [answers EXCEPT ![Of(r)] = @ \cup {profile}]
          /\ call' = [call EXCEPT ![r] = Contextual(r, @)]
     \/ /\ ProfileFailed(r) /\ UNCHANGED answers
        /\ IF mode = "continue" THEN call' = [call EXCEPT ![r] = Contextual(r, @)] ELSE Leaves(r)
     \/ Leaves(r) /\ UNCHANGED <<memory, answers>>
  /\ UNCHANGED <<mode, pendingId, updates, newest, waiter, overlapped>>

(* What was found is injected, and the run works.                              *)
Works(r) == call' = [call EXCEPT ![r].pc = "working", ![r].profile = memory[Of(r)].profile]

(* The contextual search; there is none when the input has no text.            *)
Search(r) ==
  /\ call[r].pc = "contextual"
  /\ \/ Works(r) /\ memory' = [memory EXCEPT ![Of(r)].search = call[r].scope]
     \/ Works(r) /\ UNCHANGED memory
     \/ Leaves(r) /\ UNCHANGED memory
  /\ UNCHANGED <<mode, pendingId, updates, newest, waiter, answers, overlapped>>

-----------------------------------------------------------------------------
(* Deviation: the provider's last update is continued.                         *)
FollowsPending(r) == pendingId

Follows(r) == memory[Of(r)].update

(* afterRun up to its request: a failed run, one without text and one whose    *)
(* scope has changed are not stored.                                           *)
Ends(r) ==
  /\ call[r].pc = "working"
  /\ \/ \E scope \in Scopes :
          /\ Resolves(Of(r), scope)
          /\ memory' = [memory EXCEPT ![Of(r)].scope = scope]
          /\ call' = [call EXCEPT ![r].pc = "updating", ![r].scope = scope, ![r].follows = Follows(r)]
     \/ Leaves(r) /\ UNCHANGED memory
  /\ UNCHANGED <<mode, pendingId, updates, newest, waiter, answers, overlapped>>

(* The service takes the update in.  One that was still queued when its        *)
(* successor came is superseded by it.                                         *)
Arrives(r) ==
  /\ call[r].pc = "updating"
  /\ LET update == [session |-> Of(r), scope |-> call[r].scope, follows |-> call[r].follows,
                    status |-> "queued", told |-> FALSE]
         marked == [i \in DOMAIN updates |->
                      IF i = update.follows /\ updates[i].status = "queued"
                      THEN [updates[i] EXCEPT !.status = "superseded"] ELSE updates[i]]
     IN  updates' = Append(marked, update)
  /\ call' = [call EXCEPT ![r].pc = "arrived", ![r].follows = Len(updates')]
  /\ UNCHANGED <<mode, memory, pendingId, newest, waiter, answers, overlapped>>

(* The answer carries the id; it may be lost, and the caller may be gone.      *)
Updated(r) ==
  /\ call[r].pc = "arrived"
  /\ LET id == call[r].follows
     IN  /\ memory' = [memory EXCEPT ![Of(r)].update = id]
         /\ pendingId' = id /\ newest' = id
         /\ updates' = [updates EXCEPT ![id].told = TRUE]
  /\ Leaves(r)
  /\ UNCHANGED <<mode, waiter, answers, overlapped>>

UpdateFails(r) ==
  /\ call[r].pc \in {"updating", "arrived"}
  /\ Leaves(r)
  /\ UNCHANGED <<mode, memory, pendingId, updates, newest, waiter, answers, overlapped>>

(* Updates are processed in order.                                             *)
Extract ==
  /\ \E i \in DOMAIN updates, status \in {"completed", "failed"} :
       /\ updates[i].status = "queued"
       /\ \A j \in 1 .. i - 1 : updates[j].status # "queued"
       /\ updates' = [updates EXCEPT ![i].status = status]
  /\ UNCHANGED <<mode, memory, pendingId, newest, call, waiter, answers, overlapped>>

-----------------------------------------------------------------------------
(* whenUpdatesCompleted                                                        *)
Wait ==
  /\ waiter = 0 /\ pendingId # 0
  /\ waiter' = pendingId
  /\ UNCHANGED <<mode, memory, pendingId, updates, newest, call, answers, overlapped>>

(* Only when nothing newer has been queued since.                              *)
Forgets == pendingId' = IF pendingId = waiter THEN 0 ELSE pendingId

Waited ==
  /\ waiter # 0
  /\ \/ updates[waiter].status \in {"completed", "superseded"} /\ Forgets
     \/ updates[waiter].status = "failed" /\ UNCHANGED pendingId
  /\ waiter' = 0
  /\ UNCHANGED <<mode, memory, updates, newest, call, answers, overlapped>>

MemoryDone == (\A r \in Callers : call[r].pc = "over") /\ UNCHANGED memoryVars

MemoryNext ==
  \/ \E r \in Callers :
       \/ \E s \in Sessions, scope \in Scopes : Begin(r, s, scope)
       \/ Profile(r) \/ Search(r) \/ Ends(r) \/ Arrives(r) \/ Updated(r) \/ UpdateFails(r)
  \/ Extract \/ Wait \/ Waited \/ MemoryDone
MemorySpec == MemoryInit /\ [][MemoryNext]_memoryVars

-----------------------------------------------------------------------------
(* "The scope is the isolation boundary": a run is told of memories, continues *)
(* a search and continues an update of its own scope and session only.         *)
OfItsScope ==
  /\ \A r \in Callers : call[r].pc \notin {"new", "over"} =>
       call[r].profile \in {Absent, call[r].scope} /\ call[r].anchor \in {Absent, call[r].scope}
  /\ \A i \in DOMAIN updates : updates[i].follows # 0 =>
       LET before == updates[updates[i].follows]
       IN  before.session = updates[i].session /\ before.scope = updates[i].scope

IsNewest(id, ids) == id \in ids \cup {0} /\ \A j \in ids : j <= id

(* The profile that a session has found stays with it, and an update continues *)
(* the newest one the session knows of, unless runs of the session overlap; a  *)
(* failure that fails the run leaves the profile to be asked for again.        *)
OfItsPast ==
  \A s \in Sessions :
    /\ mode = "throw" /\ memory[s].initialized => answers[s] # {}
    /\ s \notin overlapped =>
         /\ answers[s] \subseteq {memory[s].profile}
         /\ \A i \in DOMAIN updates : updates[i].session = s =>
              IsNewest(updates[i].follows, {j \in 1 .. i - 1 : updates[j].session = s /\ updates[j].told})

(* The last update is not forgotten before it is settled.                      *)
PendingIsKept ==
  newest # 0 /\ pendingId = 0 => updates[newest].status \in {"completed", "superseded"}

(* What the memory of a session takes up and what it goes on from is its own,  *)
(* however the runs of the sessions and the answers interleave.                *)
RemembersItsOwn == OfItsScope /\ OfItsPast /\ PendingIsKept
=============================================================================
