----------------------------- MODULE AtomicStore -----------------------------
(***************************************************************************)
(* What packages/agentserver/src/store/provider.ts asks of a store of      *)
(* responses: every put, putEvents and delete takes effect at one moment,  *)
(* with its check, and is then answered.  Two things are left open.  A     *)
(* delete may take the replay log away before the record, and a call that  *)
(* fails or is lost with its process has had no effect but that one.       *)
(***************************************************************************)
CONSTANTS Calls, Ids, None

VARIABLES
  record,  \* per id: [gen, owner] of the stored response, or None
  log,     \* per id: [gen, owner] of the stored replay log, or None
  answer   \* per call: what it was answered, "none" so far
vars == <<record, log, answer>>

File(c) == [gen |-> c.gen, owner |-> c.owner]
Foreign(c) == record[c.id] # None /\ record[c.id].owner # c.owner
Owned(c) == record[c.id] # None /\ record[c.id].owner = c.owner

Init ==
  /\ record = [i \in Ids |-> None]
  /\ log = [i \in Ids |-> None]
  /\ answer = [c \in Calls |-> "none"]

Answer(c, a) == answer[c] = "none" /\ answer' = [answer EXCEPT ![c] = a]

(* An owner's id is refused to everybody else.                             *)
Put(c) ==
  /\ c.op = "put"
  /\ \/ ~Foreign(c) /\ Answer(c, "done") /\ record' = [record EXCEPT ![c.id] = File(c)]
     \/ Foreign(c) /\ Answer(c, "refused") /\ UNCHANGED record
  /\ UNCHANGED log

(* A compare-and-set on the generation that is stored.                     *)
PutEvents(c) ==
  /\ c.op = "putEvents"
  /\ \/ Foreign(c) /\ Answer(c, "refused") /\ UNCHANGED log
     \/ Owned(c) /\ record[c.id].gen = c.gen
        /\ Answer(c, "done") /\ log' = [log EXCEPT ![c.id] = File(c)]
     \/ ~Foreign(c) /\ ~(Owned(c) /\ record[c.id].gen = c.gen)
        /\ Answer(c, "discarded") /\ UNCHANGED log
  /\ UNCHANGED record

(* The replay log goes with the response.                                  *)
Delete(c) ==
  /\ c.op = "delete"
  /\ \/ /\ Owned(c) /\ Answer(c, "deleted")
        /\ record' = [record EXCEPT ![c.id] = None]
        /\ log' = [log EXCEPT ![c.id] = None]
     \/ ~Owned(c) /\ Answer(c, "absent") /\ UNCHANGED <<record, log>>
Unlog(c) ==
  /\ c.op = "delete" /\ Owned(c) /\ answer[c] = "none"
  /\ log' = [log EXCEPT ![c.id] = None]
  /\ UNCHANGED <<record, answer>>

Fail(c) == Answer(c, "failed") /\ UNCHANGED <<record, log>>

(* Of the open calls, any may be lost at once.                             *)
Lose ==
  /\ UNCHANGED <<record, log>>
  /\ answer' = [c \in Calls |-> IF answer[c] = "none" /\ answer'[c] = "lost" THEN "lost" ELSE answer[c]]

Next ==
  \/ Lose
  \/ \E c \in Calls : Put(c) \/ PutEvents(c) \/ Delete(c) \/ Unlog(c) \/ Fail(c)
Spec == Init /\ [][Next]_vars
=============================================================================
