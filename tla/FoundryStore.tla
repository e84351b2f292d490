---------------------------- MODULE FoundryStore ----------------------------
(* The response store of a hosted agent (foundry/src/hosting/response-store.ts *)
(* and foundry-storage-client.ts): responses are kept by a service, what a     *)
(* replay of their events needs is mirrored in files of the sandbox            *)
(* (agentserver/src/store/file.ts).                                            *)
(*                                                                             *)
(* The service is external.  One response id is followed.  Every sandbox does  *)
(* its writes under the id one after the other; sandboxes do not know of each  *)
(* other.  A write is the outcome of a turn: when it was created (in seconds), *)
(* its status and the id of its first output item ("" for none).               *)
EXTENDS Naturals, Sequences
CONSTANTS Boxes, NoWrite,
          Work,        \* the writes of each sandbox, in order
          Attempts,    \* RETRY_ATTEMPTS
          MaxDeletes,
          MaxCrashes   \* sandboxes that die or are recycled

(* What the work is: turns are numbered from 1, and the id of an item is never *)
(* given twice, so that writes with the same outcome and first item are one.   *)
Outcome == [turn : Nat \ {0}, created : Nat, status : STRING, item : STRING]
Writes  == UNION {{Work[b][i] : i \in DOMAIN Work[b]} : b \in Boxes}
WellWritten ==
  /\ Boxes # {}
  /\ Work \in [Boxes -> Seq(Outcome)]
  /\ NoWrite \notin Outcome
  /\ \A v, w \in Writes :
       v.created = w.created /\ v.status = w.status /\ v.item = w.item => v = w \/ v.item = ""
ASSUME WorkAssumption == WellWritten

VARIABLES
  service,   \* what the service holds under the id
  held,      \* the writes it has held so far
  mirror,    \* the record in the files of each sandbox
  log,       \* the turn whose events are kept beside it, or 0
  box,       \* what a sandbox is doing: [pc, tries, ambiguous]
  next,      \* its writes that were begun
  accepted,  \* the writes that were reported as stored
  reader,    \* a GET that replays: [pc, box, response, generation]
  deletes, crashes
vars == <<service, held, mirror, log, box, next, accepted, reader, deletes, crashes>>

Idle == [pc |-> "idle", tries |-> 0, ambiguous |-> FALSE]
NoReader == [pc |-> "none", box |-> CHOOSE b \in Boxes : TRUE, response |-> NoWrite, generation |-> 0]
WriteOf(b) == Work[b][next[b]]

Init ==
  /\ service = NoWrite /\ held = {}
  /\ mirror = [b \in Boxes |-> NoWrite] /\ log = [b \in Boxes |-> 0]
  /\ box = [b \in Boxes |-> Idle] /\ next = [b \in Boxes |-> 0]
  /\ accepted = {} /\ reader = NoReader /\ deletes = 0 /\ crashes = 0

Goto(b, pc) == box' = [box EXCEPT ![b].pc = pc, ![b].tries = 0]
Rest(b) == box' = [box EXCEPT ![b] = Idle]
Holds(w) == service' = w /\ held' = held \cup {w}

(* attempt(): the answer of a request is lost, or says nothing of whether the  *)
(* request was applied; the next one is ambiguous.  A credential that cannot   *)
(* be refreshed is tried again as well, but nothing was sent.                  *)
Again(b, sent) ==
  /\ box[b].tries + 1 < Attempts
  /\ box' = [box EXCEPT ![b].tries = @ + 1, ![b].ambiguous = @ \/ sent]
LastTry(b) == box[b].tries + 1 = Attempts

-----------------------------------------------------------------------------
(* put: create, else update, then mirror.                                      *)
Put(b) ==
  /\ box[b].pc = "idle" /\ next[b] < Len(Work[b])
  /\ next' = [next EXCEPT ![b] = @ + 1]
  /\ Goto(b, "creating")
  /\ UNCHANGED <<service, held, mirror, log, accepted, reader, deletes, crashes>>

(* The create is applied, or meets a response under its id; a rejection may    *)
(* read like the latter (an item of it exists already), or not.                *)
Create(b) ==
  /\ box[b].pc = "creating"
  /\ \/ Again(b, FALSE) /\ UNCHANGED <<service, held>>
     \/ Again(b, TRUE) /\ (UNCHANGED <<service, held>> \/ (service = NoWrite /\ Holds(WriteOf(b))))
     \/ LastTry(b) /\ Rest(b) /\ (UNCHANGED <<service, held>> \/ (service = NoWrite /\ Holds(WriteOf(b))))
     \/ service = NoWrite /\ Holds(WriteOf(b)) /\ Goto(b, "mirroring")
     \/ Goto(b, "updating") /\ UNCHANGED <<service, held>>
     \/ Rest(b) /\ UNCHANGED <<service, held>>
  /\ UNCHANGED <<mirror, log, next, accepted, reader, deletes, crashes>>

(* A refused update is a failure, unless the create was ambiguous.             *)
Refused(b) == IF box[b].ambiguous THEN Goto(b, "checking") ELSE Rest(b)

(* The service takes no update of a response that is over.                     *)
Updatable == service # NoWrite /\ service.status = "in_progress"
Update(b) ==
  /\ box[b].pc = "updating"
  /\ \/ /\ box[b].tries + 1 < Attempts
        /\ box' = [box EXCEPT ![b].tries = @ + 1]
        /\ UNCHANGED <<service, held>> \/ (Updatable /\ Holds(WriteOf(b)))
     \/ Updatable /\ Holds(WriteOf(b)) /\ Goto(b, "mirroring")
     \/ service = NoWrite /\ Rest(b) /\ UNCHANGED <<service, held>>
     \/ service # NoWrite /\ Refused(b) /\ UNCHANGED <<service, held>>
     \/ LastTry(b) /\ (Rest(b) \/ Refused(b)) /\ (UNCHANGED <<service, held>> \/ (Updatable /\ Holds(WriteOf(b))))
  /\ UNCHANGED <<mirror, log, next, accepted, reader, deletes, crashes>>

(* Deviation: only when and how the turn ended is compared.                    *)
AlreadyAppliedByDate(w) ==
  service # NoWrite /\ service.created = w.created /\ service.status = w.status

(* #alreadyApplied: the fields that describe the outcome all have to match.    *)
AlreadyApplied(w) ==
  /\ service # NoWrite /\ service.created = w.created /\ service.status = w.status
  /\ service.item = w.item

(* The read that reconciles may fail: then the update's own failure stands.    *)
Check(b) ==
  /\ box[b].pc = "checking"
  /\ Rest(b) \/ (AlreadyApplied(WriteOf(b)) /\ Goto(b, "mirroring"))
  /\ UNCHANGED <<service, held, mirror, log, next, accepted, reader, deletes, crashes>>

(* #mirror: best effort; a record that cannot be written is dropped.           *)
Mirror(b) ==
  /\ box[b].pc = "mirroring"
  /\ \/ mirror' = [mirror EXCEPT ![b] = WriteOf(b)] /\ Rest(b) /\ accepted' = accepted \cup {WriteOf(b)}
     \/ Goto(b, "dropping") /\ accepted' = accepted \cup {WriteOf(b)} /\ UNCHANGED mirror
  /\ UNCHANGED <<service, held, log, next, reader, deletes, crashes>>

-----------------------------------------------------------------------------
(* delete: of the service first, and of the files whatever it answers but a    *)
(* failure.                                                                    *)
Delete(b) ==
  /\ box[b].pc = "idle" /\ deletes < MaxDeletes
  /\ deletes' = deletes + 1
  /\ Goto(b, "deleting")
  /\ UNCHANGED <<service, held, mirror, log, next, accepted, reader, crashes>>

DeleteRemote(b) ==
  /\ box[b].pc = "deleting"
  /\ \/ service' = NoWrite /\ Goto(b, "dropping")
     \/ service' \in {service, NoWrite} /\ Again(b, TRUE)
     \/ service' \in {service, NoWrite} /\ Rest(b)
  /\ UNCHANGED <<held, mirror, log, next, accepted, reader, deletes, crashes>>

(* FileResponseProvider.delete: the log goes before the record; either removal *)
(* may fail, and is not repeated.                                              *)
DropLog(b) ==
  /\ box[b].pc = "dropping"
  /\ \/ mirror[b] # NoWrite /\ log' = [log EXCEPT ![b] = 0] /\ Goto(b, "dropped")
     \/ Rest(b) /\ UNCHANGED log
  /\ UNCHANGED <<service, held, mirror, next, accepted, reader, deletes, crashes>>

DropRecord(b) ==
  /\ box[b].pc = "dropped"
  /\ mirror' \in {mirror, [mirror EXCEPT ![b] = NoWrite]}
  /\ Rest(b)
  /\ UNCHANGED <<service, held, log, next, accepted, reader, deletes, crashes>>

(* putEvents: the events of a turn that was written, if the record is still    *)
(* the one of its generation.                                                  *)
PutEvents(b) ==
  /\ box[b].pc = "idle"
  /\ \E i \in 1 .. next[b] :
       /\ Work[b][i].turn # log[b]
       /\ mirror[b] # NoWrite /\ mirror[b].turn = Work[b][i].turn
       /\ log' = [log EXCEPT ![b] = Work[b][i].turn]
  /\ UNCHANGED <<service, held, mirror, box, next, accepted, reader, deletes, crashes>>

-----------------------------------------------------------------------------
(* get, then getEvents of the generation that it answered with.                *)
Get(b) ==
  /\ reader.pc = "none" /\ service # NoWrite
  /\ reader' = [NoReader EXCEPT !.pc = "got", !.box = b, !.response = service]
  /\ UNCHANGED <<service, held, mirror, log, box, next, accepted, deletes, crashes>>

(* Deviation: the second of its creation tells a turn.                         *)
SameSecond(local, remote) == local.created = remote.created /\ local.status = remote.status

(* sameTurn                                                                    *)
SameTurn(local, remote) ==
  local.created = remote.created /\ local.status = remote.status /\ local.item = remote.item

GetMirror ==
  /\ reader.pc = "got"
  /\ LET local == mirror[reader.box]
     IN  reader' = IF local # NoWrite /\ SameTurn(local, reader.response)
                   THEN [reader EXCEPT !.pc = "fenced", !.generation = local.turn] ELSE NoReader
  /\ UNCHANGED <<service, held, mirror, log, box, next, accepted, deletes, crashes>>

(* fencedEvents: the log of another generation reads as absent.                *)
GetEvents ==
  /\ reader.pc = "fenced"
  /\ reader' = IF log[reader.box] = reader.generation THEN [reader EXCEPT !.pc = "replayed"] ELSE NoReader
  /\ UNCHANGED <<service, held, mirror, log, box, next, accepted, deletes, crashes>>

Close ==
  /\ reader.pc = "replayed" /\ reader' = NoReader
  /\ UNCHANGED <<service, held, mirror, log, box, next, accepted, deletes, crashes>>

(* The process dies in the middle of what it does; its files may be gone.      *)
Crash(b) ==
  /\ crashes < MaxCrashes
  /\ crashes' = crashes + 1
  /\ Rest(b)
  /\ \/ UNCHANGED <<mirror, log>>
     \/ mirror' = [mirror EXCEPT ![b] = NoWrite] /\ log' = [log EXCEPT ![b] = 0]
  /\ reader' = IF reader.box = b THEN NoReader ELSE reader
  /\ UNCHANGED <<service, held, next, accepted, deletes>>

Done ==
  /\ \A b \in Boxes : box[b].pc = "idle" /\ next[b] = Len(Work[b])
  /\ UNCHANGED vars

Next ==
  \/ \E b \in Boxes :
       \/ Put(b) \/ Create(b) \/ Update(b) \/ Check(b) \/ Mirror(b) \/ Delete(b) \/ DeleteRemote(b)
       \/ DropLog(b) \/ DropRecord(b) \/ PutEvents(b) \/ Get(b) \/ Crash(b)
  \/ GetMirror \/ GetEvents \/ Close \/ Done
Spec == Init /\ [][Next]_vars

-----------------------------------------------------------------------------
(* Two turns without output, created in one second, cannot be told apart.      *)
Alike(w, v) == w.item = "" /\ v.item = "" /\ w.created = v.created /\ w.status = v.status

(* A write that was reported as stored has been held by the service, however   *)
(* often its requests were repeated and whichever answers were lost: no        *)
(* outcome of another turn is taken for it.                                    *)
AcceptedIsHeld == \A w \in accepted : w \in held \/ \E v \in held : Alike(w, v)

(* Who replays the events of a response reads those of the turn that the       *)
(* service answered with, also where another sandbox has written since; and a  *)
(* log never outlives the record that fences it, nor is there a record of a    *)
(* write that the service never held.                                          *)
ReplayIsOfTheTurn ==
  /\ reader.pc = "replayed" =>
       \/ reader.generation = reader.response.turn
       \/ \E b \in Boxes : \E i \in DOMAIN Work[b] :
            Work[b][i].turn = reader.generation /\ Alike(Work[b][i], reader.response)
  /\ \A b \in Boxes :
       /\ log[b] # 0 => mirror[b] # NoWrite
       /\ mirror[b] # NoWrite => \E v \in held : v = mirror[b] \/ Alike(v, mirror[b])
=============================================================================
