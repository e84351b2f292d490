-------------------------------- MODULE Skills --------------------------------
(* How a run comes by its skills: skillsProvider (core/src/skills/provider.ts) *)
(* over deduplicateSkills, cacheSkills and aggregateSkills (source.ts), over   *)
(* what the program holds itself and the catalogue of an MCP server            *)
(* (mcp/src/skills.ts).  Runs share the cache and each other's loads; a load   *)
(* works with the context of the run that started it.                          *)
EXTENDS Naturals, Sequences
CONSTANTS Runs,
          Tenants,      \* the isolation keys of the cache
          MaxClock      \* bound on the time, in refresh intervals

VARIABLES
  alone,      \* the server is the only source: nothing aggregates
  refreshes,  \* refreshIntervalMs is set
  clock,
  loads,      \* the calls of source.getSkills so far
  entries,    \* of each key: the load that the cache holds, 0 for none
  asks        \* what a run is doing; late: it was given a failure of the past
skillVars == <<alone, refreshes, clock, loads, entries, asks>>

(* What an index may list; no skill can be built from an entry that is bad.    *)
Catalogues == {<<"y", "bad", "x">>, <<"x", "y", "x">>}
NewAsk == [pc |-> "new", tenant |-> "", at |-> 0, load |-> 0, aborted |-> FALSE, late |-> FALSE]

SkillsInit ==
  /\ alone \in BOOLEAN /\ refreshes \in BOOLEAN /\ clock = 0
  /\ loads = <<>> /\ entries = [t \in Tenants |-> 0]
  /\ asks = [r \in Runs |-> NewAsk]

-----------------------------------------------------------------------------
(* cacheSkills: a fresh entry serves everybody, whether it is loaded or not.   *)
IsFresh(l) == refreshes => loads[l].at = clock
NewLoad(r, tenant) ==
  [tenant |-> tenant, at |-> clock, by |-> r, status |-> "reading", skills |-> <<>>]
BeforeRun(r) ==
  /\ asks[r].pc = "new"
  /\ \E tenant \in Tenants :
       LET held  == entries[tenant]
           finds == held # 0 /\ IsFresh(held)
           l     == IF finds THEN held ELSE Len(loads) + 1
       IN  /\ loads' = IF finds THEN loads ELSE Append(loads, NewLoad(r, tenant))
           /\ entries' = [entries EXCEPT ![tenant] = l]
           /\ asks' = [asks EXCEPT ![r] = [NewAsk EXCEPT !.pc = "asking", !.tenant = tenant, !.at = clock,
                         !.load = l, !.late = finds /\ loads[l].status = "failed" /\ asks[loads[l].by].pc = "failed"]]
  /\ UNCHANGED <<alone, refreshes, clock>>

(* buildSkill skips an entry that it cannot use; what is left keeps its place. *)
Usable(listed) == {i \in DOMAIN listed : listed[i] # "bad"}

(* What the server lists; the program's own skill comes after.                 *)
Own(listed) == IF alone THEN {} ELSE {Len(listed) + 1}
Skill(name, from, tenant) == [name |-> name, from |-> from, tenant |-> tenant]
Built(listed, tenant) ==
  [i \in Usable(listed) \cup Own(listed) |->
     IF i \in DOMAIN listed THEN Skill(listed[i], "server", tenant) ELSE Skill("y", "local", tenant)]
Loaded(l, listed) ==
  loads' = [loads EXCEPT ![l].status = "done", ![l].skills = Built(listed, loads[l].tenant)]

(* readIndex: a catalogue, none, or a refusal.  A refusal is the load's own    *)
(* failure when nothing aggregates or the run that started it is aborted.      *)
HasIndex(l) == \E listed \in Catalogues : Loaded(l, listed)
HasNoIndex(l) == Loaded(l, <<>>)
Refuses(l) ==
  IF alone \/ asks[loads[l].by].aborted THEN loads' = [loads EXCEPT ![l].status = "failed"]
  ELSE Loaded(l, <<>>)
ReadIndex(l) ==
  /\ loads[l].status = "reading"
  /\ HasIndex(l) \/ HasNoIndex(l) \/ Refuses(l)
  /\ UNCHANGED <<alone, refreshes, clock, entries, asks>>

(* Deviation: whatever the cache holds by now goes.                            *)
EvictedBlindly(l) == [entries EXCEPT ![loads[l].tenant] = 0]

(* A failed load goes, unless a newer one has taken its place.                 *)
Evicted(l) == [entries EXCEPT ![loads[l].tenant] = IF @ = l THEN 0 ELSE @]

(* The run that started a load hears of it first, and evicts one that failed.  *)
Resume(r) ==
  LET l == asks[r].load
  IN  /\ asks[r].pc = "asking" /\ loads[l].status # "reading"
      /\ loads[l].by = r \/ asks[loads[l].by].pc # "asking"
      /\ asks' = [asks EXCEPT ![r].pc = IF loads[l].status = "done" THEN "ready" ELSE "failed"]
      /\ entries' = IF loads[l].by = r /\ loads[l].status = "failed" THEN Evicted(l) ELSE entries
      /\ UNCHANGED <<alone, refreshes, clock, loads>>

Abort(r) ==
  /\ asks[r].pc = "asking" /\ ~asks[r].aborted
  /\ asks' = [asks EXCEPT ![r].aborted = TRUE]
  /\ UNCHANGED <<alone, refreshes, clock, loads, entries>>

(* deduplicateSkills: the first of a name wins.                                *)
Deduplicated(skills) ==
  LET first == {i \in DOMAIN skills : \A j \in DOMAIN skills : j < i => skills[j].name # skills[i].name}
  IN  {skills[i] : i \in first}
SkillsOf(r) == Deduplicated(loads[asks[r].load].skills)

Tick ==
  /\ refreshes /\ clock < MaxClock /\ clock' = clock + 1
  /\ UNCHANGED <<alone, refreshes, loads, entries, asks>>

SkillsDone == (\A r \in Runs : asks[r].pc \in {"ready", "failed"}) /\ UNCHANGED skillVars

SkillsNext ==
  \/ \E r \in Runs : BeforeRun(r) \/ Resume(r) \/ Abort(r)
  \/ \E l \in DOMAIN loads : ReadIndex(l)
  \/ Tick \/ SkillsDone
SkillsSpec == SkillsInit /\ [][SkillsNext]_skillVars

-----------------------------------------------------------------------------
(* A run is told of skills that were loaded for its own tenant and not before  *)
(* the interval it asked in; what the program holds itself is not hidden by a  *)
(* server that refuses.                                                        *)
ListIsItsOwn ==
  \A r \in Runs : asks[r].pc = "ready" =>
    /\ \A s \in SkillsOf(r) : s.tenant = asks[r].tenant
    /\ refreshes => loads[asks[r].load].at = asks[r].at
    /\ ~alone => \E s \in SkillsOf(r) : s.name = "y"

(* Loads are shared and the good ones kept: a second load of a key is made     *)
(* only when the one before it is out of date or has failed.                   *)
LoadsAreShared ==
  \A k, l \in DOMAIN loads : k < l /\ loads[k].tenant = loads[l].tenant =>
    loads[k].status = "failed" \/ (refreshes /\ loads[k].at < loads[l].at)

(* A load that has failed is not an answer: the next run makes its own.        *)
FailuresAreRetried == \A r \in Runs : ~asks[r].late

(* A run gets its own tenant's skills, and a load serves as long as it is good.*)
SkillsAreItsOwn == ListIsItsOwn /\ LoadsAreShared /\ FailuresAreRetried
===============================================================================
