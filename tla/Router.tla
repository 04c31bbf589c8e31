-------------------------------- MODULE Router --------------------------------
(***************************************************************************)
(* multiagent.Router, the names and tags an orchestrator finds its agents  *)
(* by, and RunByTag, which looks a tag up and then consults the name it has*)
(* found: between the two the agent may be registered again under other    *)
(* tags.  Every method holds the router's lock from its first line to its  *)
(* last, so that each is one action.                                       *)
(***************************************************************************)
EXTENDS Naturals, Sequences, FiniteSets, SequencesExt

CONSTANTS
  AgentNames,       \* names of the agents
  Tags,
  TagLists,         \* values of AgentConfig.Tags, sequences of tags
  TagCallers,       \* calls of RunByTag
  NoAgent,
  MaxRegistrations  \* bound

ASSUME RouterAssumption ==
  /\ NoAgent \notin AgentNames /\ MaxRegistrations \in Nat
  /\ \A list \in TagLists : Range(list) \subseteq Tags

VARIABLES
  agents,    \* name -> tags of the registered configuration
  tagIdx,    \* tag -> names, in the order in which Route prefers them
  turnOf,    \* history: when a name was last registered, 0 for never
  found,     \* the name a call of RunByTag has found, or NoAgent
  routeAt    \* where the call stands: "route", "consult", "ran" or "refused"

routerVars == <<agents, tagIdx, turnOf, found, routeAt>>

Registrations == {turnOf[n] : n \in AgentNames}
NamesOf(tag) == IF tag \in DOMAIN tagIdx THEN tagIdx[tag] ELSE <<>>

RouterInit ==
  /\ agents = [n \in {} |-> <<>>]
  /\ tagIdx = [t \in {} |-> <<>>]
  /\ turnOf = [n \in AgentNames |-> 0]
  /\ found = [k \in TagCallers |-> NoAgent]
  /\ routeAt = [k \in TagCallers |-> "route"]

\* Mutant: the tags of the previous configuration keep the name.
MutantWithoutName(index, name, tags) == index

\* The index without name under the tags of its previous configuration; a tag that
\* has no name left is deleted.  A name is listed once under a tag, so that filtering
\* it out is removing the one occurrence it has.
WithoutName(index, name, tags) ==
  LET left == [t \in DOMAIN index |->
        IF t \in Range(tags) THEN RemoveFirst(index[t], name) ELSE index[t]]
  IN  [t \in {u \in DOMAIN index : left[u] # <<>>} |-> left[t]]

\* The index with name last under each of tags that does not have it.
WithName(index, name, tags) ==
  [t \in DOMAIN index \cup Range(tags) |->
     LET names == IF t \in DOMAIN index THEN index[t] ELSE <<>>
     IN  IF t \in Range(tags) /\ name \notin Range(names) THEN Append(names, name) ELSE names]

Register(name, tags) ==
  /\ \A r \in Registrations : r < MaxRegistrations
  /\ LET index == IF name \in DOMAIN agents THEN WithoutName(tagIdx, name, agents[name]) ELSE tagIdx
     IN  tagIdx' = WithName(index, name, tags)
  /\ agents' = [n \in DOMAIN agents \cup {name} |-> IF n = name THEN tags ELSE agents[n]]
  /\ turnOf' = [turnOf EXCEPT ![name] =
       1 + CHOOSE m \in Registrations : \A r \in Registrations : r <= m]
  /\ UNCHANGED <<found, routeAt>>

\* RunByTag: Route gives the first name of the tag, or an error.
Route(k, tag) ==
  /\ routeAt[k] = "route"
  /\ IF NamesOf(tag) # <<>> /\ Head(NamesOf(tag)) \in DOMAIN agents
     THEN /\ found' = [found EXCEPT ![k] = Head(NamesOf(tag))]
          /\ routeAt' = [routeAt EXCEPT ![k] = "consult"]
     ELSE routeAt' = [routeAt EXCEPT ![k] = "refused"] /\ UNCHANGED found
  /\ UNCHANGED <<agents, tagIdx, turnOf>>

\* Then Consult looks the name up (routerResolver.Get).
ConsultFound(k) ==
  /\ routeAt[k] = "consult"
  /\ routeAt' = [routeAt EXCEPT ![k] = IF found[k] \in DOMAIN agents THEN "ran" ELSE "refused"]
  /\ UNCHANGED <<agents, tagIdx, turnOf, found>>

RouterNext ==
  \/ \E name \in AgentNames, tags \in TagLists : Register(name, tags)
  \/ \E k \in TagCallers :
       ConsultFound(k) \/ \E tag \in Tags : Route(k, tag)

RouterSpec == RouterInit /\ [][RouterNext]_routerVars

-------------------------------------------------------------------------------
(* Properties *)

\* Type invariant.
RouterTypeOK ==
  /\ DOMAIN agents \subseteq AgentNames /\ DOMAIN tagIdx \subseteq Tags
  /\ found \in [TagCallers -> AgentNames \cup {NoAgent}]
  /\ routeAt \in [TagCallers -> {"route", "consult", "ran", "refused"}]

\* However often agents are registered again, with more, fewer or repeated tags, the
\* index says what the configurations say: the names under a tag are those of the
\* agents that have it now, each once, the one that was registered last at the end,
\* and a tag nobody has is gone.  So Route and RouteAll never give an agent for a tag
\* it no longer has, and a name RunByTag has found is one Consult still finds
\* (Register, Route, RouteAll, RunByTag).
RoutesCurrent ==
  /\ \A t \in Tags :
       LET has == {n \in DOMAIN agents : t \in Range(agents[n])}
       IN  /\ Range(NamesOf(t)) = has
           /\ \A i, j \in DOMAIN NamesOf(t) :
                i < j => turnOf[NamesOf(t)[i]] < turnOf[NamesOf(t)[j]]
           /\ t \in DOMAIN tagIdx <=> has # {}
  /\ \A k \in TagCallers : routeAt[k] = "refused" => found[k] = NoAgent
===============================================================================
