----------------------------- MODULE TurnContract -----------------------------
(***************************************************************************)
(* What a turn of agent.Runtime promises its caller, without saying how:   *)
(* the runtime's memory of the session changes at most once per turn, all  *)
(* at once, and only to what the stores already hold; success is reported  *)
(* only after that change, and a process that comes back continues from    *)
(* what the stores hold.  An error may still follow the change, since      *)
(* executeFinalCommandPlan emits after it has published.                   *)
(***************************************************************************)

CONSTANTS
  Fresh,   \* the memory of a new session
  None     \* nothing a session could be resumed from

VARIABLES
  memory,   \* the session and conversation the runtime continues from
  durable,  \* what the stores hold of that session, or None
  phase,    \* "idle", "running", "committed" or "down"
  outcome   \* what the last finished turn reported

vars == <<memory, durable, phase, outcome>>

Init ==
  /\ memory = Fresh
  /\ durable = None
  /\ phase = "idle"
  /\ outcome = "none"

Begin ==
  /\ phase = "idle"
  /\ phase' = "running"
  /\ outcome' = "none"
  /\ UNCHANGED <<memory, durable>>

\* A checkpoint of the conversation or a save of the session.
Persist ==
  /\ phase = "running"
  /\ UNCHANGED <<memory, phase, outcome>>

Commit ==
  /\ phase = "running"
  /\ durable # None
  /\ phase' = "committed"
  /\ memory' = durable
  /\ UNCHANGED <<durable, outcome>>

Succeed ==
  /\ phase = "committed"
  /\ phase' = "idle"
  /\ outcome' = "ok"
  /\ UNCHANGED <<memory, durable>>

\* A save that reports an error may have reached the store, so durable may
\* change when a running turn fails, and only then.
Fail ==
  /\ phase # "down"
  /\ phase # "running" => durable' = durable
  /\ phase' = "idle"
  /\ outcome' = "error"
  /\ UNCHANGED memory

Crash ==
  /\ phase # "down"
  /\ phase' = "down"
  /\ outcome' = "none"
  /\ UNCHANGED <<memory, durable>>

\* A new process continues from the stores or, when they hold nothing, anew.
Recover ==
  /\ phase = "down"
  /\ phase' = "idle"
  /\ memory' = IF durable = None THEN Fresh ELSE durable
  /\ UNCHANGED <<durable, outcome>>

Next == Begin \/ Persist \/ Commit \/ Succeed \/ Fail \/ Crash \/ Recover

Spec == Init /\ [][Next]_vars
===============================================================================
