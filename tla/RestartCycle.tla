---------------------------- MODULE RestartCycle ----------------------------
(***************************************************************************)
(* What one restart round promises, whatever its bookkeeping: a round opens *)
(* for a set of panels, every one of them answers before the dead processes *)
(* are touched, and the round ends once.  RestartStateMachine implements    *)
(* this specification (its property RefinesCycle).                          *)
(***************************************************************************)
CONSTANT Panels            \* everybody a round can be opened for

VARIABLES phase,           \* "quiet", "gathering", "restarting" or "ended"
          awaited          \* panels whose answer the round still waits for

cycleVars == <<phase, awaited>>

Phases == {"quiet", "gathering", "restarting", "ended"}

CycleInit == phase = "quiet" /\ awaited = {}

\* A round opens for the affected panels; none can open while one is under way.
Open(P) ==
  /\ phase = "quiet"
  /\ phase' = "gathering" /\ awaited' = P

Answer(p) ==
  /\ phase = "gathering"
  /\ awaited' = awaited \ {p} /\ UNCHANGED phase

\* The processes are restarted only when nobody is waited for any more.
Go ==
  /\ phase = "gathering" /\ awaited = {}
  /\ phase' = "restarting" /\ UNCHANGED awaited

\* A round ends after its restart, or is given up while it gathers answers.
End ==
  /\ phase \in {"gathering", "restarting"}
  /\ phase' = "ended" /\ awaited' = {}

\* The hub can abandon a round at any point (reset).
Abandon ==
  /\ phase # "quiet"
  /\ phase' = "quiet" /\ awaited' = {}

CycleNext ==
  \/ \E P \in SUBSET Panels : Open(P)
  \/ \E p \in Panels : Answer(p)
  \/ Go
  \/ End
  \/ Abandon

CycleSpec == CycleInit /\ [][CycleNext]_cycleVars
=============================================================================
