--------------------------- MODULE ConnectionTable ---------------------------
(***************************************************************************)
(* The connections a hub keeps (ProcessHub/core/hub_core.py, _connections):  *)
(* per panel the session it belongs to and, computed when a panel           *)
(* registers, the panels it shares the session with.  One action per block  *)
(* under _connection_lock.  connected_at is left out, no decision reads it. *)
(***************************************************************************)

CONSTANTS Panels,       \* panel ids
          Sessions,     \* session ids
          NoSession     \* the session of a panel that is not connected

ASSUME NoSessionIsNone == NoSession \notin Sessions

VARIABLES
  session,              \* panel -> session_id, NoSession if not connected
  sessionPanels         \* panel -> session_panel_ids

tableVars == <<session, sessionPanels>>

TableInit ==
  /\ session = [p \in Panels |-> NoSession]
  /\ sessionPanels = [p \in Panels |-> {}]

IsConnected(p) == session[p] # NoSession

Connected == {p \in Panels : IsConnected(p)}

\* Mutant: only the panel that registers is given the list.
RegisterAlone(p, s) ==
  /\ session' = [session EXCEPT ![p] = s]
  /\ sessionPanels' = [sessionPanels EXCEPT ![p] = {q \in Panels : session'[q] = s}]

\* handle_register: the panel's entry is replaced, and every panel that is now
\* in its session is given the same list.
Register(p, s) ==
  /\ session' = [session EXCEPT ![p] = s]
  /\ LET sharing == {q \in Panels : session'[q] = s}
     IN  sessionPanels' = [q \in Panels |-> IF q \in sharing THEN sharing
                                                              ELSE sessionPanels[q]]

\* handle_unregister: the panels of the session keep the list they have.
Unregister(p) ==
  /\ session' = [session EXCEPT ![p] = NoSession]
  /\ sessionPanels' = [sessionPanels EXCEPT ![p] = {}]

\* handle_connection_info
ConnectionInfo == [p \in Connected |-> [session |-> session[p], panels |-> sessionPanels[p]]]

\* reset, shutdown
ClearConnections ==
  /\ session' = [p \in Panels |-> NoSession]
  /\ sessionPanels' = [p \in Panels |-> {}]

-----------------------------------------------------------------------------
TableTyped ==
  /\ session \in [Panels -> Sessions \cup {NoSession}]
  /\ sessionPanels \in [Panels -> SUBSET Panels]

\* Whoever is connected under a session knows all who are: in whatever order
\* panels register, register again under another session, leave and are
\* cleared (handle_register computes the lists when somebody registers, and at
\* no other time).
SessionsComplete ==
  \A p, q \in Connected : session[p] = session[q] => q \in sessionPanels[p]

=============================================================================
