------------------------------- MODULE Triage -------------------------------
(***************************************************************************)
(* triage-engine: one ticket, its row in investigation_states, and the     *)
(* requests that start an investigation (a webhook, perhaps delivered      *)
(* again) or resume it with a human's decision.  The nodes before the      *)
(* human's keep their state in memory: only their end is visible.          *)
(*                                                                         *)
(* A definition named X_Y is X with the fault Y, to test the properties.   *)
(***************************************************************************)
EXTENDS Naturals

CONSTANTS Request,
          MaxRequests   \* bound

ASSUME TriageAssumption == MaxRequests \in Nat

VARIABLES
  row,         \* the state saved for the ticket: its status and the opening it is of
  request,     \* what each request does: [op, at, number, loaded]
  served,      \* requests begun
  openings,    \* states saved for a human to decide
  decided,     \* history: decisions saved: the opening, and the request's number
  rivals        \* history: <<a, b>>: b had loaded the opening when a saved its decision
triageVars == <<row, request, served, openings, decided, rivals>>

NoRequest == [op |-> "none", at |-> "rest", number |-> 0, loaded |-> 0]

TriageInit ==
  /\ row = [status |-> "none", of |-> 0] /\ request = [q \in Request |-> NoRequest]
  /\ served = 0 /\ openings = 0 /\ decided = {} /\ rivals = {}

Serve(q, op, there) ==
  /\ request[q] = NoRequest /\ served < MaxRequests
  /\ served' = served + 1
  /\ request' = [request EXCEPT ![q] = [op |-> op, at |-> there, number |-> served + 1, loaded |-> 0]]
  /\ UNCHANGED <<row, openings, decided, rivals>>

StartInvestigation(q) == Serve(q, "start", "nodes")
ResumeInvestigation(q, approved) == Serve(q, IF approved THEN "approve" ELSE "reject", "load")

Respond(q) == request' = [request EXCEPT ![q] = NoRequest]

\* A node before the human's, the checkpoint or the load fails.
RequestFails(q) ==
  /\ request[q].at \in {"nodes", "load", "save", "notify"}
  /\ Respond(q)
  /\ UNCHANGED <<row, served, openings, decided, rivals>>

\* awaitHuman: the state is saved, over whatever the row says.
SaveAwaiting(q) ==
  /\ request[q].at = "nodes"
  /\ openings' = openings + 1
  /\ row' = [status |-> "awaiting_human", of |-> openings + 1]
  /\ request' = [request EXCEPT ![q].at = "notify"]
  /\ UNCHANGED <<served, decided, rivals>>

SendApprovalRequest(q) ==
  /\ request[q].at = "notify"
  /\ Respond(q)
  /\ UNCHANGED <<row, served, openings, decided, rivals>>

LoadState_Unchecked(q) ==
  /\ request[q].at = "load"
  /\ IF row.status = "none" THEN Respond(q)
     ELSE request' = [request EXCEPT ![q].at = "save", ![q].loaded = row.of]
  /\ UNCHANGED <<row, served, openings, decided, rivals>>

\* Resume: only a ticket that awaits approval goes on.
LoadState(q) ==
  /\ request[q].at = "load"
  /\ IF row.status # "awaiting_human" THEN Respond(q)
     ELSE request' = [request EXCEPT ![q].at = "save", ![q].loaded = row.of]
  /\ UNCHANGED <<row, served, openings, decided, rivals>>

\* The state loaded, with its decision, over whatever the row says by now.
SaveDecision(q) ==
  /\ request[q].at = "save"
  /\ LET r == request[q]
     IN /\ row' = [status |-> IF r.op = "approve" THEN "completed" ELSE "rejected", of |-> r.loaded]
        /\ decided' = decided \cup {[of |-> r.loaded, by |-> r.number]}
        /\ rivals' = rivals \cup {<<r.number, request[p].number>> :
                                 p \in {p \in Request : request[p].at = "save" /\ request[p].loaded = r.loaded}}
  /\ Respond(q)
  /\ UNCHANGED <<served, openings>>

TriageNext ==
  \E q \in Request : \/ StartInvestigation(q)
                     \/ \E approved \in BOOLEAN : ResumeInvestigation(q, approved)
                     \/ RequestFails(q) \/ SaveAwaiting(q) \/ SendApprovalRequest(q)
                     \/ LoadState(q) \/ SaveDecision(q)
TriageSpec == TriageInit /\ [][TriageNext]_triageVars

-----------------------------------------------------------------------------
\* What was put before a human once is decided a second time only by a request
\* that had loaded it before the first decision was saved: however webhooks and
\* decisions are delivered again, fail, and overlap on other openings of the
\* ticket, a request that begins after the decision changes nothing (engine.go
\* 31-88).
RedecidedOnlyInRace ==
  \A d, e \in decided : d.of = e.of /\ d.by # e.by => <<d.by, e.by>> \in rivals \/ <<e.by, d.by>> \in rivals

\* deep-dive.md 227: resume is idempotent, the status is checked to prevent a
\* double resume (engine.go 60-88).
ResumeIsIdempotent == \A d, e \in decided : d.of = e.of => d.by = e.by
=============================================================================
