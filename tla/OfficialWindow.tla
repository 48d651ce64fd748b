--------------------------- MODULE OfficialWindow ---------------------------
(***************************************************************************)
(* What the official window promises of its planned units: each is         *)
(* submitted at most once and while it is open, concluded exactly once,    *)
(* counted as QUALIFYING only if its result was accepted, and the window   *)
(* ends when every unit is concluded.                                      *)
(***************************************************************************)
CONSTANT Units       \* the planned units

VARIABLES
  window,            \* "waiting", "open" or "ended"
  submissions,       \* how often the transaction of each unit was sent
  accepted,          \* units whose result the Collector accepted
  account            \* the conclusion of each unit, or "OPEN"

windowVars == <<window, submissions, accepted, account>>

WindowInit ==
  /\ window = "waiting"
  /\ submissions = [u \in Units |-> 0]
  /\ accepted = {}
  /\ account = [u \in Units |-> "OPEN"]

StartUnits ==
  /\ window = "waiting" /\ window' = "open"
  /\ UNCHANGED <<submissions, accepted, account>>

Submit(u) ==
  /\ window = "open" /\ account[u] = "OPEN" /\ submissions[u] = 0
  /\ submissions' = [submissions EXCEPT ![u] = 1]
  /\ UNCHANGED <<window, accepted, account>>

Accepted(u) ==
  /\ submissions[u] = 1 /\ u \notin accepted
  /\ accepted' = accepted \cup {u}
  /\ UNCHANGED <<window, submissions, account>>

Conclude(u, status) ==
  /\ window = "open" /\ account[u] = "OPEN"
  /\ status = "QUALIFYING" => u \in accepted
  /\ account' = [account EXCEPT ![u] = status]
  /\ UNCHANGED <<window, submissions, accepted>>

EndUnits ==
  /\ window = "open" /\ \A u \in Units : account[u] # "OPEN"
  /\ window' = "ended"
  /\ UNCHANGED <<submissions, accepted, account>>

WindowNext ==
  \/ StartUnits \/ EndUnits
  \/ \E u \in Units : \/ Submit(u) \/ Accepted(u)
                      \/ \E status \in {"QUALIFYING", "MISSING", "INVALID"} :
                            Conclude(u, status)

WindowSpec == WindowInit /\ [][WindowNext]_windowVars
=============================================================================
