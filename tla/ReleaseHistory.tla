---------------------------- MODULE ReleaseHistory ----------------------------
(***************************************************************************)
(* What the release machinery promises: the serving model is the newest    *)
(* release that has not been rolled back, and a rollback returns to the    *)
(* one that served before it, however many rollbacks follow each other.    *)
(***************************************************************************)
EXTENDS Naturals

VARIABLES
  history,  \* releases not rolled back: [model |-> ..., at |-> cutover time]
  active    \* the serving model

Newest(h) == CHOOSE e \in h : \A f \in h : f.at <= e.at

Init ==
  /\ history = {Newest(history)}
  /\ active = Newest(history).model

Release ==
  \E e \in history' \ history :
    /\ history' = history \union {e}
    /\ \A f \in history : f.at < e.at
    /\ active' = e.model

Rollback ==
  /\ history # {Newest(history)}
  /\ history' = history \ {Newest(history)}
  /\ active' = Newest(history').model

Next == Release \/ Rollback
vars == <<history, active>>
Spec == Init /\ [][Next]_vars
=============================================================================
