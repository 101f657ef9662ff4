----------------------------- MODULE TurnService -----------------------------
(***************************************************************************)
(* What /session/stream promises about the turns of one session, without   *)
(* locks, files or screens: one turn at a time, each is refused or ends    *)
(* once, and a turn that ends with reason "idle" ends so because claude    *)
(* delivered an envelope for that very turn; a bridge that dies cuts its   *)
(* turn off.  TurnProtocol implements it.                                  *)
(***************************************************************************)
CONSTANTS
    Uuid,      \* turn uuids the bridge may mint
    Reason,    \* the reasons a `done` event may carry
    Cut,       \* what a turn is said to be whose bridge died
    None

VARIABLES
    current,   \* the turn that runs, or None
    delivered, \* the turns for which claude has delivered a right envelope
    result     \* per turn, "none" until it is refused or has ended

vars == <<current, delivered, result>>

Init ==
    /\ current = None
    /\ delivered = {}
    /\ result = [u \in Uuid |-> "none"]

\* A stream is admitted.
Begin(u) ==
    /\ current = None
    /\ result[u] = "none"
    /\ current' = u
    /\ UNCHANGED <<delivered, result>>

\* A stream finds the session busy: 409.
Refuse(u) ==
    /\ result[u] = "none" /\ current # u
    /\ result' = [result EXCEPT ![u] = "refused"]
    /\ UNCHANGED <<current, delivered>>

\* claude delivers, at any time: also late, for a turn that is over.
Deliver(u) ==
    /\ delivered' = delivered \cup {u}
    /\ UNCHANGED <<current, result>>

End(u, reason) ==
    /\ current = u
    /\ reason = "idle" => u \in delivered
    /\ current' = None
    /\ result' = [result EXCEPT ![u] = reason]
    /\ UNCHANGED delivered

\* The connection breaks off without an answer.
CutOff(u, how) ==
    /\ current = u
    /\ current' = None
    /\ result' = [result EXCEPT ![u] = how]
    /\ UNCHANGED delivered

Next == \E u \in Uuid : \/ Begin(u) \/ Refuse(u) \/ Deliver(u)
                        \/ \E reason \in Reason : End(u, reason)
                        \/ \E how \in Cut : CutOff(u, how)

Spec == Init /\ [][Next]_vars
=============================================================================
