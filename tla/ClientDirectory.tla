-------------------------- MODULE ClientDirectory --------------------------
(***************************************************************************)
(* What the tunnel registry promises, without pools, indexes or locks: at  *)
(* any time a client_id has at most one current session.  It changes to a  *)
(* session that was never current before, or to none, and to none only     *)
(* after that very session has ended.                                      *)
(***************************************************************************)
CONSTANTS Client, Session, NoSession

VARIABLES
    current,    \* current[c]: the session that serves client c, or NoSession
    used,       \* the sessions that are or have been current
    ended       \* the sessions whose end has been announced

vars == <<current, used, ended>>

\* Client c connects with a fresh session, which replaces any other at once.
Connect(c, s) ==
    /\ s \notin used
    /\ used' = used \union {s}
    /\ current' = [current EXCEPT ![c] = s]
    /\ UNCHANGED ended

\* The end of a session is announced; its client may be served by it still.
End(s) ==
    /\ s \in used \ ended
    /\ ended' = ended \union {s}
    /\ UNCHANGED <<current, used>>

\* Client c's session is withdrawn, having ended.
Withdraw(c) ==
    /\ current[c] \in ended
    /\ current' = [current EXCEPT ![c] = NoSession]
    /\ UNCHANGED <<used, ended>>

Init ==
    /\ current = [c \in Client |-> NoSession]
    /\ used = {}
    /\ ended = {}

Next ==
    \/ \E c \in Client, s \in Session : Connect(c, s)
    \/ \E s \in Session : End(s)
    \/ \E c \in Client : Withdraw(c)

Spec == Init /\ [][Next]_vars
=============================================================================
