------------------------------ MODULE Registry ------------------------------
(***************************************************************************)
(* What the connection registry and shutdown promise (spec sections 4.6   *)
(* and 4.7), without listeners, buffers or callbacks: connections join    *)
(* while some listener accepts, leave one at a time, or all at once on a  *)
(* barbaric shutdown, and the hosting program is told to finish at each   *)
(* moment the set of connections is empty while shutting down.            *)
(***************************************************************************)
EXTENDS Naturals

CONSTANT Slots   \* connection identities

VARIABLES
    live,       \* connections that are set up and not yet freed
    accepting,  \* some listener is bound
    closing,    \* shutting_down
    finished    \* finish_shutdown calls so far

vars == <<live, accepting, closing, finished>>

Init == live = {} /\ accepting = FALSE /\ closing = FALSE /\ finished = 0

(* finish_shutdown is due when shutdown finds, or leaves, no connection.   *)
Finish(set) == IF set = {} THEN finished + 1 ELSE finished

Listen == accepting' = TRUE /\ UNCHANGED <<live, closing, finished>>

StopAccepting == accepting' = FALSE /\ UNCHANGED <<live, closing, finished>>

Register(c) == /\ accepting /\ c \notin live
               /\ live' = live \cup {c}
               /\ UNCHANGED <<accepting, closing, finished>>

Release(c) == /\ c \in live
              /\ live' = live \ {c}
              /\ finished' = IF closing THEN Finish(live') ELSE finished
              /\ UNCHANGED <<accepting, closing>>

Shutdown(barbaric) ==
    /\ closing' = TRUE
    /\ live' = IF barbaric THEN {} ELSE live
    /\ finished' = Finish(live')
    /\ UNCHANGED accepting

Next == \/ Listen \/ StopAccepting \/ \E b \in BOOLEAN : Shutdown(b)
        \/ \E c \in Slots : Register(c) \/ Release(c)

Spec == Init /\ [][Next]_vars

=============================================================================
