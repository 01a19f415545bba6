--------------------------- MODULE ConnLifecycle ---------------------------
(***************************************************************************)
(* What one proxied connection promises, stripped of buffers and          *)
(* callbacks: the per-connection state enum of the spec's design notes    *)
(* (SocksNegotiating, Connecting, Open, Flushing, RepliedAndDraining),    *)
(* framed by the slot being unused before accept and freed after close.   *)
(* halted is the process having aborted: after it nothing moves.          *)
(***************************************************************************)

VARIABLES
    phase,   \* where the connection is in its life
    halted   \* the process has exited (obfs_assert / obfs_abort)

Phases == {"unborn", "negotiating", "connecting", "open", "flushing",
           "draining", "closed"}

(* Phases in which the connection still owns resources.                    *)
Active == {"negotiating", "connecting", "open", "flushing", "draining"}

Init == phase = "unborn" /\ halted = FALSE

Move(from, to) == /\ ~halted /\ phase \in from /\ phase' \in to
                  /\ UNCHANGED halted

(* A listener callback: a SOCKS client negotiates first, a simple mode     *)
(* connects at once, and a failed setup frees the slot.                   *)
Accept == Move({"unborn"}, {"negotiating", "connecting", "closed"})

(* The SOCKS request named an address: the outbound connect starts.        *)
AddressKnown == Move({"negotiating"}, {"connecting"})

(* A negative SOCKS reply is queued: unsupported command, failed connect.  *)
Refuse == Move({"negotiating", "connecting"}, {"draining"})

(* The outbound connection completed.                                      *)
Establish == Move({"connecting"}, {"open"})

(* One peer ended while data is still owed to the other.                   *)
HalfClose == Move({"open"}, {"flushing"})

(* The connection is released, from any active phase.                      *)
Close == Move(Active, {"closed"})

(* Leaving the phases that wait only on the reactor and the network.       *)
Settle == /\ phase \in {"connecting", "flushing", "draining"}
          /\ (Establish \/ Refuse \/ Close)

Halt == ~halted /\ halted' = TRUE /\ UNCHANGED phase

Next == Accept \/ AddressKnown \/ Refuse \/ Establish \/ HalfClose \/ Close \/ Halt

SafeSpec == Init /\ [][Next]_<<phase, halted>>

(* A pending connect resolves, and a flush or a reply drain ends in a      *)
(* close, unless the process halts first.                                  *)
Spec == SafeSpec /\ WF_<<phase, halted>>(Settle)

(* Under SafeSpec every step out of a waiting phase is a Settle step and   *)
(* Settle is enabled exactly in those phases while not halted, so the     *)
(* fairness condition of Spec says the same as this leads-to.              *)
Settles == \A p \in {"connecting", "flushing", "draining"} :
               phase = p ~> (phase # p \/ halted)

=============================================================================
