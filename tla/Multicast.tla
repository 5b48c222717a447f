----------------------------- MODULE Multicast -----------------------------
(***************************************************************************)
(* What the RTP engine promises its connections: a packet goes to exactly  *)
(* those who were on the air when it started, once each; nobody comes on   *)
(* or goes off the air in the middle of a packet; who has left for good    *)
(* never hears anything again.  RtspServer implements it.                  *)
(***************************************************************************)
CONSTANT Listeners

VARIABLES onAir,   \* who is on the air
          due,     \* who has still to be sent the packet on its way
          gone     \* who has left for good

vars == <<onAir, due, gone>>

TypeOK == /\ onAir \subseteq Listeners
          /\ due \subseteq Listeners
          /\ gone \subseteq Listeners

Init == /\ onAir = {}
        /\ due = {}
        /\ gone = {}

Join(l) == /\ due = {}
           /\ l \notin onAir \cup gone
           /\ onAir' = onAir \cup {l}
           /\ UNCHANGED <<due, gone>>

Leave(l) == /\ due = {}
            /\ onAir' = onAir \ {l}
            /\ UNCHANGED <<due, gone>>

LeaveForGood(l) == /\ l \in onAir => due = {}
                   /\ onAir' = onAir \ {l}
                   /\ gone' = gone \cup {l}
                   /\ UNCHANGED due

Packet == /\ due = {}
          /\ onAir # {}
          /\ due' = onAir
          /\ UNCHANGED <<onAir, gone>>

Send(l) == /\ l \in due
           /\ due' = due \ {l}
           /\ UNCHANGED <<onAir, gone>>

Next == \/ Packet
        \/ \E l \in Listeners : Join(l) \/ Leave(l) \/ LeaveForGood(l) \/ Send(l)

Safe == Init /\ [][Next]_vars

(* Audio keeps coming: packets keep starting and each gets to everyone due *)
Spec == Safe /\ WF_vars(Packet) /\ WF_vars(\E l \in Listeners : Send(l))
=============================================================================
