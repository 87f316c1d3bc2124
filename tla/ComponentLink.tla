--------------------------- MODULE ComponentLink ---------------------------
(***************************************************************************)
(* What a component promises of its 'connect' and 'disconnect' events: a   *)
(* link that comes up and goes down and that, once disconnect() was        *)
(* called, goes down for good.  Runner uses a link of this kind; the       *)
(* events of the connections implement it (Connections).                   *)
(***************************************************************************)
CONSTANT Components

VARIABLE link

LinkInit == link = [c \in Components |-> "down"]

Moved(c, from, to) ==
  link[c] = from /\ link' = [link EXCEPT ![c] = to]

Up(c) == Moved(c, "down", "up")

Down(c) == Moved(c, "up", "down")

Told(c) == Moved(c, "up", "closing") \/ Moved(c, "down", "closed")

Gone(c) == Moved(c, "closing", "closed")

LinkNext == \E c \in Components : Up(c) \/ Down(c) \/ Told(c) \/ Gone(c)

LinkSafety == LinkInit /\ [][LinkNext]_link

(* A link that was told to close does.                                     *)
LinkSpec == LinkSafety /\ \A c \in Components : WF_link(Gone(c))
=============================================================================
