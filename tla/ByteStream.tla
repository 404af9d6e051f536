----------------------------- MODULE ByteStream -----------------------------
(***************************************************************************)
(* What one direction of a relay promises: bytes leave their writer, are   *)
(* in transit and arrive, in order, once each; and the end of the stream   *)
(* is seen only when nothing is in transit.  What the writer never wrote   *)
(* may stay unsent.                                                        *)
(***************************************************************************)
EXTENDS Sequences

CONSTANT Content    \* all that there is to send

VARIABLES unsent, transit, delivered, ended

stream == <<unsent, transit, delivered, ended>>

Init == unsent \o transit = Content /\ delivered = <<>> /\ ended = FALSE

Send ==
    /\ unsent # <<>> /\ transit' = Append(transit, Head(unsent)) /\ unsent' = Tail(unsent)
    /\ UNCHANGED <<delivered, ended>>

Deliver ==
    /\ ~ended /\ transit # <<>>
    /\ delivered' = Append(delivered, Head(transit)) /\ transit' = Tail(transit)
    /\ UNCHANGED <<unsent, ended>>

Finish ==
    /\ transit = <<>> /\ ended' = TRUE
    /\ UNCHANGED <<unsent, transit, delivered>>

Next == Send \/ Deliver \/ Finish

Spec == Init /\ [][Next]_stream
=============================================================================
