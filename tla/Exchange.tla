------------------------------ MODULE Exchange ------------------------------
(***************************************************************************)
(* What every protocol control promises of the channel it looks after.     *)
(* One party at a time is passed on to the radios: a radio that is         *)
(* repeated or the network.  The network takes a channel that nobody has,  *)
(* never one that a radio has; a radio that began while the network had    *)
(* the channel gets what is left of it.  A control that is switched off    *)
(* gives the channel back, and has none until it is switched on.           *)
(***************************************************************************)

VARIABLES enabled, holder

Init == enabled = TRUE /\ holder = "nobody"

RadioTakes == /\ enabled
              /\ holder \in {"nobody", "network"}
              /\ holder' = "radio"
              /\ UNCHANGED enabled

NetworkTakes == /\ enabled
                /\ holder = "nobody"
                /\ holder' = "network"
                /\ UNCHANGED enabled

Released == holder' = "nobody" /\ UNCHANGED enabled

SwitchedOff == enabled' = FALSE /\ holder' = "nobody"

SwitchedOn == enabled' = TRUE /\ UNCHANGED holder

Next == RadioTakes \/ NetworkTakes \/ Released \/ SwitchedOff \/ SwitchedOn

Spec == Init /\ [][Next]_<<enabled, holder>>
=============================================================================
