------------------------------ MODULE MCDirect ------------------------------
(***************************************************************************)
(* Two tabs of one browser, a human message and an invocation; or two tabs *)
(* that load, renew and publish the keys of their device.  A behaviour is  *)
(* one of one of them; the other stays as it starts.                       *)
(***************************************************************************)
EXTENDS DirectSession, LocalDevice, TLC

VARIABLE part

\* The invocation i has the output o.
MCOutputOf == [i \in Invokes |-> "o"]

\* A plain message, or an invocation.
MCWishes == {{"h"}, {"i"}}

\* While an invocation is written, only one device of the peer is in use.
MCInit ==
    /\ part \in {"messages", "keys"}
    /\ LocalDeviceInit /\ (part = "keys" \/ stored = NoDevice)
    /\ DirectInit /\ (part = "messages" \/ wishes = {"h"})
    /\ wishes = {"i"} => \E d \in Peers : devices[d] = "revoked"
    /\ wishes = {"h"} => \A d \in Peers : devices[d] # "revoked"

MCNext ==
    /\ UNCHANGED part
    /\ IF part = "messages" THEN DirectNext ELSE UNCHANGED chatVars
    /\ IF part = "keys" THEN LocalDeviceNext ELSE UNCHANGED deviceVars

MCSpec == MCInit /\ [][MCNext]_<<chatVars, deviceVars, part>>

\* The tabs are alike, and so are the devices of the peer.
MCSymmetry == Permutations(Tabs) \cup Permutations(Peers)
=============================================================================
