---------------------------- MODULE DeviceStreams ----------------------------
(***************************************************************************)
(* What the serial switch promises the user of a device whose packages     *)
(* wait for acknowledges: the packages come out at the remote device in    *)
(* the order they went in, a package may be repeated, and the next package *)
(* is only accepted once the last one has been delivered or given up.  A   *)
(* restart of the sending switch begins the streams anew.                  *)
(***************************************************************************)
EXTENDS Naturals, Sequences

CONSTANT Device

VARIABLES
    accepted,   \* [device]: packages taken from the device, numbered from 1
    delivered,  \* [device]: numbers of these packages as handed to the remote device
    givenUp     \* [device]: numbers of those the sender no longer tries to deliver

vars == <<accepted, delivered, givenUp>>

TypeOK ==
    /\ accepted \in [Device -> Nat]
    /\ delivered \in [Device -> Seq(Nat)]
    /\ givenUp \in [Device -> SUBSET Nat]

Init ==
    /\ accepted = [dev \in Device |-> 0]
    /\ delivered = [dev \in Device |-> <<>>]
    /\ givenUp = [dev \in Device |-> {}]

WasDelivered(dev, n) == \E k \in 1 .. Len(delivered[dev]) : delivered[dev][k] = n

Settled(dev, n) == n = 0 \/ WasDelivered(dev, n) \/ n \in givenUp[dev]

Accept(dev) ==
    /\ Settled(dev, accepted[dev])
    /\ accepted' = [accepted EXCEPT ![dev] = @ + 1]
    /\ UNCHANGED <<delivered, givenUp>>

Deliver(dev, n) ==
    /\ n \in 1 .. accepted[dev]
    /\ \A k \in 1 .. Len(delivered[dev]) : delivered[dev][k] <= n
    /\ delivered' = [delivered EXCEPT ![dev] = Append(@, n)]
    /\ UNCHANGED <<accepted, givenUp>>

GiveUp(dev) ==
    /\ accepted[dev] > 0
    /\ givenUp' = [givenUp EXCEPT ![dev] = @ \cup {accepted[dev]}]
    /\ UNCHANGED <<accepted, delivered>>

\* The sending switch forgets everything and counts from 1 again.
Restart ==
    /\ accepted' = [dev \in Device |-> 0]
    /\ delivered' = [dev \in Device |-> <<>>]
    /\ givenUp' = [dev \in Device |-> {}]

Next ==
    \/ Restart
    \/ \E dev \in Device :
          \/ Accept(dev)
          \/ GiveUp(dev)
          \/ \E n \in 1 .. accepted[dev] : Deliver(dev, n)

Spec == Init /\ [][Next]_vars

=============================================================================
