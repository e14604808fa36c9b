---------------------------- MODULE LossyChannel ----------------------------
(***************************************************************************)
(* What forward error correction promises those who send packets through   *)
(* it: packets may be lost and overtake one another, but one that is       *)
(* handed up has been sent to this peer, was not handed up before, and is  *)
(* whole.  Shards, session IDs and the decoder do not show.                *)
(***************************************************************************)
EXTENDS Naturals

CONSTANTS
    Peers,       \* connections
    MaxPackets   \* bound: packets sent to one peer

VARIABLES
    sent,        \* packets sent to each peer, which are numbered from 1
    delivered,   \* how often each packet was handed up
    garbage      \* something that is not a packet was handed up

channelVars == <<sent, delivered, garbage>>

ChannelInit ==
    /\ sent = [p \in Peers |-> 0]
    /\ delivered = [p \in Peers |-> [n \in 1..MaxPackets |-> 0]]
    /\ garbage = FALSE

Send(p) ==
    /\ sent[p] < MaxPackets
    /\ sent' = [sent EXCEPT ![p] = @ + 1]
    /\ UNCHANGED <<delivered, garbage>>

HandUp(p, n) ==
    /\ n <= sent[p] /\ delivered[p][n] = 0
    /\ delivered' = [delivered EXCEPT ![p][n] = 1]
    /\ UNCHANGED <<sent, garbage>>

ChannelNext ==
    \E p \in Peers : Send(p) \/ \E n \in 1..MaxPackets : HandUp(p, n)

ChannelSpec == ChannelInit /\ [][ChannelNext]_channelVars
=============================================================================
