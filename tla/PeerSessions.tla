---------------------------- MODULE PeerSessions ----------------------------
(***************************************************************************)
(* The server's ends of the video connections, its peers, and which of     *)
(* them it takes for a client's own.                                       *)
(*                                                                         *)
(* An offer, a failing connection and the end of a client's socket are     *)
(* handled by tasks of one event loop, which take turns where they await.  *)
(***************************************************************************)
EXTENDS Integers

CONSTANTS
  Client,
  Peers,       \* bound: how many peers there are at a time
  Waiting      \* bound: how many offers of a client wait at a time

ASSUME PeersAssumption ==
  Peers \in Nat \ {0} /\ Waiting \in Nat \ {0} /\ "nobody" \notin Client

Peer == 1 .. Peers
NoPeer == 0

VARIABLES
  owner,       \* whose a peer is; it is free if nobody's
  closed,      \* _swarm_closed: the peers that are closed
  registered,  \* the peers in pcs and _webrtc_pc_sessions
  mapped,      \* _webrtc_pc_by_client_id
  offers,      \* the offers of a client for which the peer before is closing
  newest       \* history: the last peer made for a client

peerVars == <<owner, closed, registered, mapped, offers, newest>>

PeersTypeOK ==
  /\ owner \in [Peer -> Client \cup {"nobody"}]
  /\ closed \subseteq Peer /\ registered \subseteq Peer
  /\ mapped \in [Client -> Peer \cup {NoPeer}]
  /\ newest \in [Client -> Peer \cup {NoPeer}]
  /\ offers \in [Client -> 0 .. Waiting]

WithoutAny(p, c) == [mapped EXCEPT ![c] = NoPeer]

\* A peer that is closed takes only itself out of the map.
Without(p, c) == IF mapped[c] = p THEN [mapped EXCEPT ![c] = NoPeer] ELSE mapped

\* _close_pc, up to where it awaits the end of the connection.
Close(p) ==
  /\ closed' = closed \cup {p}
  /\ IF p \in closed THEN UNCHANGED <<registered, mapped>>
     ELSE registered' = registered \ {p} /\ mapped' = Without(p, owner[p])

\* handle_offer: the peer the client has is closed first.
Offer(c) ==
  /\ offers[c] < Waiting
  /\ offers' = [offers EXCEPT ![c] = @ + 1]
  /\ IF mapped[c] = NoPeer THEN UNCHANGED <<closed, registered, mapped>> ELSE Close(mapped[c])
  /\ UNCHANGED <<owner, newest>>

\* Then the offer gets a peer of its own.
Register(c, p) ==
  /\ offers[c] > 0 /\ owner[p] = "nobody"
  /\ offers' = [offers EXCEPT ![c] = @ - 1]
  /\ owner' = [owner EXCEPT ![p] = c]
  /\ registered' = registered \cup {p}
  /\ mapped' = [mapped EXCEPT ![c] = p] /\ newest' = [newest EXCEPT ![c] = p]
  /\ UNCHANGED closed

\* The negotiation fails, or the connection does.
PeerFails(p) ==
  /\ owner[p] # "nobody"
  /\ Close(p)
  /\ UNCHANGED <<owner, offers, newest>>

\* The client's socket ends.
SocketEnds(c) ==
  /\ mapped[c] # NoPeer
  /\ LET p == mapped[c]
     IN /\ closed' = closed \cup {p}
        /\ registered' = IF p \in closed THEN registered ELSE registered \ {p}
  /\ mapped' = [mapped EXCEPT ![c] = NoPeer]
  /\ UNCHANGED <<owner, offers, newest>>

\* A peer that is closed is no more.
PeerGone(p) ==
  /\ p \in closed
  /\ closed' = closed \ {p}
  /\ owner' = [owner EXCEPT ![p] = "nobody"]
  /\ newest' = [c \in Client |-> IF newest[c] = p THEN NoPeer ELSE newest[c]]
  /\ UNCHANGED <<registered, mapped, offers>>

PeersInit ==
  /\ owner = [p \in Peer |-> "nobody"]
  /\ closed = {} /\ registered = {}
  /\ mapped = [c \in Client |-> NoPeer] /\ newest = [c \in Client |-> NoPeer]
  /\ offers = [c \in Client |-> 0]

PeersNext ==
  \/ \E p \in Peer : PeerFails(p) \/ PeerGone(p) \/ \E c \in Client : Register(c, p)
  \/ \E c \in Client : Offer(c) \/ SocketEnds(c)
-----------------------------------------------------------------------------
\* However offers, failures and the ends of sockets overlap: the server counts
\* the peers that are open and no others, and it knows the last one it made for
\* a client until that one is closed, so that the next offer or the end of the
\* client's socket closes it.
PeersAreTracked ==
  /\ registered = {p \in Peer : owner[p] # "nobody"} \ closed
  /\ \A c \in Client :
       IF newest[c] \in registered THEN mapped[c] = newest[c] ELSE mapped[c] = NoPeer
=============================================================================
