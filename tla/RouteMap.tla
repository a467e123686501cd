-------------------------------- MODULE RouteMap --------------------------------
(***************************************************************************)
(* What the table commands of an mpSelect agent promise, without pointers, *)
(* objects or list cells: routes bound to peers by name, and for each peer *)
(* its paths.  This is the service the header comments of                  *)
(* mpSelect_rtable.h describe.  MpTable implements it.                     *)
(*                                                                         *)
(* The two ways in which the process can stop in the middle of a call are  *)
(* part of the interface, with what each needs to happen.                  *)
(***************************************************************************)
EXTENDS Integers, Sequences, FiniteSetsExt, SequencesExt

CONSTANTS Seg, Mask, Hop, Peer, Intf,
          None      \* the peer of a route that is not bound

VARIABLES
  routes,  \* sequence of routes, newest first
  peers,   \* for each known peer, its paths as a sequence, newest first
  up       \* the process runs

vars == <<routes, peers, up>>

Init == routes = << >> /\ peers = << >> /\ up = TRUE

(* The newest of a set of positions; 0 for none. *)
Newest(I) == IF I = {} THEN 0 ELSE Min(I)

Key(g, m) == Newest({i \in DOMAIN routes : routes[i].seg = g /\ routes[i].mask = m})

Unbound(p) ==
  [i \in DOMAIN routes |->
     IF routes[i].peer = p THEN [routes[i] EXCEPT !.peer = None] ELSE routes[i]]

AddRoute(g, m, h) ==
  /\ routes' = Cons([seg |-> g, mask |-> m, hop |-> h, peer |-> None], routes)
  /\ UNCHANGED <<peers, up>>

DeleteRoute(g, m) ==
  /\ Key(g, m) # 0
  /\ routes' = RemoveAt(routes, Key(g, m))
  /\ UNCHANGED <<peers, up>>

AddPath(p, s, d) ==
  /\ peers' = [q \in DOMAIN peers \cup {p} |->
                 IF q # p THEN peers[q]
                 ELSE Cons(<<s, d>>, IF p \in DOMAIN peers THEN peers[p] ELSE << >>)]
  /\ UNCHANGED <<routes, up>>

DeletePath(p, s, d) ==
  /\ p \in DOMAIN peers
  /\ <<s, d>> \in Range(peers[p])
  /\ peers' = [peers EXCEPT ![p] =
                 RemoveAt(@, Min({i \in DOMAIN @ : @[i] = <<s, d>>}))]
  /\ UNCHANGED <<routes, up>>

(* The peer is forgotten and every route bound to it, and no other, is     *)
(* unbound.                                                                *)
DeletePeer(p) ==
  /\ p \in DOMAIN peers
  /\ peers' = [q \in DOMAIN peers \ {p} |-> peers[q]]
  /\ routes' = Unbound(p)
  /\ UNCHANGED up

Bind(g, m, p) ==
  /\ Key(g, m) # 0 /\ p \in DOMAIN peers
  /\ routes' = [routes EXCEPT ![Key(g, m)].peer = p]
  /\ UNCHANGED <<peers, up>>

(* Whichever known peer is named. *)
Unbind(g, m) ==
  /\ Key(g, m) # 0 /\ peers # << >>
  /\ routes' = [routes EXCEPT ![Key(g, m)].peer = None]
  /\ UNCHANGED <<peers, up>>

(* Deleting a peer when there are others may stop the process half way:    *)
(* the routes are unbound, the peer is still there.                        *)
Crash(p) ==
  /\ p \in DOMAIN peers /\ DOMAIN peers # {p}
  /\ routes' = Unbound(p)
  /\ up' = FALSE
  /\ UNCHANGED peers

(* A forwarding decision for a peer with two different paths may hang. *)
Hang(p) ==
  /\ p \in DOMAIN peers
  /\ \E i, j \in DOMAIN peers[p] : peers[p][i] # peers[p][j]
  /\ p \in {routes[i].peer : i \in DOMAIN routes}
  /\ up' = FALSE
  /\ UNCHANGED <<routes, peers>>

Next ==
  /\ up
  /\ \/ \E g \in Seg, m \in Mask :
          \/ \E h \in Hop : AddRoute(g, m, h)
          \/ DeleteRoute(g, m)
          \/ Unbind(g, m)
          \/ \E p \in Peer : Bind(g, m, p)
     \/ \E p \in Peer :
          \/ DeletePeer(p)
          \/ Crash(p)
          \/ Hang(p)
          \/ \E s, d \in Intf : AddPath(p, s, d) \/ DeletePath(p, s, d)

Spec == Init /\ [][Next]_vars
===============================================================================
