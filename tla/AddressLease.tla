---------------------------- MODULE AddressLease ----------------------------
(***************************************************************************)
(* What the server promises about the addresses of the private network:   *)
(* a lease binds one address to one client endpoint, an endpoint holds at  *)
(* most one lease at a time, and an address that was leased once is never  *)
(* leased again, so traffic for a client that is gone can never reach      *)
(* another one.  ToyVpnServer.tla is shown to implement this.              *)
(***************************************************************************)
CONSTANTS Endpoints,   \* external (address, port) pairs of clients
          Leasable,    \* the addresses that may be handed to clients
          NoEndpoint   \* holder of an address that nobody holds

VARIABLES holder,      \* the endpoint that holds each address
          used         \* addresses leased since the server started

leaseVars == <<holder, used>>

Held == {a \in Leasable : holder[a] # NoEndpoint}

Init == /\ holder = [a \in Leasable |-> NoEndpoint]
        /\ used = {}

(* An endpoint without a lease gets an address nobody ever had.            *)
Grant == \E e \in Endpoints, a \in Leasable \ used :
            /\ \A b \in Leasable : holder[b] # e
            /\ holder' = [holder EXCEPT ![a] = e]
            /\ used' = used \cup {a}

(* Any number of leases end together; they are not transferred.            *)
Release == \E S \in SUBSET Held :
              /\ holder' = [a \in Leasable |->
                              IF a \in S THEN NoEndpoint ELSE holder[a]]
              /\ UNCHANGED used

Next == Grant \/ Release

Spec == Init /\ [][Next]_leaseVars
=============================================================================
