---------------------------- MODULE MCRouteApply -----------------------------
(* Small instances of RouteApply: which plans the requests hold. *)
EXTENDS RouteTransactions, RouteAudit

CONSTANTS r1, r2, r3, r4, r5, h1, h2, a1, a2

Plan(host, mode, address, enabled) ==
    [host |-> host, mode |-> mode, address |-> address, enabled |-> enabled]

(* One hostname moves between the modes, to another address and to a resource
   that is off; a second hostname stands beside it, and another route for that
   one, off as well, is only saved. *)
Edits == [r \in Requests |->
            CASE r = r1 -> Plan(h1, "lan_remote", a1, TRUE)
              [] r = r2 -> Plan(h2, "lan", a1, TRUE)
              [] r = r3 -> Plan(h1, "remote", a1, FALSE)
              [] r = r4 -> Plan(h1, "lan", a2, TRUE)
              [] r = r5 -> Plan(h2, "lan_remote", a1, FALSE)]

(* The server that handles r5 leaves the providers alone. *)
Mutating == [r \in Requests |-> r # r5]

(* Two hostnames on every provider, and a second route for the first. *)
Rivals == [r \in Requests |->
            CASE r = r1 -> Plan(h1, "lan_remote", a1, TRUE)
              [] r = r2 -> Plan(h2, "lan_remote", a1, TRUE)
              [] r = r3 -> Plan(h1, "lan_remote", a1, TRUE)]

(* Three routes for the same hostname, two of which Pangolin alone publishes:
   of two threads that both find no resource each creates one, and the third
   request meets both. *)
RivalTrio == [r \in Requests |->
            CASE r = r1 -> Plan(h1, "remote", a1, TRUE)
              [] r = r2 -> Plan(h1, "lan_remote", a1, TRUE)
              [] r = r3 -> Plan(h1, "remote", a1, TRUE)]

NoOrOneAnswer == {{}, {a1}}
NoAnswer == {{}}
=============================================================================
