----------------------------- MODULE RouteAudit ------------------------------
(***************************************************************************)
(* The read-only endpoints /api/v1/audits/all and /api/v1/inventory of     *)
(* app/server.py, over the state of module RouteApply.                     *)
(*                                                                         *)
(* An audit compares one saved route with what a single look at every      *)
(* provider shows; the inventory counts the entries of every hostname.     *)
(* Both only read, so they are operators of the state: the looks of one    *)
(* audit happen at different moments, but each finding rests on one look,  *)
(* and the properties below hold at every moment.                          *)
(***************************************************************************)
EXTENDS RouteApply

(* What an audit meets outside the modelled state: the DNS integration the route
   names, if it names one that is still saved (an empty answer only Technitium
   reports as a record), that of Pangolin, the probe of the upstream, the
   container the route was made from, and the health check of the Pangolin
   target. *)
Surroundings ==
    [dns : {"technitium", "rewrites", "unreachable", "login fails", "absent"},
     pangolin : {"reachable", "unreachable", "deleted"},
     upstream : {"passes", "fails"},
     source : {"none", "uninspected", "gone", "stopped", "unpublished", "running"},
     target : {"healthy", "unhealthy"}]

Severity(s) ==
    CASE s = "healthy" -> 0 [] s = "drifted" -> 2 [] s = "incomplete" -> 3
      [] s = "broken" -> 4  [] s = "conflict" -> 5

-----------------------------------------------------------------------------
(* One finding per provider: what it is observed to hold for the hostname,
   against the route.  Each plan has an upstream of its own. *)
UpstreamStatus(e) == IF e.upstream = "passes" THEN "healthy" ELSE "broken"

SourceStatus(e) ==
    CASE e.source = "uninspected" -> "incomplete"
      [] e.source \in {"gone", "stopped"} -> "broken"
      [] e.source = "unpublished" -> "drifted"
      [] e.source = "running" -> "healthy"

(* One entry is expected, and it is to be a good one. *)
Verdict(found, good) ==
    CASE found = {} -> "incomplete"
      [] Cardinality(found) > 1 -> "conflict"
      [] Cardinality(found) = 1 -> IF found \subseteq good THEN "healthy" ELSE "drifted"

DnsStatus(r, e) ==
    IF e.dns = "technitium" /\ dns[Host(r)] = {}
    THEN "drifted"
    ELSE Verdict(IF e.dns = "absent" THEN {} ELSE dns[Host(r)], {Address(r)})

(* The routes of this hostname in config.json; the running Caddy is not
   asked. *)
Proxied(h) == {c \in caddyFile : Host(c) = h}

CaddyStatus(r) == Verdict(Proxied(Host(r)), {r})

(* observe_resource: the resources whose site, upstream and login are those of
   the route. *)
Publishing(r) == {c \in Requests : resource[c] = r /\ target[c] = r}

(* Such a resource can still be off or unhealthy. *)
PangolinStatus(r, e) ==
    LET found == IF e.pangolin = "deleted" THEN {} ELSE Matching(Host(r))
        verdict == Verdict(found, Publishing(r))
        up == Route[r].enabled /\ e.target = "healthy"
    IN  IF e.pangolin = "unreachable" \/ (verdict = "healthy" /\ ~ up)
        THEN "broken" ELSE verdict

(* Of a DNS server that cannot be asked, whatever the mode of the route, one
   finding is all the report: only Pangolin's and Unraid's errors are caught on
   the way.  The login to Pi-hole raises what nobody catches: no finding, and
   /api/v1/audits/all answers 500 without the report of any route. *)
Findings(r, e) ==
    IF e.dns = "login fails" THEN {}
    ELSE IF e.dns = "unreachable"
    THEN {[provider |-> "manager", status |-> "broken"]}
    ELSE {[provider |-> "upstream", status |-> UpstreamStatus(e)]}
         \cup (IF e.source = "none" THEN {}
               ELSE {[provider |-> "unraid", status |-> SourceStatus(e)]})
         \cup (IF Route[r].mode \notin LanModes THEN {}
               ELSE {[provider |-> "dns", status |-> DnsStatus(r, e)],
                     [provider |-> "caddy", status |-> CaddyStatus(r)]})
         \cup (IF Route[r].mode \notin RemoteModes THEN {}
               ELSE {[provider |-> "pangolin", status |-> PangolinStatus(r, e)]})

(* The report's status is its worst finding's. *)
Status(findings) ==
    LET Worst(f) == \A g \in findings : Severity(g.status) <= Severity(f.status)
    IN  (CHOOSE f \in findings : Worst(f)).status

-----------------------------------------------------------------------------
(* correlate_routes, with a Technitium integration: the entries each role has
   for a hostname, what they amount to, and which roles call for attention. *)
Entries(h) ==
    [vps_edge |-> Matching(h), dns |-> dns[h], lan_proxy |-> Proxied(h)]

Present(h) == {role \in {"vps_edge", "dns", "lan_proxy"} : Entries(h)[role] # {}}

Classification(h) ==
    CASE Present(h) = {"dns"} -> "dns_only"
      [] Present(h) = {"vps_edge", "dns", "lan_proxy"} -> "lan_and_remote"
      [] Present(h) \in {{"vps_edge"}, {"vps_edge", "dns"}, {"vps_edge", "lan_proxy"}} ->
            "remote_or_incomplete"
      [] Present(h) \in {{"lan_proxy"}, {"dns", "lan_proxy"}} -> "lan_or_incomplete"
      [] Present(h) = {} -> "not listed"

Issues(h, resolves) ==
    (IF resolves THEN {} ELSE {"resolution"})
    \cup {role \in Present(h) : Cardinality(Entries(h)[role]) > 1}
    \cup (IF \E c \in Matching(h) : ~ Route[resource[c]].enabled THEN {"vps_edge"} ELSE {})

-----------------------------------------------------------------------------
(* An enabled route whose apply was answered "applied" and which nobody is
   editing, was when the server stopped, or edited by a step that could not take
   back what it had done, while no other transaction left anything to repair. *)
Settled(r) ==
    /\ routes[Host(r)] = r
    /\ Route[r].enabled /\ ProviderMutations[r]
    /\ Undisturbed(Host(r))
    /\ \A s \in Requests : InProgress(s) => Host(s) # Host(r)
    /\ NothingToRepair

(* What the surroundings of an audit give it to complain about. *)
Culprits(e) ==
    {p \in {"upstream", "unraid", "manager", "dns", "pangolin"} :
        \/ p = "upstream" /\ e.upstream = "fails"
        \/ p = "unraid" /\ e.source \notin {"none", "running"}
        \/ p = "manager" /\ e.dns \in {"unreachable", "login fails"}
        \/ p = "dns" /\ e.dns = "absent"
        \/ p = "pangolin" /\ (e.pangolin # "reachable" \/ e.target = "unhealthy")}

(* An audit of a settled route blames only what really is at fault outside the
   providers, and with nothing at fault there it reports the route healthy, at
   every moment of the transactions and rollbacks of other hostnames, which
   rewrite the whole configuration of the shared Caddy, and whatever their
   failing steps left there.  A report without findings means the login to
   Pi-hole. *)
SettledRouteAuditsHealthy ==
    \A r \in Requests : Settled(r) =>
        \A e \in Surroundings :
            LET findings == Findings(r, e)
                culprits == Culprits(e)
            IN  /\ {f.provider : f \in {g \in findings : g.status # "healthy"}} \subseteq culprits
                /\ findings = {} => "manager" \in culprits
                /\ culprits = {} => Status(findings) = "healthy"

(* The inventory shows a settled route on the paths its mode asks for, with
   one entry per role: no adoption, mode change or rollback leaves a second one
   beside it.  It calls for attention only to a resource that is off: the one
   of an earlier, disabled route, which no plan deletes when the hostname moves
   to the LAN. *)
InventoryShowsSettledRoutes ==
    \A r \in Requests : Settled(r) =>
        /\ Classification(Host(r)) \in
              CASE Route[r].mode = "lan_remote" -> {"lan_and_remote"}
                [] Route[r].mode = "lan" -> {"lan_or_incomplete", "lan_and_remote"}
                [] Route[r].mode = "remote" -> {"remote_or_incomplete", "lan_and_remote"}
        /\ \A role \in Present(Host(r)) : Cardinality(Entries(Host(r))[role]) = 1
        /\ Issues(Host(r), TRUE) # {} =>
              /\ Route[r].mode = "lan"
              /\ \E c \in Matching(Host(r)) : ~ Route[resource[c]].enabled
=============================================================================
