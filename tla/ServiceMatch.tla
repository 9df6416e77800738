---------------------------- MODULE ServiceMatch ----------------------------
(***************************************************************************)
(* The service classifier: the Pattern language of                         *)
(* server/services/impl/patterns.rs (Pattern::matches, ports, endpoints,   *)
(* contains_gateway_ip_pattern), a registry of real service definitions    *)
(* (server/services/definitions/*.rs) and discover_services                *)
(* (daemon/discovery/service/base.rs), which runs every definition over    *)
(* one host's scan evidence, binds the ports each match claims and ranks   *)
(* the services.                                                           *)
(*                                                                         *)
(* A port, an endpoint (port, path and the needle its definition looks     *)
(* for) and a vendor are strings; the reasons and the wording of errors    *)
(* are left out.  An endpoint response is the set of endpoints whose body  *)
(* contained the needle.  Confidence is MatchConfidence's discriminant.    *)
(***************************************************************************)
EXTENDS Naturals, Sequences, SequencesExt, TLC

NotApplicable == 0
Low == 1
Medium == 2
High == 3
Certain == 4

\* Pattern as one record shape: a kind, a leaf argument (a port, a vendor,
\* a subnet type), an endpoint's path and needle, the children.
NoEp == <<"", "">>
Leaf(k, a) == [k |-> k, a |-> a, ep |-> NoEp, kids |-> <<>>]
Node(k, kids) == [k |-> k, a |-> "", ep |-> NoEp, kids |-> kids]
Port(p) == Leaf("Port", p)
Endpoint(port, path, needle) ==
    [k |-> "Endpoint", a |-> port, ep |-> <<path, needle>>, kids |-> <<>>]
MacVendor(v) == Leaf("MacVendor", v)
SubnetIsType(t) == Leaf("SubnetIsType", t)
IsGateway == Leaf("IsGateway", "")
DockerContainer == Leaf("DockerContainer", "")
NonePattern == Leaf("None", "")
\* The one Pattern::Custom of the registry (docker_container.rs): no
\* service matched so far runs in this host's container.
NoOtherServiceInContainer == Leaf("Custom", "NoOtherServiceInContainer")
Not(p) == Node("Not", <<p>>)
AllOf(ps) == Node("AllOf", ps)
AnyOf(ps) == Node("AnyOf", ps)

\* PortBase: a named well-known port, or a custom TCP port by its number.
NamedPorts == {"Http", "HttpAlt", "Https", "DnsUdp", "DnsTcp", "Dhcp", "Ftp",
               "Nfs", "Rtsp", "Samba", "Rdp", "Ipp", "LdpTcp", "LdpUdp",
               "Telnet"}

\* PortBase::is_custom: not one of the named ports.
IsCustom(p) == p \notin NamedPorts

\* Service definitions: id, discovery_pattern, is_generic, has_logo (a
\* non-empty logo_url).
Def(n, p, g, l) == [name |-> n, pattern |-> p, generic |-> g, logo |-> l]
Brand(n, p) == Def(n, p, FALSE, TRUE)
Ep(port, path, needle) == Endpoint(port, path, needle)
AnyPort(ps) == AnyOf([i \in DOMAIN ps |-> Port(ps[i])])
Dns == <<Port("DnsUdp"), Port("DnsTcp")>>
NestOrGoogle == AnyOf(<<MacVendor("NEST"), MacVendor("GOOGLE")>>)

AdguardHome == Brand("Adguard Home",
                     AllOf(<<AllOf(Dns), Ep("Http", "/", "AdGuard Home")>>))
AmazonEcho == Brand("Amazon Echo", AllOf(<<MacVendor("AMAZON"), Port("40317")>>))
APC == Brand("APC", Ep("Http", "/", "Schneider Electric"))
AudioBookShelf == Brand("AudioBookShelf", Port("13378"))
Autobrr == Brand("Autobrr", Port("7474"))
Bazarr == Brand("Bazarr", Port("6767"))
RtspCamera == Def("RTSP Camera", Port("Rtsp"), TRUE, FALSE)
ChromecastDevice == Brand("Chromecast",
                          AllOf(<<MacVendor("GOOGLE"), Port("8008"), Port("8009")>>))
Cleanuparr == Brand("Cleanuparr", Port("11011"))
Cloudflared == Brand("Cloudflared", Ep("Http", "/metrics", "cloudflared"))
CoolerControl == Brand("CoolerControl", Ep("11987", "/", "CoolerControl"))
CUPS == Brand("CUPS", AllOf(<<Port("Ipp"), Ep("Http", "/", "CUPS")>>))
DhcpServer == Def("Dhcp Server", Port("Dhcp"), TRUE, FALSE)
DockerContainerDef == Def("Docker Container",
                          AllOf(<<DockerContainer, NoOtherServiceInContainer>>),
                          TRUE, TRUE)
Docker == Brand("Docker", NonePattern)
DockerSwarm == Brand("Docker Swarm", AllOf(<<Port("2377"), Port("7946")>>))
Duplicati == Brand("Duplicati", Ep("8200", "/ngax/index.html", "Duplicati"))
EeroGateway == Brand("Eero Gateway", AllOf(<<MacVendor("EERO"), IsGateway>>))
FileServer == Def("File Server", Port("Ftp"), TRUE, FALSE)
FiosExtender == Brand("Fios Extender",
                      AllOf(<<Ep("Http", "/#/login/", "fios"), Not(IsGateway)>>))
FiosGateway == Brand("Fios Gateway",
                     AllOf(<<Ep("Http", "/#/login/", "fios"), IsGateway>>))
\* The generic Gateway of spec section 4.2 (utils/gateway.rs is not in the
\* tree).
Gateway == Def("Gateway", IsGateway, TRUE, FALSE)
Gatus == Brand("Gatus", Ep("HttpAlt", "/manifest.json", "Gatus"))
GoogleHome == Brand("Google Home",
                    AllOf(<<NestOrGoogle, AllOf(<<Port("8008"), Port("8009")>>)>>))
GoogleNestRouter == Brand("Google Nest router",
                          AllOf(<<NestOrGoogle, IsGateway,
                                  Ep("Http", "/", "Nest Wifi")>>))
Grafana == Brand("Grafana", Ep("Http", "/", "grafana"))
Graylog == Brand("Graylog", Ep("9000", "/", "Graylog"))
Grocy == Brand("Grocy", AnyOf(<<Ep("Http", "/", "Grocy"), Ep("Https", "/", "Grocy")>>))
Homarr == Brand("Homarr", Port("7575"))
HomeAssistant == Brand("Home Assistant",
                       Ep("8123", "/auth/authorize", "home assistant"))
Homepage == Brand("Homepage", Ep("3000", "/site.webmanifest", "Homepage"))
HpPrinter == Brand("Hp Printer",
                   AllOf(<<AnyOf(<<Ep("Http", "", "LaserJet"), Ep("Http", "", "DeskJet"),
                                   Ep("Http", "", "OfficeJet"), Ep("HttpAlt", "", "LaserJet"),
                                   Ep("HttpAlt", "", "DeskJet"),
                                   Ep("HttpAlt", "", "OfficeJet")>>),
                           AnyPort(<<"Ipp", "LdpTcp", "LdpUdp">>)>>))
Huntarr == Brand("Huntarr", Port("9705"))
Immich == Brand("Immich", Ep("2283", "/photos", "Immich"))
IoT == Def("IoT", NonePattern, TRUE, FALSE)
Jellyfin == Brand("Jellyfin", Ep("Http", "/System/Info/Public", "Jellyfin"))
\* Mutant: Jellyseerr is fingerprinted by another path of its port.
JellyseerrOtherPath == Brand("Jellyseerr", Ep("5055", "/settings", "Jellyseerr"))
Jellyseerr == Brand("Jellyseerr", Ep("5055", "/", "Jellyseerr"))
Jellystat == Brand("Jellystat",
                   AllOf(<<Ep("3000", "/", "Jellystat"),
                           Ep("3000", "/", "Jellyfin stats for the masses")>>))
Jump == Def("Jump", Ep("8123", "/", "Jump"), FALSE, FALSE)
Karakeep == Brand("Karakeep", Ep("3000", "/manifest.json", "Karakeep"))
Komga == Brand("Komga", Ep("25600", "/", "Komga"))
Kubernetes == Brand("Kubernetes",
                    AllOf(<<Port("6443"), AnyPort(<<"10250", "10259", "10257", "10256">>)>>))
Lidarr == Brand("Lidarr", Port("8686"))
LinkStack == Brand("LinkStack", Ep("HttpAlt", "/", "LinkStack"))
Lubelogger == Brand("Lubelogger", Ep("HttpAlt", "/", "LubeLogger"))
Memos == Brand("Memos", Ep("5230", "/explore", "Memos"))
NasDevice == Def("Nas Device", Port("Nfs"), TRUE, FALSE)
NestProtect == Brand("Nest Protect", AllOf(<<NestOrGoogle, Port("11095")>>))
Netbootxyz == Brand("Netbootxyz", Ep("61208", "/", "Netbootxyz"))
NetvisorDaemon == Brand("NetVisor Daemon API", Ep("60073", "/api/health", "netvisor"))
NginxProxyManager == Brand("Nginx Proxy Manager", Ep("Http", "", "nginx proxy manager"))
NUT == Brand("NUT", Port("3493"))
OpenMediaVault == Brand("OpenMediaVault",
                        AllOf(<<Port("Samba"), Ep("Http", "/", "openmediavault")>>))
OpenWebUI == Brand("Open WebUI", Ep("HttpAlt", "/manifest.json", "Open WebUI"))
OpnSense == Brand("OPNsense", Ep("Http", "/", "opnsense"))
Overseerr == Brand("Overseerr", AllOf(<<Ep("5055", "/manifest.json", "Overseerr"),
                                        Not(Ep("5055", "/", "Jellyseerr"))>>))
PeaNut == Brand("PeaNUT", Ep("3000", "/api/v1/info", "peanut"))
PfBlockerNg == Brand("pfBlockerNG",
                     AllOf(<<AllOf(<<Port("DnsTcp"), Port("DnsUdp")>>),
                             Ep("Http", "/pfblockerng", "pfblockerng")>>))
PfSense == Brand("pfSense", Ep("Http", "/", "pfsense"))
PhilipsHueBridge == Brand("Philips Hue Bridge",
                          AllOf(<<MacVendor("PHILIPS"), Ep("Http", "/", "hue")>>))
PiHole == Brand("Pi-Hole", AllOf(<<AnyOf(Dns), Ep("Http", "/admin", "pi-hole")>>))
PocketID == Brand("Pocket ID", Ep("1411", "/app.webmanifest", "Pocket ID"))
Portainer == Brand("Portainer", AllOf(<<Ep("9443", "/#!/auth", "portainer"),
                                        AnyPort(<<"9000", "8000">>)>>))
PowerDNS == Brand("PowerDNS", AllOf(<<Port("DnsUdp"), Port("DnsTcp"), Port("8081")>>))
Prometheus == Brand("Prometheus", AnyOf(<<Ep("Http", "/metrics", "Prometheus"),
                                          Ep("Http", "/graph", "Prometheus")>>))
Prowlarr == Brand("Prowlarr",
                  Ep("3232", "/Content/Images/Icons/manifest.json", "Prowlarr"))
Proxmox == Brand("Proxmox VE", AnyOf(<<Ep("8006", "/", "proxmox"), Port("8006")>>))
QNAP == Brand("QNAP NAS", AnyOf(<<Ep("Http", "/", "QNAP"), Ep("HttpAlt", "/", "QNAP")>>))
Radarr == Brand("Radarr", Ep("7878", "/Content/manifest.json", "Radarr"))
Restic == Def("Restic", AllOf(<<Port("8000"), Ep("Http", "/", "restic")>>), FALSE, FALSE)
RingDoorbell == Brand("Ring Doorbell",
                      AllOf(<<MacVendor("AMAZON"),
                              AnyPort(<<"8557", "9998", "19302", "9999">>)>>))
RokuDevice == Brand("Roku Media Player", AllOf(<<MacVendor("ROKU"), Port("8060")>>))
Slskd == Brand("Slskd", AllOf(<<Ep("5030", "/", "slskd"),
                                Ep("5030", "/api/v0/session/enabled", "true")>>))
Sonarr == Brand("Sonarr", Ep("8989", "/Content/manifest.json", "Sonarr"))
SonosSpeaker == Brand("Sonos Speaker",
                      AllOf(<<MacVendor("SONOS"),
                              AnyPort(<<"445", "3445", "1400", "1410", "1843",
                                        "3400", "3401", "3500">>)>>))
Switch == Def("Switch", AllOf(<<Not(IsGateway), AllOf(<<Port("Http"), Port("Telnet")>>)>>),
              TRUE, FALSE)
Syncthing == Brand("Syncthing", Ep("Http", "/", "Syncthing"))
Synology == Brand("Synology DSM", Ep("Http", "/", "synology"))
Tautulli == Brand("Tautulli", Ep("8181", "/", "Tautulli"))
TpLinkEap == Brand("TP-Link EAP", AllOf(<<MacVendor("TPLINK"), Ep("Http", "/", "tp-link")>>))
Traefik == Brand("Traefik", Ep("Http", "/dashboard", "traefik"))
TrueNAS == Brand("TrueNAS", AllOf(<<Port("Samba"), Ep("Http", "/", "TrueNAS")>>))
Unbound == Brand("Unbound DNS", AllOf(<<Port("DnsUdp"), Port("8953")>>))
UnifiAccessPoint == Brand("Unifi Access Point",
                          AllOf(<<MacVendor("UBIQUITI"), Ep("Http", "/", "Unifi")>>))
UnifiController == Brand("UniFi Controller", Ep("8443", "/manage", "UniFi"))
UptimeKuma == Brand("UptimeKuma", Ep("Http", "/", "Uptime Kuma"))
Vaultwarden == Brand("Vaultwarden", Ep("8000", "/manifest.json", "Vaultwarden Web"))
WebService == Def("Web Service", NonePattern, FALSE, FALSE)
WgDashboard == Brand("WGDashboard",
                     AllOf(<<Port("10086"), Not(SubnetIsType("VpnTunnel"))>>))
Workstation == Def("Workstation", AllOf(<<Port("Rdp"), Port("Samba")>>), TRUE, FALSE)

\* ServiceDefinitionRegistry::all_service_definitions: the definitions the
\* inventory collects.  Its order is the link order, which Rust leaves
\* unspecified; here the declaration order of definitions/mod.rs.
Registry == <<AdguardHome, AmazonEcho, APC, AudioBookShelf, Autobrr, Bazarr,
              RtspCamera, ChromecastDevice, Cleanuparr, Cloudflared,
              CoolerControl, CUPS, DhcpServer, DockerContainerDef, Docker,
              DockerSwarm, Duplicati, EeroGateway, FileServer, FiosExtender,
              FiosGateway, Gateway, Gatus, GoogleHome, GoogleNestRouter,
              Grafana, Graylog, Grocy, Homarr, HomeAssistant, Homepage,
              HpPrinter, Huntarr, Immich, IoT, Jellyfin, Jellyseerr,
              Jellystat, Jump, Karakeep, Komga, Kubernetes, Lidarr,
              LinkStack, Lubelogger, Memos, NasDevice, NestProtect,
              Netbootxyz, NetvisorDaemon, NginxProxyManager, NUT,
              OpenMediaVault, OpenWebUI, OpnSense, Overseerr, PeaNut,
              PfBlockerNg, PfSense, PhilipsHueBridge, PiHole, PocketID,
              Portainer, PowerDNS, Prometheus, Prowlarr, Proxmox, QNAP,
              Radarr, Restic, RingDoorbell, RokuDevice, Slskd, Sonarr,
              SonosSpeaker, Switch, Syncthing, Synology, Tautulli, TpLinkEap,
              Traefik, TrueNAS, Unbound, UnifiAccessPoint, UnifiController,
              UptimeKuma, Vaultwarden, WebService, WgDashboard, Workstation>>

\* Evidence of one host candidate (ServiceMatchBaselineParams and the
\* gateway ips): unbound ports, endpoint hits, the MAC's OUI vendor
\* ("none": no MAC), whether the interface IP is a routing-table gateway,
\* how many gateways lie in the subnet, whether the IP ends in 1 or 254,
\* the subnet type, whether the host runs in a docker container, and the
\* services matched so far.
\* MatchResult: ok (Ok or Err), the claimed ports, the confidence.
NoMatch == [ok |-> FALSE, ports |-> <<>>, conf |-> NotApplicable]
Matched(ports, conf) == [ok |-> TRUE, ports |-> ports, conf |-> conf]

\* Pattern::ports, endpoints, contains_gateway_ip_pattern: only Port,
\* Endpoint and IsGateway leaves reached through AnyOf and AllOf count.
RECURSIVE PatternPorts(_)
PatternPorts(p) ==
    CASE p.k = "Port" -> {p.a}
      [] p.k \in {"AnyOf", "AllOf"} ->
            UNION {PatternPorts(p.kids[i]) : i \in DOMAIN p.kids}
      [] OTHER -> {}

RECURSIVE PatternEndpoints(_)
PatternEndpoints(p) ==
    CASE p.k = "Endpoint" -> {<<p.a, p.ep[1]>>}
      [] p.k \in {"AnyOf", "AllOf"} ->
            UNION {PatternEndpoints(p.kids[i]) : i \in DOMAIN p.kids}
      [] OTHER -> {}

\* Mutant: contains_gateway_ip_pattern also looks inside Not.
RECURSIVE ContainsGatewayIpPatternThroughNot(_)
ContainsGatewayIpPatternThroughNot(p) ==
    CASE p.k = "IsGateway" -> TRUE
      [] p.k \in {"AnyOf", "AllOf", "Not"} ->
            \E i \in DOMAIN p.kids : ContainsGatewayIpPatternThroughNot(p.kids[i])
      [] OTHER -> FALSE

RECURSIVE ContainsGatewayIpPattern(_)
ContainsGatewayIpPattern(p) ==
    CASE p.k = "IsGateway" -> TRUE
      [] p.k \in {"AnyOf", "AllOf"} ->
            \E i \in DOMAIN p.kids : ContainsGatewayIpPattern(p.kids[i])
      [] OTHER -> FALSE

\* Pattern::ports() of every registry definition, by position.
RegistryPorts == [i \in DOMAIN Registry |-> PatternPorts(Registry[i].pattern)]

\* Port: open and unbound; Medium when custom and in no other definition's
\* ports(), Low otherwise.
PortMatch(p, ev, def) ==
    LET others == UNION {RegistryPorts[j] :
                           j \in {j \in DOMAIN Registry : Registry[j].name # def.name}}
    IN IF p \in ev.unbound
       THEN Matched(<<p>>, IF IsCustom(p) /\ p \notin others THEN Medium ELSE Low)
       ELSE NoMatch

\* Endpoint: a response from the endpoint's port and path contained the
\* needle; the claimed port is the response's, unbound or not.  A response
\* is the triple port, path, needle it contained.
EndpointMatch(p, ev) ==
    IF <<p.a, p.ep[1], p.ep[2]>> \in ev.resp THEN Matched(<<p.a>>, High)
    ELSE NoMatch

\* MacVendor: the OUI company name normalised equals the vendor.
MacVendorMatch(v, ev) == IF ev.mac = v THEN Matched(<<>>, Medium) ELSE NoMatch

\* IsGateway: the IP is a gateway in the subnet, or it ends in 1 or 254
\* and the subnet has no gateway at all.
IsGatewayHolds(ev) == ev.inTable \/ (ev.octet1or254 /\ ev.gwCount = 0)
IsGatewayMatch(ev) == IF IsGatewayHolds(ev) THEN Matched(<<>>, High) ELSE NoMatch

SubnetIsTypeMatch(t, ev) == IF ev.subnet = t THEN Matched(<<>>, Low) ELSE NoMatch
DockerContainerMatch(ev) == IF ev.docker THEN Matched(<<>>, Low) ELSE NoMatch

\* docker_container.rs' constraint: the host runs in a container and no
\* service matched so far carries that container (Low).
CustomMatch(ev) ==
    IF ev.docker /\ \A i \in DOMAIN ev.matched : ~ev.matched[i].docker
    THEN Matched(<<>>, Low) ELSE NoMatch

\* Not: Err when the inner pattern matches, Ok with Low otherwise.
NotMatch(r) == IF r.ok THEN NoMatch ELSE Matched(<<>>, Low)

\* The matched children's results in order, their ports concatenated
\* (ports.extend), and the highest of their confidences and a floor.
OkResults(rs) == SelectSeq(rs, LAMBDA r : r.ok)
JoinPorts(rs) == FoldLeft(LAMBDA acc, r : acc \o r.ports, <<>>, rs)
MaxConf(floor, rs) == FoldLeft(LAMBDA c, r : IF r.conf > c THEN r.conf ELSE c,
                               floor, rs)

\* AnyOf: Ok when a child matched, with the matched children's ports and
\* the highest of their confidences, starting from Low.
AnyOfMatch(rs) ==
    IF OkResults(rs) = <<>> THEN NoMatch
    ELSE Matched(JoinPorts(OkResults(rs)), MaxConf(Low, OkResults(rs)))

\* AllOf: Ok when every child matched; the highest confidence (Low when
\* there is none), one tier up from Low or Medium when more than three
\* children matched.
\* Mutant: the boost from three matched children on.
BoostedAtThree(max, n) ==
    IF max \in {Low, Medium} /\ n >= 3 THEN max + 1 ELSE max

Boosted(max, n) ==
    IF max \in {Low, Medium} /\ n > 3 THEN max + 1 ELSE max

AllOfMatch(rs) ==
    IF OkResults(rs) # rs THEN NoMatch
    ELSE Matched(JoinPorts(rs), Boosted(MaxConf(Low, rs), Len(rs)))

\* Pattern::matches for the definition def.
RECURSIVE Matches(_, _, _)
Matches(p, ev, def) ==
    LET rs == [i \in DOMAIN p.kids |-> Matches(p.kids[i], ev, def)]
    IN CASE p.k = "Port"            -> PortMatch(p.a, ev, def)
         [] p.k = "Endpoint"        -> EndpointMatch(p, ev)
         [] p.k = "MacVendor"       -> MacVendorMatch(p.a, ev)
         [] p.k = "IsGateway"       -> IsGatewayMatch(ev)
         [] p.k = "SubnetIsType"    -> SubnetIsTypeMatch(p.a, ev)
         [] p.k = "DockerContainer" -> DockerContainerMatch(ev)
         [] p.k = "Custom"          -> CustomMatch(ev)
         [] p.k = "None"            -> NoMatch
         [] p.k = "Not"             -> NotMatch(rs[1])
         [] p.k = "AnyOf"           -> AnyOfMatch(rs)
         [] p.k = "AllOf"           -> AllOfMatch(rs)

\* Service::from_discovery (not in the tree; spec section 4.2): a service
\* when the definition's pattern matches, claiming the result's ports; it
\* runs in the host's container, if any.
FromDiscovery(def, ev) == Matches(def.pattern, ev, def)

\* The sort_by_key of discover_services: non-generic definitions, then
\* generic ones but Gateway, then Gateway; stable.
Tier(d) == CASE ~d.generic -> 0 [] d.name # "Gateway" -> 1 [] OTHER -> 2

\* Mutant: the definitions in registry order, unsorted.
SortedDefinitionsUnsorted == Registry

SortedDefinitions ==
    LET Before(i, j) == Tier(Registry[i]) < Tier(Registry[j])
                        \/ (Tier(Registry[i]) = Tier(Registry[j]) /\ i < j)
        idx == SortSeq([i \in DOMAIN Registry |-> i], Before)
    IN [r \in DOMAIN idx |-> Registry[idx[r]]]

\* The binding find over a new service's bindings: its closure's match is
\* a statement and the closure returns false for every binding.
BindingForEndpoint(svc, result) == FALSE

\* services.sort_by_key(-(confidence + has_logo)): stable, highest first.
RankScore(s) == s.conf + (IF s.logo THEN 1 ELSE 0)
RankServices(svcs) ==
    LET Before(i, j) == RankScore(svcs[i]) > RankScore(svcs[j])
                        \/ (RankScore(svcs[i]) = RankScore(svcs[j]) /\ i < j)
        idx == SortSeq([i \in DOMAIN svcs |-> i], Before)
    IN [r \in DOMAIN idx |-> svcs[idx[r]]]

-----------------------------------------------------------------------------
(* discover_services over one host, one loop iteration per step.           *)

VARIABLES
    cev,       \* the host's evidence (baseline params, gateway ips)
    ci,        \* index of the next definition in SortedDefinitions
    services,  \* the services vector
    hports,    \* host.base.ports
    unbound,   \* l4_unbound_ports
    target,    \* host.base.target
    cphase     \* idle (no host), loop, done (discover_services returned)

classifierVars == <<cev, ci, services, hports, unbound, target, cphase>>

\* process_host creates the host with no ports and target None.
ClassifierStart(ev) ==
    /\ cev = ev /\ ci = 1 /\ services = <<>> /\ hports = <<>>
    /\ unbound = ev.unbound /\ target = "None" /\ cphase = "loop"

ClassifierIdle ==
    /\ cev = "none" /\ ci = 0 /\ services = <<>> /\ hports = <<>>
    /\ unbound = {} /\ target = "None" /\ cphase = "idle"

\* One iteration: match the next definition against the ports still
\* unbound; on a match, maybe retarget the host, append the claimed ports
\* to host.ports, drop them from the unbound ports, push the service.
ServiceStep ==
    LET d == SortedDefinitions[ci]
        r == FromDiscovery(d, [cev EXCEPT !.unbound = unbound, !.matched = services])
        svc == [name |-> d.name, conf |-> r.conf, logo |-> d.logo,
                generic |-> d.generic, docker |-> cev.docker,
                gateway |-> ContainsGatewayIpPattern(d.pattern)]
    IN /\ cphase = "loop" /\ ci <= Len(SortedDefinitions)
       /\ ci' = ci + 1
       /\ IF r.ok
          THEN /\ target' = IF BindingForEndpoint(svc, r)
                               /\ target \in {"Hostname", "None"}
                            THEN "ServiceBinding" ELSE target
               /\ hports' = hports \o r.ports
               /\ unbound' = unbound \ ToSet(r.ports)
               /\ services' = Append(services, svc)
          ELSE UNCHANGED <<target, hports, unbound, services>>
       /\ UNCHANGED <<cev, cphase>>

\* After the loop: rank the services, append the ports left unbound (in
\* the scan's order, here any order) and return.
DiscoverServicesEnd ==
    /\ cphase = "loop" /\ ci > Len(SortedDefinitions)
    /\ services' = RankServices(services)
    /\ hports' = hports \o SetToSeq(unbound)
    /\ cphase' = "done"
    /\ UNCHANGED <<cev, ci, unbound, target>>

DiscoverServices == ServiceStep \/ DiscoverServicesEnd
=============================================================================
