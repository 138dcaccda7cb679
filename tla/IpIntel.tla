------------------------------ MODULE IpIntel ------------------------------
(***************************************************************************)
(* What the web server knows of addresses: the reputation of its clients   *)
(* (class IpIntelligenceService of ipIntelligence.js, asked by             *)
(* ipBlockingMiddleware of lib/audit.js on every request) and its own      *)
(* public address (getServerPublicIp of lib/audit.js), in one process that *)
(* restarts.  The two remote services may answer, fail or time out.        *)
(*                                                                         *)
(* A report is the set of flags the service raises for an address; the     *)
(* hour of a record and the day of the public address end in steps.        *)
(***************************************************************************)
EXTENDS Naturals, Sequences

CONSTANTS
    IpAddrs,        \* public addresses of clients
    IpPrivate,      \* addresses #isPrivate recognises
    IpReqs,         \* requests
    IpEnvs,         \* environments: the IP_BLOCK_ variables that are set
    IpReports,      \* reports: sets of flags
    IpCacheMax,     \* #MAX_CACHE
    PublicIps,      \* addresses the server may have
    PubCallMax      \* bound: callers of getServerPublicIp at a time

VARIABLES
    ipPolicy,   \* ctx.ipPolicy: the kinds of address that are blocked
    ipCache,    \* #cache in the order of its keys
    ipPending,  \* #pending
    ipFetches,  \* requests to the service in flight, for each address
    ipReq,      \* the requests
    ipHist,     \* history: the report of the last hour on each address, and
                \* the addresses whose record was pushed out since
    pubMem,     \* _serverPublicIp and whether its day has not ended
    pubDisk,    \* public_ip_cache.json
    pubCalls,   \* callers that wait for the service
    pubHist     \* history: the last answer, and what it had to be

intelVars == <<ipPolicy, ipCache, ipPending, ipFetches, ipReq, ipHist>>
pubVars == <<pubMem, pubDisk, pubCalls, pubHist>>
addressVars == <<intelVars, pubVars>>

NoReport == [known |-> FALSE, flags |-> {}]
Reported(f) == [known |-> TRUE, flags |-> f]
NoAddress == [ip |-> "none", fresh |-> FALSE]
TornAddress == [ip |-> "torn", fresh |-> FALSE]

-----------------------------------------------------------------------------
(* The policy and the verdict *)

parseBoolEnv(env, k, default) == IF k \in DOMAIN env THEN env[k] \in {"true", "1"} ELSE default

loadIpPolicy(env) ==
    { k \in {"tor", "proxy", "vpn", "abuser"} : parseBoolEnv(env, k, k # "vpn") }

isThreat(report, policy) ==
    /\ report.known
    /\ \/ "tor" \in policy /\ report.flags \cap {"tor", "relay"} # {}
       \/ "proxy" \in policy /\ "proxy" \in report.flags
       \/ "vpn" \in policy /\ "vpn" \in report.flags
       \/ "abuser" \in policy /\ report.flags \cap {"abuser", "attacker"} # {}

(* The rest of ipBlockingMiddleware once lookup has answered. *)
Decided(q, report) ==
    [q EXCEPT !.at = IF isThreat(report, ipPolicy) THEN "refused" ELSE "admitted",
              !.known = ipHist.report[q.ip],
              !.pushed = q.ip \in ipHist.pushed]

-----------------------------------------------------------------------------
(* lookup *)

FreshIn(cache, ip) == { i \in DOMAIN cache : cache[i].ip = ip /\ cache[i].fresh }

(* Mutant of Shared: every request asks the service itself. *)
SharedNever(ip) == FALSE

(* A lookup for the address is in flight already. *)
Shared(ip) == ip \in ipPending

(* A request arrives.  The lookup answers from the record of the last      *)
(* hour, joins the one in flight, or asks the service.                     *)
IpArrives(r, ip) ==
    /\ ipReq[r].at = "idle"
    /\ LET q == [ipReq[r] EXCEPT !.at = "waits", !.ip = ip] IN
       \/ /\ ip \in IpPrivate
          /\ ipReq' = [ipReq EXCEPT ![r] = [q EXCEPT !.at = "admitted"]]
          /\ UNCHANGED <<ipPending, ipFetches>>
       \/ /\ ip \notin IpPrivate
          /\ \E i \in FreshIn(ipCache, ip) :
                ipReq' = [ipReq EXCEPT ![r] = Decided(q, Reported(ipCache[i].flags))]
          /\ UNCHANGED <<ipPending, ipFetches>>
       \/ /\ ip \notin IpPrivate /\ FreshIn(ipCache, ip) = {} /\ Shared(ip)
          /\ ipReq' = [ipReq EXCEPT ![r] = q]
          /\ UNCHANGED <<ipPending, ipFetches>>
       \/ /\ ip \notin IpPrivate /\ FreshIn(ipCache, ip) = {} /\ ~Shared(ip)
          /\ ipReq' = [ipReq EXCEPT ![r] = q]
          /\ ipPending' = ipPending \cup {ip}
          /\ ipFetches' = [ipFetches EXCEPT ![ip] = @ + 1]
    /\ UNCHANGED <<ipPolicy, ipCache, ipHist>>

(* The record is cached for an hour.  A full cache loses its first key,    *)
(* needed or not; a key that is still there keeps its place.               *)
Cached(cache, ip, flags) ==
    LET room == IF Len(cache) >= IpCacheMax THEN Tail(cache) ELSE cache
        new == [ip |-> ip, flags |-> flags, fresh |-> TRUE]
    IN IF \E i \in DOMAIN room : room[i].ip = ip
       THEN [i \in DOMAIN room |-> IF room[i].ip = ip THEN new ELSE room[i]]
       ELSE Append(room, new)

(* The promise of the lookup settles, for every request that shares it. *)
Settled(ip, report, known) ==
    [r \in IpReqs |->
        IF ipReq[r].at = "waits" /\ ipReq[r].ip = ip
        THEN [Decided(ipReq[r], report) EXCEPT !.known = known]
        ELSE ipReq[r]]

IpAnswered(ip, flags) ==
    /\ ipFetches[ip] > 0
    /\ ipCache' = Cached(ipCache, ip, flags)
    /\ ipReq' = Settled(ip, Reported(flags), Reported(flags))
    /\ ipHist' = [report |-> [ipHist.report EXCEPT ![ip] = Reported(flags)],
                  pushed |-> (ipHist.pushed \cup
                                 { a \in IpAddrs : FreshIn(ipCache, a) # {} /\ FreshIn(ipCache', a) = {} })
                             \ {ip}]
    /\ ipPending' = ipPending \ {ip}
    /\ ipFetches' = [ipFetches EXCEPT ![ip] = @ - 1]
    /\ UNCHANGED ipPolicy

(* The service is rate limited, refuses, fails or does not answer in five  *)
(* seconds: the lookup answers null and nothing is cached.                 *)
IpFails(ip) ==
    /\ ipFetches[ip] > 0
    /\ ipReq' = Settled(ip, NoReport, ipHist.report[ip])
    /\ ipPending' = ipPending \ {ip}
    /\ ipFetches' = [ipFetches EXCEPT ![ip] = @ - 1]
    /\ UNCHANGED <<ipPolicy, ipCache, ipHist>>

(* The hour of the report on ip ends. *)
IpHourEnds(ip) ==
    /\ ipHist.report[ip].known
    /\ ipCache' = [i \in DOMAIN ipCache |->
                      IF ipCache[i].ip = ip THEN [ipCache[i] EXCEPT !.fresh = FALSE] ELSE ipCache[i]]
    /\ ipHist' = [report |-> [ipHist.report EXCEPT ![ip] = NoReport],
                  pushed |-> ipHist.pushed \ {ip}]
    /\ UNCHANGED <<ipPolicy, ipPending, ipFetches, ipReq>>

NoIpReq == [at |-> "idle", ip |-> "", known |-> NoReport, pushed |-> FALSE]

(* The client takes its answer; the request is done. *)
IpDone(r) ==
    /\ ipReq[r].at \in {"admitted", "refused"}
    /\ ipReq' = [ipReq EXCEPT ![r] = NoIpReq]
    /\ UNCHANGED <<ipPolicy, ipCache, ipPending, ipFetches, ipHist>>

-----------------------------------------------------------------------------
(* getServerPublicIp *)

(* The file is read when memory holds no address; a torn one is ignored. *)
FromDisk(mem, disk) == IF mem = NoAddress /\ disk # TornAddress THEN disk ELSE mem

(* The answer of a call, and whether an address was at hand for it. *)
PubAnswer(mem, disk) ==
    [answer |-> mem.ip, hand |-> pubMem # NoAddress \/ disk \notin {NoAddress, TornAddress}]

PubCalled ==
    /\ pubCalls < PubCallMax
    /\ pubMem' = FromDisk(pubMem, pubDisk)
    /\ IF pubMem'.fresh
       THEN pubHist' = PubAnswer(pubMem', pubDisk) /\ UNCHANGED pubCalls
       ELSE pubCalls' = pubCalls + 1 /\ UNCHANGED pubHist
    /\ UNCHANGED pubDisk

(* The service answers; the write of the file may fail, unnoticed. *)
PubFetched(ip) ==
    /\ pubCalls > 0
    /\ pubMem' = [ip |-> ip, fresh |-> TRUE]
    /\ pubDisk' \in {pubMem', pubDisk}
    /\ pubHist' = PubAnswer(pubMem', pubDisk)
    /\ pubCalls' = pubCalls - 1

(* It does not: an address whose day has ended is still the answer. *)
PubFails ==
    /\ pubCalls > 0
    /\ pubHist' = PubAnswer(pubMem, pubDisk)
    /\ pubCalls' = pubCalls - 1
    /\ UNCHANGED <<pubMem, pubDisk>>

PubDayEnds ==
    /\ pubMem.fresh \/ pubDisk.fresh
    /\ pubMem' = [pubMem EXCEPT !.fresh = FALSE]
    /\ pubDisk' = [pubDisk EXCEPT !.fresh = FALSE]
    /\ UNCHANGED <<pubCalls, pubHist>>

(* The process ends, perhaps in the middle of the write, and another       *)
(* starts.                                                                 *)
PubRestart ==
    /\ pubMem' = NoAddress
    /\ pubDisk' \in {pubDisk} \cup (IF pubCalls > 0 THEN {TornAddress} ELSE {})
    /\ pubCalls' = 0
    /\ pubHist' = [answer |-> "", hand |-> FALSE]

-----------------------------------------------------------------------------
AddressInit ==
    /\ \E env \in IpEnvs : ipPolicy = loadIpPolicy(env)
    /\ ipCache = <<>>
    /\ ipPending = {}
    /\ ipFetches = [ip \in IpAddrs |-> 0]
    /\ ipReq = [r \in IpReqs |-> NoIpReq]
    /\ ipHist = [report |-> [ip \in IpAddrs |-> NoReport], pushed |-> {}]
    /\ pubMem = NoAddress
    /\ pubDisk = NoAddress
    /\ pubCalls = 0
    /\ pubHist = [answer |-> "", hand |-> FALSE]

IntelNext ==
    \/ \E r \in IpReqs : \E ip \in IpAddrs \cup IpPrivate : IpArrives(r, ip)
    \/ \E r \in IpReqs : IpDone(r)
    \/ \E ip \in IpAddrs : (\E f \in IpReports : IpAnswered(ip, f)) \/ IpFails(ip) \/ IpHourEnds(ip)

PubNext ==
    \/ PubCalled
    \/ \E ip \in PublicIps : PubFetched(ip)
    \/ PubFails
    \/ PubDayEnds
    \/ PubRestart

-----------------------------------------------------------------------------
(* Properties *)

(* ipBlockingMiddleware decides by the report of the last hour: a refused  *)
(* client was reported as a threat, and a client so reported is admitted   *)
(* in that hour only after its record was pushed out of the full cache     *)
(* (and the lookup that followed failed, which fails open).                *)
VerdictCurrent ==
    \A r \in IpReqs :
        LET q == ipReq[r] IN
        /\ q.at = "refused" => isThreat(q.known, ipPolicy)
        /\ q.at = "admitted" /\ isThreat(q.known, ipPolicy) => q.pushed

(* "deduplicates concurrent lookups for same IP" (ipIntelligence.js): the  *)
(* service is asked once at a time for an address, a request that waits    *)
(* has a lookup that will settle it, and the cache keeps within its limit  *)
(* with one record for each address.                                       *)
LookupsBounded ==
    /\ \A ip \in IpAddrs : ipFetches[ip] <= 1
    /\ \A r \in IpReqs : ipReq[r].at = "waits" => ipFetches[ipReq[r].ip] = 1
    /\ Len(ipCache) <= IpCacheMax
    /\ \A i, j \in DOMAIN ipCache : ipCache[i].ip = ipCache[j].ip => i = j

(* getServerPublicIp answers no address only when neither the process nor  *)
(* its file held one: failures of the service and restarts lose nothing.   *)
PublicIpKept == pubHist.hand => pubHist.answer # "none"
=============================================================================
