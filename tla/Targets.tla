------------------------------ MODULE Targets -------------------------------
(***************************************************************************)
(* Which endpoints dnsspeed measures: parseProtocols and the first half of *)
(* run (cmd/dnsspeed/main.go) with LoadServers, BuildTargets and           *)
(* filterTargets (cmd/dnsspeed/servers.go).                                *)
(*                                                                         *)
(* A row of the list is a record of what the code asks of it.  A URL is    *)
(* its host, its path and whether it is written in capitals, which         *)
(* strings.ToLower removes; NoURL stands for an empty cell and for one     *)
(* that begins with "#".  A regular expression is the providers and the    *)
(* URLs it matches, a list of protocols the set of its names.  An empty    *)
(* sequence is returned where the code returns an error.                   *)
(***************************************************************************)
EXTENDS SequencesExt, FiniteSets

CONSTANTS
  NoURL,   \* the URL of a row without one
  NoHosts, \* the hosts no DoQ endpoint is derived from: IP addresses and none
  NoFilter \* the value of -filter that is not given

-----------------------------------------------------------------------------
(* parseProtocols.                                                         *)

Known == {"", "doh", "https", "h2", "doq", "quic", "all"}

AddAgain(out, p) == Append(out, p)
Add(out, p) == IF p \in Range(out) THEN out ELSE Append(out, p)

AddPart(out, part) ==
  CASE part \in {"doh", "https", "h2"} -> Add(out, "DoH")
    [] part \in {"doq", "quic"} -> Add(out, "DoQ")
    [] part = "all" -> Add(Add(out, "DoH"), "DoQ")
    [] OTHER -> out

ParseProtocols(parts) ==
  IF Range(parts) \subseteq Known THEN FoldLeft(AddPart, <<>>, parts) ELSE <<>>

-----------------------------------------------------------------------------
(* The servers.                                                            *)

Key(url) == [url EXCEPT !.capitals = FALSE]

IsComment(row) == row.comment

Server(row) ==
  [provider  |-> IF row.provider = "" THEN row.url.host ELSE row.provider,
   url       |-> row.url,
   protocols |-> row.protocols]

LoadRow(list, row) ==
  IF IsComment(row) \/ row.url = NoURL THEN list
  ELSE IF Key(row.url) \in list.seen THEN list
  ELSE [seen    |-> list.seen \cup {Key(row.url)},
        servers |-> Append(list.servers, Server(row))]

LoadServers(rows) ==
  FoldLeft(LoadRow, [seen |-> {}, servers |-> <<>>], rows).servers

-----------------------------------------------------------------------------
(* The endpoints.                                                          *)

Target(s, proto, url) == [server |-> s, proto |-> proto, url |-> url]

Supports(s, proto) == proto \in s.protocols

\* The host as the URL has it: Hostname keeps the case of its letters.
DoQURL(s) == [quic |-> s.url.host, capitals |-> s.url.capitals]

HasEndpoint(s, proto) ==
  proto = "DoH" \/ (Supports(s, "DoQ") /\ s.url.host \notin NoHosts)

\* The error of one row ends the list of that row only.
AddTarget(targets, s, proto) ==
  IF HasEndpoint(s, proto)
  THEN Append(targets,
              Target(s, proto, IF proto = "DoH" THEN s.url ELSE DoQURL(s)))
  ELSE targets

AddServer(targets, s, protos) ==
  FoldLeft(LAMBDA list, proto : AddTarget(list, s, proto), targets, protos)

BuildTargets(servers, protos) ==
  FoldLeft(LAMBDA list, s : AddServer(list, s, protos), <<>>, servers)

Matches(t, re) == t.server.provider \in re.providers \/ t.url \in re.urls

FilterTargets(targets, re) ==
  FoldLeft(LAMBDA out, t : IF Matches(t, re) THEN Append(out, t) ELSE out,
           <<>>, targets)

Limited(targets, limit) ==
  IF limit > 0 /\ Len(targets) > limit THEN SubSeq(targets, 1, limit) ELSE targets

LimitFirst(rows, protos, re, limit) ==
  LET targets == Limited(BuildTargets(LoadServers(rows), protos), limit)
  IN  IF re = NoFilter THEN targets ELSE FilterTargets(targets, re)

Plan(rows, protos, re, limit) ==
  LET targets == BuildTargets(LoadServers(rows), protos)
  IN  Limited(IF re = NoFilter THEN targets ELSE FilterTargets(targets, re), limit)
=============================================================================
