----------------------------- MODULE MCTargets ------------------------------
(***************************************************************************)
(* The lists, options and reference definitions with which TLC checks      *)
(* Targets.  The definitions use no order of evaluation: they say of every *)
(* row and endpoint whether it is kept, and count the ones before it.      *)
(***************************************************************************)
EXTENDS Targets

CONSTANT MaxRows  \* bound: the rows of a list

URL(h, p, c) == [host |-> h, path |-> p, capitals |-> c]
Row(u, ps) == [comment |-> FALSE, provider |-> "", url |-> u, protocols |-> ps]

\* Two spellings and two paths of one host, an IP address, a server without
\* DoQ, one that is commented out and one that has no URL.
RowKinds ==
  LET a == Row(URL("a", "p", FALSE), {"DoH", "DoQ"})
  IN  {a, [a EXCEPT !.url.capitals = TRUE], [a EXCEPT !.url.path = "q"],
       [a EXCEPT !.comment = TRUE], [a EXCEPT !.url = NoURL],
       [a EXCEPT !.url.host = "ip", !.provider = "b"],
       Row(URL("b", "p", FALSE), {"DoH"})}

\* The DoQ URL of a server: what a URL says of its host, without the path.
Derived(url) == [quic |-> url.host, capitals |-> url.capitals]

Lists   == UNION {[1..n -> RowKinds] : n \in 0..MaxRows}
Options == {<<"all">>, <<"quic", "">>, <<"doq", "all">>, <<"doh", "all", "h2">>,
            <<"doh", "dot">>}
Filters == {NoFilter, [providers |-> {"b"}, urls |-> {}],
            [providers |-> {}, urls |-> {Derived(URL("a", "p", FALSE)),
                                          URL("a", "q", FALSE)}]}
Limits  == 0..2

\* The rows that are kept, and their position among them.
Usable(row) == ~row.comment /\ row.url # NoURL
SameURL(u, v) == u.host = v.host /\ u.path = v.path
Kept(rows) ==
  {n \in DOMAIN rows :
     Usable(rows[n]) /\ \A m \in 1..n - 1 :
       Usable(rows[m]) => ~SameURL(rows[m].url, rows[n].url)}

\* The endpoints that are asked for: pairs of a row and a place of protos.
Asked(rows, protos, re) ==
  {e \in Kept(rows) \X DOMAIN protos :
     LET s == Server(rows[e[1]])
         doq == protos[e[2]] = "DoQ"
     IN  /\ doq => "DoQ" \in s.protocols /\ s.url.host \notin NoHosts
         /\ \/ re = NoFilter
            \/ s.provider \in re.providers
            \/ (IF doq THEN Derived(s.url) ELSE s.url) \in re.urls}

Earlier(d, e) == d[1] < e[1] \/ (d[1] = e[1] /\ d[2] < e[2])
PlaceOf(e, asked) == 1 + Cardinality({d \in asked : Earlier(d, e)})

IsPlan(plan, asked, rows, protos, limit) ==
  LET wanted == {e \in asked : limit = 0 \/ PlaceOf(e, asked) <= limit}
  IN  /\ Len(plan) = Cardinality(wanted)
      /\ \A e \in wanted :
           LET t == plan[PlaceOf(e, asked)]
           IN  t.server = Server(rows[e[1]]) /\ t.proto = protos[e[2]]
=============================================================================
