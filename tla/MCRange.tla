------------------------------- MODULE MCRange -------------------------------
(***************************************************************************)
(* Keys 1 and 2; nodes 1 and 3 have key 1, nodes 2 and 4 key 2.            *)
(***************************************************************************)
EXTENDS RangeQueries

Keys        == {1, 2}
NodeKey     == <<1, 2, 1, 2>>
OneBucket   == {1}
TwoBuckets  == {1, 2, 3}
AllAddresses == {0} \cup {1, 2, 3} \cup {101, 102, 103, 104}

Insert(n, at) == [do |-> "insert", key |-> NodeKey[n], node |-> n, at |-> at]
Replace(n)    == [do |-> "put", key |-> NodeKey[n], node |-> n, at |-> "cas"]
Delete(k)     == [do |-> "delete", key |-> k, at |-> "cas"]
LookFor(k)    == [do |-> "contains", key |-> k]
Query         == [do |-> "query", keys |-> Keys]
QueryOf(k)    == [do |-> "query", keys |-> {k}]

Scheme(rq, logical) == [rq |-> rq, logical |-> logical]
Case(s, favors, content, a, b, c) ==
    [scheme |-> s, favors |-> favors, content |-> content, programs |-> <<a, b, c>>]

\* Two deletions of one key, of which one fails while a query watches its
\* announcement; updates under both locks and in transactions; a logical
\* deletion that another unlinks; DCSS that meet, and that meet a query; and
\* queries that share a collector, with each other and with updates.
RangeCases == {
    Case(Scheme("rwlock", FALSE), "readers", {1, 2},
         <<Delete(1), Delete(2)>>, <<Delete(1)>>, <<QueryOf(1)>>),
    Case(Scheme("htm", FALSE), "writers", {1}, <<Delete(1)>>, <<Query>>, <<Insert(2, "write")>>),
    Case(Scheme("rwlock", TRUE), "readers", {1}, <<Delete(1)>>, <<Query>>, <<Insert(3, "cas")>>),
    Case(Scheme("dcss", FALSE), "readers", {1}, <<Replace(3)>>, <<Delete(1), Query>>, << >>),
    Case(Scheme("dcss", FALSE), "readers", {1}, <<Delete(1), Insert(3, "cas")>>, <<Query>>, << >>),
    Case(Scheme("dcss", TRUE), "readers", {1}, <<Delete(1), Insert(3, "write")>>, <<Query>>, << >>),
    Case(Scheme("snap", TRUE), "readers", {1}, <<Delete(1), Insert(2, "cas")>>, <<Query>>, << >>),
    Case(Scheme("snap", TRUE), "readers", {1},
         <<Delete(1), Insert(3, "cas")>>, <<LookFor(1), Query>>, << >>),
    Case(Scheme("snap", TRUE), "readers", {1}, <<Query>>, <<Insert(2, "write"), Query>>, << >>)
  }

\* A key comes and goes, and another comes, while a query collects reports.
ReportCases == {
    Case(Scheme("snap", TRUE), "readers", {},
         <<Insert(1, "cas"), Delete(1), Insert(2, "cas")>>, <<Query>>, << >>)
  }
=============================================================================
