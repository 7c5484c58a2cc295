-------------------------- MODULE MCQueryStateTable --------------------------
(***************************************************************************)
(* The table alone, driven by any sequence of calls.  MaxAdds bounds the   *)
(* number of queries ever added; it exceeds MaxQueryId, so ids wrap while  *)
(* older queries are still alive.                                          *)
(***************************************************************************)
EXTENDS QueryStateTable

CONSTANTS MaxAdds, MaxPrefix

NoLimit == {-1}

Bounded ==
  /\ added <= MaxAdds
  /\ \A id \in DOMAIN query_map : query_map[id].prefix_len <= MaxPrefix

=============================================================================
