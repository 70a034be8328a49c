--------------------------- MODULE MCCreateInput ---------------------------
(* A small instance of CreateInput for TLC: 6-bit integers, three-digit      *)
(* codes, and the custom codes at the edges of what is accepted.             *)
EXTENDS CreateInput

\* As in Go: -1 is the "#" of an empty fragment, which is not written out.
MCGrowths == {-1, 0, 2}
MCUnits   == {1, 3, 12}

MCPower == [k \in 0..BufLen |-> Base^k]

Custom(t, lower, len, plain) ==
  [text |-> t, lower |-> lower, len |-> len, plain |-> plain]

MCCodeInputs == {
  Custom("ab", "ab", 2, TRUE), Custom("abc", "abc", 3, TRUE),
  Custom("a/b", "a/b", 3, FALSE), Custom("long", "long", 32, TRUE),
  Custom("longer", "longer", 33, TRUE), Custom("api", "api", 3, TRUE),
  Custom("health", "health", 6, TRUE), Custom("Ready", "ready", 5, TRUE),
  Custom("ready", "ready", 5, TRUE), Custom("metrics", "metrics", 7, TRUE),
  Custom("nginx_status", "nginx_status", 12, TRUE)}

=============================================================================
