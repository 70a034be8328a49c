---------------------------- MODULE CreateInput ----------------------------
(***************************************************************************)
(* What one POST /api/v1/urls does with its input, from the body to the    *)
(* rows of the urls table: the checks and conversions of the handler and   *)
(* the service, in their order, and the constraints of the table behind    *)
(* them.  Each part of the input is chosen when it is looked at.           *)
(*                                                                         *)
(* Texts are lengths and the facts that the checks tell apart; durations   *)
(* are machine integers; the generated code is the work of Base62.         *)
(***************************************************************************)
EXTENDS Base62, FiniteSets

CONSTANTS
  MaxURL,     \* maxURLLength, and the bound of the table's CHECK
  Prefix,     \* the length of "http://"
  Growths,    \* how much longer url.String may be than what was parsed
  Half,       \* half the numbers of an int and a time.Duration, 2^63
  Units,      \* the lengths of a minute, an hour and a day
  MaxExpiry,  \* 365 days
  MaxKey,     \* maxIdemKeyLength
  MinCode, MaxCode,  \* the lengths of custom codes
  CodeInputs  \* the custom codes a client may send, see Word

\* A custom code: how it reads, how in lower case, its length, and whether it
\* has letters, digits, '-' and '_' only.
Word == [text : STRING, lower : STRING, len : Nat, plain : BOOLEAN]

ASSUME InputConstants ==
  /\ {MaxURL, Prefix, Half, MaxExpiry, MaxKey, MinCode, MaxCode} \subseteq Nat \ {0}
  /\ Growths \subseteq Int /\ Units \subseteq Nat \ {0}
  /\ \A w \in CodeInputs : w \in Word

VARIABLES
  at,      \* the next step of the request
  stored,  \* the length of the URL as it will be stored
  life,    \* the time to expiry, 0 for never
  custom,  \* the custom code, NoCode for none
  rows,    \* the rows this request has inserted
  status   \* the answer's status and error code, <<>> before

input == <<at, stored, life, custom>>
all   == <<input, rows, status, vars>>

NoCode == [text |-> "", lower |-> "", len |-> 0, plain |-> TRUE]
Steps  == {"body", "url", "expiry", "key", "code", "insert", "encode", "name", "done"}

\* A row of the table: its code is a text or the digits of its id, or neither
\* as long as it has no code.
Row(t, d) == [text |-> t, digits |-> d, life |-> life]

Start ==
  /\ at = "body" /\ stored = 0 /\ life = 0 /\ custom = NoCode
  /\ rows = {} /\ status = <<>>
  /\ arg = 0 /\ n = 0 /\ i = BufLen /\ buf = [k \in 1..BufLen |-> 0]

-----------------------------------------------------------------------------
Goto(s) == at' = s /\ UNCHANGED <<status, rows>>

Answer(s, e) ==
  /\ at' = "done" /\ status' = <<s, e>>
  /\ UNCHANGED <<stored, life, custom, rows, vars>>

\* Create, the handler: the body is read, up to its limit, and decoded.
Body ==
  /\ at = "body"
  /\ \/ Answer(413, "body_too_large")
     \/ Answer(400, "invalid_json")
     \/ Goto("url") /\ UNCHANGED <<stored, life, custom, vars>>

\* The URLs that may be sent, as far as validateLongURL tells them apart.
\* "none" is a text without "://", which gets the prefix.
RawURLs == [len : 0..(MaxURL + 1), scheme : {"none", "http", "other"},
            parses : BOOLEAN, host : {"none", "own", "else"}]

\* validateLongURL.  What is stored is the parsed URL written out again: with
\* the prefix, and escaped.
ValidateURL ==
  /\ at = "url"
  /\ \E u \in RawURLs :
       \/ u.len = 0 /\ Answer(400, "url_invalid")
       \/ u.len > MaxURL /\ Answer(400, "url_too_long")
       \/ /\ u.len \in 1..MaxURL
          /\ \/ /\ ~u.parses \/ u.scheme = "other" \/ u.host = "none"
                /\ Answer(400, "url_invalid")
             \/ /\ u.parses /\ u.scheme # "other"
                /\ \/ u.host = "own" /\ Answer(400, "self_reference")
                   \/ /\ u.host = "else"
                      /\ \E g \in Growths :
                           stored' = u.len + g + IF u.scheme = "none" THEN Prefix ELSE 0
                      /\ Goto("expiry") /\ UNCHANGED <<life, custom, vars>>

-----------------------------------------------------------------------------
\* Two's complement: from -Half to Half - 1.
Wrap(x) == ((x + Half) % (2 * Half)) - Half

\* The durations parseExpiry lets pass; a variant without the lower bound.
InRangeAbove(d) == d <= MaxExpiry
InRange(d)      == d <= MaxExpiry /\ d > 0

\* parseExpiry: a text that is no number and unit, or a number that is no int,
\* is refused; the product of the others wraps.
ParseExpiry ==
  /\ at = "expiry"
  /\ \/ life' = 0 /\ Goto("key") /\ UNCHANGED <<stored, custom, vars>>
     \/ Answer(400, "expires_in_invalid")
     \/ \E k \in 0..(Half - 1), unit \in Units :
          LET d == Wrap(k * unit) IN
          \/ ~InRange(d) /\ Answer(400, "expires_in_invalid")
          \/ InRange(d) /\ life' = d /\ Goto("key") /\ UNCHANGED <<stored, custom, vars>>

\* The length of the Idempotency-Key, 0 for none.  (What follows with a key is
\* the subject of IdempotentCreate; here the request is the first with it.)
CheckKey ==
  /\ at = "key"
  /\ \E l \in {0, MaxKey, MaxKey + 1} :
       \/ l > MaxKey /\ Answer(400, "idempotency_key_too_long")
       \/ l <= MaxKey /\ Goto("code") /\ UNCHANGED <<stored, life, custom, vars>>

-----------------------------------------------------------------------------
\* The router's paths of one segment besides /{code}; they come first.
StaticRoutes == {"health", "ready", "metrics"}

\* The paths that the proxy before it takes for itself, or for one of those.
ProxyPaths == {"nginx_status", "ready"}

\* The codes whose redirects never reach /{code}.
Hidden == StaticRoutes \cup ProxyPaths

\* What strings.ToLower leaves alone.
ASSUME LowerCase ==
  \A w \in CodeInputs : w.text \in Hidden => w.lower = w.text

\* reservedCodes; a variant with a word missing.
ReservedButOne == {"api", "health", "ready"}
Reserved       == {"api", "health", "ready", "metrics"}

\* validateCustomCode.
ValidCode(w) ==
  w.len \in MinCode..MaxCode /\ w.plain /\ w.lower \notin Reserved

CheckCode ==
  /\ at = "code"
  /\ \/ Goto("insert") /\ UNCHANGED <<stored, life, custom, vars>>
     \/ \E w \in CodeInputs :
          \/ ~ValidCode(w) /\ Answer(400, "custom_code_invalid")
          \/ ValidCode(w) /\ custom' = w /\ Goto("insert")
             /\ UNCHANGED <<stored, life, vars>>

\* The INSERT of CreateWithCode or Create.  The table refuses a URL that has
\* grown beyond the limit, and a code that is taken.
Insert ==
  /\ at = "insert"
  /\ \/ stored \notin 1..MaxURL /\ Answer(500, "internal")
     \/ custom # NoCode /\ Answer(409, "custom_code_taken")
     \/ /\ stored \in 1..MaxURL /\ custom # NoCode
        /\ rows' = rows \cup {Row(custom.text, <<>>)}
        /\ at' = "done" /\ status' = <<201, "">>
        /\ UNCHANGED <<stored, life, custom, vars>>
     \/ /\ stored \in 1..MaxURL /\ custom = NoCode
        /\ rows' = rows \cup {Row("", <<>>)}
        /\ \E id \in 1..MaxUint : Call(id)
        /\ at' = "encode"
        /\ UNCHANGED <<stored, life, custom, status>>

\* EncodeBase62, a digit at a time.
Encode ==
  /\ at = "encode"
  /\ \/ Digit /\ UNCHANGED <<input, rows, status>>
     \/ ~More /\ Goto("name") /\ UNCHANGED <<stored, life, custom, vars>>

\* SetCode; a generated code that is taken is the server's fault.
Name ==
  /\ at = "name"
  /\ \/ /\ rows' = {[r EXCEPT !.digits = Result] : r \in rows}
        /\ status' = <<201, "">>
     \/ status' = <<500, "internal">> /\ UNCHANGED rows
  /\ at' = "done"
  /\ UNCHANGED <<stored, life, custom, vars>>

Next ==
  \/ Body \/ ValidateURL \/ ParseExpiry \/ CheckKey \/ CheckCode
  \/ Insert \/ Encode \/ Name

InputSpec == Start /\ [][Next]_all

-----------------------------------------------------------------------------
(* What a request may rely on.                                             *)

\* The type invariant.  An expiry that is stored lies ahead, by no more than
\* the maximum, whatever number was sent and however its product has wrapped.
TypeOK ==
  /\ at \in Steps /\ stored \in Int /\ life \in 0..MaxExpiry
  /\ custom \in CodeInputs \cup {NoCode}
  /\ arg \in 0..MaxUint /\ n \in 0..arg /\ i \in 0..BufLen /\ buf \in [1..BufLen -> Digits]
  /\ Cardinality(rows) <= 1 /\ \A r \in rows : r.life = life

\* A custom code that a route of the router's or a path of the proxy's hides is
\* refused by the create, but for one: the reserved words lack nginx_status, and
\* a link with that code is never reached through the proxy.
HiddenCodesRefused == \A r \in rows : r.text \notin Hidden \ {"nginx_status"}

=============================================================================
