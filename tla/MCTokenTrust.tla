----------------------------- MODULE MCTokenTrust -----------------------------
(* Instances of TokenTrust for TLC.  A second has two ticks and a Duration  *)
(* five bits.                                                               *)
EXTENDS TokenTrust

Padded(name) == [name |-> name, padded |-> TRUE]

\* Seventeen seconds wrap around to one, sixteen to the default lifetime.
MCRequests ==
  [subject: {Padded("user")}, audiences: {{Padded("vault"), Text("other")}}, ttl: {0, 1, 16, 17}]
    \cup {[subject |-> Text("guest"), audiences |-> {Text("vault")}, ttl |-> 2],
          [subject |-> Text("user"), audiences |-> {Text("other")}, ttl |-> 1],
          [subject |-> Text("user"), audiences |-> {Text("vault"), Text("")}, ttl |-> 1],
          [subject |-> Text(""), audiences |-> {Text("vault")}, ttl |-> -1]}

User(subject, scopes) == [issuer |-> Issuer, subject |-> subject, scopes |-> scopes]

MCDocuments ==
  {[toml |-> TRUE, entries |-> <<User(Text("user"), {"work"})>>],
   [toml |-> TRUE, entries |-> <<User(Padded("user"), {"home"}), User(Text("user"), {"work"})>>],
   [toml |-> FALSE, entries |-> <<>>]}

Good == [key |-> 1, method |-> "EdDSA", signed |-> TRUE, iss |-> Issuer, sub |-> Text("user"),
         aud |-> {Audience}, exp |-> {4}, told |-> 4, issued |-> 0, start |-> 0,
         request |-> [subject |-> Text("user"), audiences |-> {Audience}, ttl |-> 2]]

\* Tokens that nobody minted: another key, another method, no expiry.
MCForeignTokens == {[Good EXCEPT !.key = 9], [Good EXCEPT !.method = "HS256"],
                    [Good EXCEPT !.signed = FALSE]}
=============================================================================
