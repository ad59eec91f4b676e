----------------------------- MODULE MCGateway -----------------------------
(* Two principals, two repos, two concurrent requests.                     *)
EXTENDS Gateway

Bare(t) == [form |-> "bare", repo |-> t]
Scope(id, r, w) == [res |-> id, r |-> r, w |-> w]

\* ann is a member from the start: she writes "a", and reads and writes it
\* through the first of two scopes that match.  bob is provisioned on login.
MCControl ==
  [active |-> TRUE,
   members |-> [s \in {"ann", "bob"} |->
     IF s = "ann" THEN [role |-> "Member", scopes |-> <<Scope(Bare("a"), TRUE, TRUE)>>]
     ELSE [role |-> "None", scopes |-> <<>>]]]

BobEntry(role) == [email |-> "bob@x", wallet |-> "", role |-> role,
                   scopes |-> <<Scope([form |-> "any", repo |-> "*"], TRUE, TRUE)>>]
ReadOnlyBob == [parses |-> TRUE, members |-> <<BobEntry("ReadOnly")>>]
MCAllowlists == {ReadOnlyBob,
                 [parses |-> TRUE,  members |-> <<BobEntry("Member")>>],
                 [parses |-> FALSE, members |-> <<>>]}

Env(oidc, dev, ack) ==
  [up |-> TRUE, oidc |-> oidc, jwks |-> TRUE, dev |-> dev, ack |-> ack, seed |-> TRUE,
   connect |-> TRUE, jit |-> TRUE, owner |-> "none", since |-> 0]

Oidc(s, mail, verified) ==
  [kind |-> "oidc", sub |-> s, email |-> mail, verified |-> verified, wallet |-> "", exp |-> 9,
   org |-> FALSE, write |-> FALSE, named |-> FALSE, tenants |-> <<>>]
Connect(s, write, tenants) ==
  [kind |-> "connect", sub |-> s, email |-> "", verified |-> FALSE, wallet |-> "", exp |-> 9,
   org |-> TRUE, write |-> write, named |-> TRUE, tenants |-> tenants]
Dev(s) == [Oidc(s, "", FALSE) EXCEPT !.kind = "dev"]
Input(route, tok, repo, calls) ==
  [route |-> route, tok |-> tok, repo |-> repo, path |-> tok.sub, lines |-> calls, calls |-> calls]
\* One line that is no tool call.
Ping(tok) == [Input("byom", tok, "*", 0) EXCEPT !.lines = 1]

Ann == Oidc("ann", "", FALSE)
Bob == Oidc("bob", "bob@x", TRUE)
AnnToken == Connect("ann", TRUE, <<"a", "b">>)
World(inputs, envs, a, c, e, s, f, m) ==
  [list |-> ReadOnlyBob, inputs |-> inputs, envs |-> envs, audit |-> a, clock |-> c, edits |-> e, starts |-> s,
   faults |-> f, mints |-> m]
MCWorlds ==
  { \* first logins of bob while the operator edits the files and saves fail
    World({Input("assert", Bob, "b", 0), Ping(Bob), Input("recall", Ann, "a", 0)},
          {Env(TRUE, FALSE, FALSE)}, 1, 0, 1, 2, 1, FALSE),
    \* members read, write and checkpoint at the same time
    World({Input("neighbors", Ann, "a", 0), Input("checkpoint", Ann, "a", 0), Input("assert", Ann, "a", 0),
           Input("assert", Ann, "b", 0), Input("layout", Bob, "*", 0),
           Input("recall", Oidc("bob", "bob@x", FALSE), "a", 0)},
          {Env(TRUE, FALSE, FALSE)}, 3, 0, 0, 1, 0, FALSE),
    \* BYOM requests compete for places and permits as time passes
    World({Input("byom", Bob, "*", 1), Input("byom", AnnToken, "*", 1)},
          {Env(TRUE, FALSE, FALSE)}, 1, 1, 0, 1, 0, FALSE),
    \* gateway-minted connect tokens expire; the dev header
    World({Input("recall", Dev("ann"), "a", 0), Input("recall", Ann, "a", 0), Input("byom", AnnToken, "*", 2)},
          {Env(TRUE, FALSE, FALSE), Env(FALSE, TRUE, TRUE), Env(FALSE, TRUE, FALSE)}, 1, 1, 0, 1, 0, TRUE)}
\* A grant nobody here issued, and one of bob's that narrows him to "a".
MCMetaGrants == {[present |-> TRUE, trusted |-> FALSE, sub |-> "ann", scopes |-> <<>>, exp |-> 9],
                 [present |-> TRUE, trusted |-> TRUE, sub |-> "bob",
                  scopes |-> <<Scope([form |-> "qualified", repo |-> "a"], TRUE, FALSE)>>, exp |-> 9]}
=============================================================================
