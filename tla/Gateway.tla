------------------------------ MODULE Gateway ------------------------------
(***************************************************************************)
(* The mem-gateway process: authentication, the control plane with its     *)
(* just-in-time provisioning, the authorization gate of the HTTP routes,   *)
(* the BYOM endpoint with its work bounds, external checkpoints, and the   *)
(* operator who edits the gateway's two files while it runs.               *)
(*                                                                         *)
(* Requests run on several threads.  A request is split where the code     *)
(* releases one lock and takes another; what one lock covers is one step.  *)
(* JWT and ed25519 verification are abstract: a token is the record of the *)
(* claims that verification returns, and a token that no key verifies has  *)
(* kind "bad".                                                             *)
(***************************************************************************)
EXTENDS Integers, Sequences, FiniteSets, FiniteSetsExt

CONSTANTS
  Subs,            \* principals (the OIDC `sub`)
  Repos,           \* repo tenants of the one org this gateway serves
  Reqs,            \* request slots: how many requests are in flight at once
  MetaGrants,      \* grants a client puts into `_meta` of a JSON-RPC call
  Allowlists,      \* contents the operator gives the team allowlist file
  Worlds,          \* what surrounds a gateway: see `world`
  InitialControl,  \* control.json when the gateway is first installed
  Burst, Refill,   \* BYOM_BURST_CALLS, BYOM_REFILL_PER_SEC
  MaxLines,        \* BYOM_MAX_LINES
  MaxSlots,        \* BYOM_MAX_CONCURRENT
  PerPrincipal,    \* BYOM_MAX_CONCURRENT_PER_PRINCIPAL
  GrantTTL,        \* GRANT_TTL_MS
  ConnectTTL       \* TTL_SECS of a gateway-minted connect token

Star == [form |-> "any", repo |-> "*"]  \* the wildcard
Resources == {Star} \cup [form : {"bare", "qualified"}, repo : Repos]
Roles == {"None", "OrgOwner", "Admin", "Member", "ReadOnly"}
Scopes == [res : Resources, r : BOOLEAN, w : BOOLEAN]
Membership == [role : Roles, scopes : Seq(Scopes)]
Envs == [up : {TRUE}, oidc : BOOLEAN, jwks : BOOLEAN, dev : BOOLEAN, ack : BOOLEAN, seed : BOOLEAN,
         connect : BOOLEAN, jit : BOOLEAN, owner : Subs \cup {"none"}, since : {0}]
Routes == {"layout", "recall", "neighbors", "assert", "checkpoint", "byom"}

\* What serde and the routers let through: typed files, requests of known
\* routes.  A world's counters are numbers and its environments run.
ASSUME GatewayAssumption ==
  /\ {Burst, Refill, MaxLines, GrantTTL, ConnectTTL} \subseteq Nat
  /\ {MaxSlots, PerPrincipal} \subseteq Nat \ {0}
  /\ IsFiniteSet(Reqs) /\ "none" \notin Reqs
  /\ InitialControl \in [active : BOOLEAN, members : [Subs -> Membership]]
  /\ \A a \in Allowlists :
       /\ DOMAIN a.members \subseteq Nat
       /\ \A k \in DOMAIN a.members : a.members[k].role \in Roles /\ a.members[k].scopes \in Seq(Scopes)
  /\ \A w \in Worlds :
       /\ {w.audit, w.clock, w.edits, w.starts, w.faults} \subseteq Nat
       /\ w.list \in Allowlists
       /\ w.envs \subseteq Envs
       /\ \A i \in w.inputs :
            /\ i.tok.sub \in Subs /\ i.lines \in Nat /\ i.calls \in 0 .. i.lines
            /\ DOMAIN i.tok.tenants \subseteq Nat
            /\ i.route \in Routes
            /\ i.route \notin {"layout", "byom"} => i.repo \in Repos

(***************************************************************************)
(* A world is chosen once, before the first start: the requests that       *)
(* clients send (inputs), the environments a start may find (envs), the    *)
(* allowlist file at installation (list), and                              *)
(* the bounds of the model, one per kind of event that could go on for     *)
(* ever: records the audit log has room for before appends fail (audit),   *)
(* clock ticks (clock), edits by the operator (edits), starts (starts),    *)
(* failing saves of control.json (faults), and whether clients ask for     *)
(* connect tokens (mints).                                                 *)
(***************************************************************************)
VARIABLES
  world,
  env,        \* environment of the running process (NoEnv when it is down)
  control,    \* the Control value in memory
  disk,       \* control.json
  allow,      \* the team allowlist file
  req,        \* one record per request slot
  audit,      \* the audit chain: its length, and how many records of each
              \* <<principal, event>> it holds
  acted,      \* operations carried out: how many of each <<principal, op>>
  touched,    \* history: <<principal, op, repo>> an operation has touched
  bucket,     \* ByomLimits.buckets
  inflight,   \* ByomLimits.inflight
  slots,      \* free permits of ByomLimits.slots
  waiting,    \* the semaphore's queue of waiters
  writeGate,  \* the request that holds AppState.write_gate
  anchors,    \* history: the external checkpoints stored, in order
  minted,     \* connect tokens POST /connect/token has handed out
  revoked,    \* history: principals the operator has removed from both files
  barred,     \* history: those removed before the running process started
  clock, spent, edits, starts, faults

limits == <<bucket, inflight, slots, waiting, spent>>
plane == <<world, env, control, disk, allow>>
operator == <<revoked, barred, edits, starts>>
vars == <<plane, req, audit, acted, touched, limits, writeGate, anchors, minted,
          clock, operator, faults>>

Ops == {"read", "write"}
Events == Ops \cup {"denied", "jit"}
NoEnv == [up |-> FALSE, oidc |-> FALSE, jwks |-> FALSE, dev |-> FALSE, ack |-> FALSE,
          seed |-> FALSE, connect |-> FALSE, jit |-> FALSE, owner |-> "none", since |-> 0]
NoMember == [role |-> "None", scopes |-> <<>>]
NoReq == "none"
NoTenants == {"no tenants claim"}

-----------------------------------------------------------------------------
(* Resources, memberships and grants.                                      *)

\* Resource ids: the wildcard, a bare tenant name as an operator writes it,
\* or the qualified form "repo:<tenant>/memory" the routes check.
RepoResource(t) == [form |-> "qualified", repo |-> t]
NormalizeResource(id) == IF id.form = "bare" THEN RepoResource(id.repo) ELSE id

\* A role's scopes: owners and admins hold the whole org, a read-only member
\* never writes whatever its scopes say.
ResourcesFor(m) ==
  IF m.role \in {"OrgOwner", "Admin"}
  THEN <<[res |-> Star, r |-> TRUE, w |-> TRUE]>>
  ELSE [i \in DOMAIN m.scopes |->
          [res |-> NormalizeResource(m.scopes[i].res),
           r   |-> m.scopes[i].r,
           w   |-> m.scopes[i].w /\ m.role = "Member"]]

MintGrant(s, m, now) ==
  [sub |-> s, scopes |-> ResourcesFor(m), exp |-> now + GrantTTL]

NoGrant == [sub |-> NoReq, scopes |-> <<>>, exp |-> 0]

ResourceMatches(scope, wanted) == scope = Star \/ scope = wanted

\* CapabilityGrant::check: the first scope that matches decides.
Check(g, res, op, now) ==
  LET hits == {i \in DOMAIN g.scopes : ResourceMatches(g.scopes[i].res, res)} IN
  /\ now < g.exp
  /\ hits # {}
  /\ LET s == g.scopes[Min(hits)] IN IF op = "read" THEN s.r ELSE s.w

\* attenuate_grant: a connect token narrows the membership grant to the tenants
\* it names, and to reading unless its scope names a capability that writes.
NamedTenants(g, tok, now) ==
  [i \in DOMAIN tok.tenants |->
     LET rid == RepoResource(tok.tenants[i]) IN
     [res |-> rid,
      r   |-> Check(g, rid, "read", now),
      w   |-> tok.write /\ Check(g, rid, "write", now)]]

Narrowed(scopes, tok) == [i \in DOMAIN scopes |-> [scopes[i] EXCEPT !.w = @ /\ tok.write]]

\* Mutant: the names in the token are taken for authority.
AttenuateGrantByName(g, tok, now) ==
  [g EXCEPT !.scopes =
     IF tok.named
     THEN [i \in DOMAIN tok.tenants |->
             [res |-> RepoResource(tok.tenants[i]), r |-> TRUE, w |-> tok.write]]
     ELSE Narrowed(g.scopes, tok)]

AttenuateGrant(g, tok, now) ==
  [g EXCEPT !.scopes =
     IF tok.named
     THEN NamedTenants(g, tok, now)
     ELSE Narrowed(g.scopes, tok)]

-----------------------------------------------------------------------------
(* Credentials and the team allowlist.                                     *)

\* authenticate_principal: with OIDC configured only a verified id_token
\* passes; the dev header counts only without OIDC.
Authenticates(tok) ==
  IF env.oidc THEN tok.kind = "oidc" /\ clock < tok.exp
              ELSE env.dev /\ tok.kind = "dev"

\* The BYOM endpoint tries the id_token first, then a connect token that is
\* bound to this org.
ByomOidc(tok) == env.oidc /\ tok.kind = "oidc" /\ clock < tok.exp
ByomConnect(tok) ==
  env.connect /\ tok.kind = "connect" /\ clock < tok.exp /\ tok.org

\* TeamAllowlist::match_identity: the first entry whose email equals the
\* verified email, or whose wallet equals the wallet, of the token.
Entry(list, tok) ==
  LET email == IF tok.verified THEN tok.email ELSE ""
      hits  == {i \in DOMAIN list :
                  \/ email # "" /\ list[i].email = email
                  \/ tok.wallet # "" /\ list[i].wallet = tok.wallet} IN
  IF hits = {} THEN NoMember
  ELSE [role |-> list[Min(hits)].role, scopes |-> list[Min(hits)].scopes]

\* load_or_empty: an absent or unparseable file is an empty list.
LoadAllowlist == IF env.jit /\ allow.parses THEN allow.members ELSE <<>>

-----------------------------------------------------------------------------
(* The audit chain, as the gateway uses it.                                *)

Room == audit.len < world.audit
Append1(s, ev) ==
  audit' = [len |-> audit.len + 1, of |-> [audit.of EXCEPT ![<<s, ev>>] = @ + 1]]
\* A record whose failure the code ignores (`let _ = audit_event(..)`).
BestEffort(s, ev) == IF Room THEN Append1(s, ev) ELSE UNCHANGED audit

-----------------------------------------------------------------------------
(* Requests.                                                               *)

\* A `_meta` grant of a JSON-RPC line, or none.
NoMeta == [present |-> FALSE, trusted |-> FALSE, sub |-> NoReq, scopes |-> <<>>, exp |-> 0]

Idle == [pc |-> "idle", in |-> NoReq, m |-> NoMember, grant |-> NoGrant, meta |-> NoMeta,
         left |-> 0, prev |-> 0, gone |-> FALSE]
At(r, pc) == req[r].pc = pc
SubOf(r) == req[r].in.tok.sub
Goto(r, pc) == req' = [req EXCEPT ![r].pc = pc]
Finish(r) == req' = [req EXCEPT ![r] = Idle]
Up == env.up
NoWork == UNCHANGED <<acted, touched, limits, writeGate, anchors>>
Surroundings == UNCHANGED <<minted, clock, operator, faults>>

\* gate_with_grant up to the membership lookup: one read of the control plane.
\* A request that is refused here changes nothing.
Gate(r, i) ==
  /\ Up /\ At(r, "idle")
  /\ i.route # "byom"
  /\ Authenticates(i.tok)
  /\ control.active
  /\ LET m == control.members[i.tok.sub] IN
     req' = [req EXCEPT ![r] = [Idle EXCEPT !.pc = IF m = NoMember THEN "jit" ELSE "authorize",
                                            !.in = i, !.m = m]]
  /\ UNCHANGED <<plane, audit>> /\ NoWork /\ Surroundings

\* byom up to the membership lookup.  The org's status is not consulted.
ByomGate(r, i) ==
  /\ Up /\ At(r, "idle")
  /\ i.route = "byom"
  /\ ByomOidc(i.tok) \/ ByomConnect(i.tok)
  /\ i.tok.sub = i.path
  /\ LET m == control.members[i.path] IN
     /\ m # NoMember \/ ByomOidc(i.tok)
     /\ req' = [req EXCEPT ![r] = [Idle EXCEPT !.pc = IF m = NoMember THEN "jit" ELSE "limits",
                                               !.in = i, !.m = m]]
  /\ UNCHANGED <<plane, audit>> /\ NoWork /\ Surroundings

\* Mutant: no second look under the write lock.
ProvisionUnchecked(s, m) == [control EXCEPT !.members[s] = m]

\* jit_provision under the control write lock: look again, add the membership,
\* save control.json, and refuse when the save fails.
Provision(s, m) == IF control.members[s] # NoMember THEN control
                   ELSE [control EXCEPT !.members[s] = m]

JitProvision(r) ==
  LET s == SubOf(r)
      m == Entry(LoadAllowlist, req[r].in.tok)
      http == req[r].in.route # "byom" IN
  /\ Up /\ At(r, "jit")
  /\ \/ \* not on the allowlist (the dev header carries no identity)
        /\ m = NoMember
        /\ Finish(r)
        /\ IF http THEN BestEffort(s, "denied") ELSE UNCHANGED audit
        /\ UNCHANGED <<control, disk, faults>>
     \/ \* provisioned, here or by a concurrent request
        /\ m # NoMember
        /\ control' = Provision(s, m)
        /\ disk' = IF control' = control THEN disk ELSE control'
        /\ req' = [req EXCEPT ![r].pc = IF http THEN "authorize" ELSE "limits",
                              ![r].m  = control'.members[s]]
        /\ IF http THEN BestEffort(s, "jit") ELSE UNCHANGED audit
        /\ UNCHANGED faults
     \/ \* the save fails: the caller is refused, the membership stays in memory
        /\ m # NoMember
        /\ control' = Provision(s, m)
        /\ control' # control
        /\ faults < world.faults /\ faults' = faults + 1
        /\ Finish(r)
        /\ IF http THEN BestEffort(s, "denied") ELSE UNCHANGED audit
        /\ UNCHANGED disk
  /\ UNCHANGED <<world, env, allow, minted, clock, operator>> /\ NoWork

\* What a route asks for: the overview and the operator routes ask for the
\* wildcard, the others for one repo.
Wanted(i) == IF i.route = "layout" THEN Star ELSE RepoResource(i.repo)
OpOf(i) == IF i.route \in {"assert", "checkpoint"} THEN "write" ELSE "read"

\* Mutant: an allowed operation goes on although it could not be audited.
DecideOpen(r, g, pc) ==
  LET op == OpOf(req[r].in) IN
  IF Check(g, Wanted(req[r].in), op, clock)
  THEN BestEffort(SubOf(r), op) /\ req' = [req EXCEPT ![r].pc = pc, ![r].grant = g]
  ELSE BestEffort(SubOf(r), "denied") /\ Finish(r)

\* The rest of gate_with_grant: mint a grant from the membership found, check
\* it, audit the decision; an allowed operation that cannot be audited stops.
Decide(r, g, pc) ==
  LET s == SubOf(r)
      op == OpOf(req[r].in) IN
  IF Check(g, Wanted(req[r].in), op, clock)
  THEN IF Room
       THEN Append1(s, op) /\ req' = [req EXCEPT ![r].pc = pc, ![r].grant = g]
       ELSE UNCHANGED audit /\ Finish(r)
  ELSE BestEffort(s, "denied") /\ Finish(r)

Authorize(r) ==
  /\ Up /\ At(r, "authorize")
  /\ Decide(r, MintGrant(SubOf(r), req[r].m, clock), "allowed")
  /\ UNCHANGED plane /\ NoWork /\ Surroundings

\* Recall::neighbors_readable: a node of any repo may lie next to the anchor;
\* those the caller must not read are dropped.
NeighborsReadable(readable) == {u \in Repos : readable[u]}

\* Mutant: neighbours of any repo are served.
ReadableNeighborsAll(g, t) == Repos

\* readable_neighbors: the anchor's own repo and every repo the grant reads.
ReadableNeighbors(g, t) ==
  NeighborsReadable([u \in Repos |-> u = t \/ Check(g, RepoResource(u), "read", clock)])

Acts(s, op, where) ==
  /\ acted' = [acted EXCEPT ![<<s, op>>] = @ + 1]
  /\ touched' = touched \cup {<<s, op, t>> : t \in where}

ReadRoutes == {"layout", "recall", "neighbors"}

\* The read handlers: the overview reads every repo; recall, search, review and
\* checkpoint_read read the repo; neighbors and verify also serve what lies
\* next to the anchor in other repos.
Serve(r) ==
  LET i == req[r].in
      where == CASE i.route = "layout"    -> Repos
                 [] i.route = "recall"    -> {i.repo}
                 [] i.route = "neighbors" -> ReadableNeighbors(req[r].grant, i.repo) IN
  /\ Up /\ At(r, "allowed") /\ i.route \in ReadRoutes
  /\ Acts(SubOf(r), "read", where)
  /\ Finish(r)
  /\ UNCHANGED <<plane, audit, limits, writeGate, anchors>> /\ Surroundings

\* assert: one put_node under the write gate.
Assert(r) ==
  /\ Up /\ At(r, "allowed") /\ req[r].in.route = "assert"
  /\ writeGate = NoReq
  /\ Acts(SubOf(r), "write", {req[r].in.repo})
  /\ Finish(r)
  /\ UNCHANGED <<plane, audit, limits, writeGate, anchors>> /\ Surroundings

-----------------------------------------------------------------------------
(* External checkpoints.  The write gate is held from before the RPC round *)
(* trips until the record is stored.                                       *)

\* Mutant: the write gate is not waited for.
TakeGateAlways(r) == writeGate' = r

TakeGate(r) == writeGate = NoReq /\ writeGate' = r

CheckpointStart(r) ==
  /\ Up /\ At(r, "allowed") /\ req[r].in.route = "checkpoint"
  /\ TakeGate(r)
  /\ Goto(r, "fetching")
  /\ UNCHANGED <<plane, audit, acted, touched, limits, anchors>> /\ Surroundings

\* Mutant: a failed fetch keeps the write gate.
CheckpointRefusedHolding(r) ==
  /\ Up /\ At(r, "fetching")
  /\ Finish(r)
  /\ UNCHANGED <<plane, audit, acted, touched, limits, anchors, writeGate>> /\ Surroundings

\* The head cannot be fetched, or is of another chain: nothing is recorded.
CheckpointRefused(r) ==
  /\ Up /\ At(r, "fetching")
  /\ writeGate' = NoReq
  /\ Finish(r)
  /\ UNCHANGED <<plane, audit, acted, touched, limits, anchors>> /\ Surroundings

\* The head is fetched and verified; the previous record is read.
Latest(t) == Max({0} \cup {k \in DOMAIN anchors : anchors[k].repo = t})
CheckpointBind(r) ==
  /\ Up /\ At(r, "fetching")
  /\ req' = [req EXCEPT ![r].pc = "binding", ![r].prev = Latest(req[r].in.repo)]
  /\ UNCHANGED <<plane, audit, writeGate, acted, touched, limits, anchors>> /\ Surroundings

CheckpointStore(r) ==
  LET t == req[r].in.repo IN
  /\ Up /\ At(r, "binding")
  /\ anchors' = Append(anchors, [repo |-> t, prev |-> req[r].prev])
  /\ Acts(SubOf(r), "write", {t})
  /\ writeGate' = NoReq
  /\ Finish(r)
  /\ UNCHANGED <<plane, audit, limits>> /\ Surroundings

-----------------------------------------------------------------------------
(* BYOM: the work bounds and the execution of the calls.                   *)

\* The bucket's tokens at this instant; a principal's first call finds it full.
Tokens(s) ==
  IF bucket[s].last < 0 THEN Burst
  ELSE Min({Burst, bucket[s].tokens + Refill * (clock - bucket[s].last)})

\* Mutant: the bucket keeps the time of its first call.
SpendForgetful(s, n) ==
  bucket' = [bucket EXCEPT ![s].tokens = Tokens(s) - n, ![s].last = Max({0, @})]

\* try_spend updates the bucket whether or not it can pay.
Spend(s, n) ==
  bucket' = [bucket EXCEPT ![s] = [tokens |-> Tokens(s) - n, last |-> clock]]
Refresh(s) == bucket' = [bucket EXCEPT ![s] = [tokens |-> Tokens(s), last |-> clock]]

GrantFor(r) ==
  LET i == req[r].in
      g == MintGrant(SubOf(r), req[r].m, clock) IN
  IF ByomOidc(i.tok) THEN g ELSE AttenuateGrant(g, i.tok, clock)

\* Mint the grant, cap the lines, spend for those that are tool calls (or that
\* nobody can parse; the others do nothing), claim one of the principal's places.
ByomLimits(r) ==
  LET s == SubOf(r)
      n == req[r].in.calls
      fits == req[r].in.lines <= MaxLines IN
  /\ Up /\ At(r, "limits")
  /\ \/ ~fits /\ Finish(r) /\ UNCHANGED limits
     \/ fits /\ Tokens(s) < n
        /\ Refresh(s) /\ Finish(r) /\ UNCHANGED <<inflight, slots, waiting, spent>>
     \/ fits /\ Tokens(s) >= n
        /\ Spend(s, n)
        /\ spent' = [spent EXCEPT ![s] = @ + n]
        /\ UNCHANGED slots
        /\ \/ inflight[s] >= PerPrincipal /\ Finish(r) /\ UNCHANGED <<inflight, waiting>>
           \/ inflight[s] < PerPrincipal
              /\ inflight' = [inflight EXCEPT ![s] = @ + 1]
              /\ waiting' = Append(waiting, r)
              /\ req' = [req EXCEPT ![r].pc = "queued", ![r].grant = GrantFor(r), ![r].left = n]
  /\ UNCHANGED <<plane, audit, acted, touched, writeGate, anchors>> /\ Surroundings

\* acquire_owned: the semaphore hands its permits out in order of arrival.
ByomStart(r) ==
  /\ Up /\ At(r, "queued")
  /\ slots > 0 /\ Head(waiting) = r
  /\ slots' = slots - 1
  /\ waiting' = Tail(waiting)
  /\ Goto(r, "running")
  /\ UNCHANGED <<plane, audit, acted, touched, bucket, inflight, spent, writeGate, anchors>>
  /\ Surroundings

\* handle_line: a `_meta` grant must come from the same issuer for the same
\* principal, and only narrows.
MetaOk(r, mg) == ~mg.present \/ (mg.trusted /\ mg.sub = SubOf(r))
MetaAllows(mg, t, op) == ~mg.present \/ Check(mg, RepoResource(t), op, clock)

\* Mutant: the request's own attenuation is forgotten.
CanReadSession(r, mg, u) == Check(req[r].grant, RepoResource(u), "read", clock)

\* can_read: the filter inside a call, without a record of its own.
CanRead(r, mg, u) ==
  Check(req[r].grant, RepoResource(u), "read", clock) /\ MetaAllows(mg, u, "read")

\* memory.recall, search and as_of stay in the repo they were authorized for;
\* neighbors, verify, critique and analogy also show what other repos the
\* caller reads hold next to it.
CallRecall(r, t, mg) == {t}
CallNeighbors(r, t, mg) == NeighborsReadable([u \in Repos |-> u = t \/ CanRead(r, mg, u)])

Tools == {"recall", "neighbors", "write"}
ToolOp(tool) == IF tool = "write" THEN "write" ELSE "read"

\* authorize and the tool for one tools/call.
ByomCall(r, tool, t, mg) ==
  LET s == SubOf(r)
      op == ToolOp(tool)
      where == IF tool = "neighbors" THEN CallNeighbors(r, t, mg) ELSE CallRecall(r, t, mg)
      allowed == Check(req[r].grant, RepoResource(t), op, clock) /\ MetaAllows(mg, t, op) IN
  /\ Up /\ At(r, "running") /\ req[r].left > 0
  /\ req' = [req EXCEPT ![r].left = @ - 1, ![r].meta = IF MetaOk(r, mg) THEN mg ELSE NoMeta]
  /\ \/ ~MetaOk(r, mg) /\ UNCHANGED <<audit, acted, touched>>
     \/ MetaOk(r, mg) /\ ~allowed /\ BestEffort(s, "denied") /\ UNCHANGED <<acted, touched>>
     \/ MetaOk(r, mg) /\ allowed /\ ~Room /\ UNCHANGED <<audit, acted, touched>>
     \/ MetaOk(r, mg) /\ allowed /\ Room
        /\ (op = "write" => writeGate = NoReq)
        /\ Append1(s, op) /\ Acts(s, op, where)
  /\ UNCHANGED <<plane, limits, writeGate, anchors>> /\ Surroundings

\* The blocking task ends: permit and place are dropped with it, whether or not
\* the client is still there.
ByomFinish(r) ==
  /\ Up /\ At(r, "running") /\ req[r].left = 0
  /\ slots' = slots + 1
  /\ inflight' = [inflight EXCEPT ![SubOf(r)] = @ - 1]
  /\ Finish(r)
  /\ UNCHANGED <<plane, audit, acted, touched, bucket, waiting, spent, writeGate, anchors>>
  /\ Surroundings

\* The queue without its k-th waiter.
Without(k) == SubSeq(waiting, 1, k - 1) \o SubSeq(waiting, k + 1, Len(waiting))

\* Mutant: a client that leaves the queue keeps its place.
LeaveQueueHolding(r) ==
  /\ \E k \in DOMAIN waiting : waiting[k] = r /\ waiting' = Without(k)
  /\ UNCHANGED inflight

\* The client hangs up and the handler's future is dropped: a request still
\* waiting for a permit gives its place back, a running task runs on.
LeaveQueue(r) ==
  /\ \E k \in DOMAIN waiting : waiting[k] = r /\ waiting' = Without(k)
  /\ inflight' = [inflight EXCEPT ![SubOf(r)] = @ - 1]

\* Mutant: the handler, not the task, owns the place.
ClientLeavesReleasing(r) ==
  /\ Up
  /\ \/ At(r, "queued") /\ LeaveQueue(r) /\ Finish(r)
     \/ At(r, "running") /\ ~req[r].gone
        /\ req' = [req EXCEPT ![r].gone = TRUE] /\ UNCHANGED waiting
        /\ inflight' = [inflight EXCEPT ![SubOf(r)] = @ - 1]
  /\ UNCHANGED <<plane, audit, acted, touched, bucket, slots, spent, writeGate, anchors>>
  /\ Surroundings

ClientLeaves(r) ==
  /\ Up
  /\ \/ At(r, "queued") /\ LeaveQueue(r) /\ Finish(r)
     \/ At(r, "running") /\ ~req[r].gone
        /\ req' = [req EXCEPT ![r].gone = TRUE] /\ UNCHANGED <<waiting, inflight>>
  /\ UNCHANGED <<plane, audit, acted, touched, bucket, slots, spent, writeGate, anchors>>
  /\ Surroundings

MintConnectToken(s, now) ==
  [kind |-> "connect", sub |-> s, org |-> TRUE, write |-> FALSE, named |-> FALSE, tenants |-> <<>>,
   exp |-> now + ConnectTTL, email |-> "", verified |-> FALSE, wallet |-> ""]

\* POST /connect/token: a read-only token without a tenants claim.
ConnectToken(tok) ==
  /\ world.mints
  /\ Up /\ Authenticates(tok) /\ env.connect
  /\ minted' = minted \cup {MintConnectToken(tok.sub, clock)}
  /\ UNCHANGED <<plane, req, audit, clock, operator, faults>> /\ NoWork

-----------------------------------------------------------------------------
(* The process and the operator.                                           *)

\* main: the start is refused without a signing seed, with OIDC but no key set,
\* and with an unacknowledged dev header.  control.json is read here and never
\* again; --bootstrap-owner raises one principal to OrgOwner, keeping its scopes.
StartAllowed(e) == e.seed /\ (e.oidc => e.jwks) /\ (~e.oidc /\ e.dev => e.ack)
Bootstrapped(c, s) == IF s = "none" THEN c ELSE [c EXCEPT !.members[s].role = "OrgOwner"]
Start(e) ==
  /\ ~Up /\ starts < world.starts
  /\ StartAllowed(e)
  /\ env' = [e EXCEPT !.since = clock]
  /\ control' = Bootstrapped(disk, e.owner)
  /\ disk' = control'
  /\ barred' = revoked \ {e.owner}
  /\ starts' = starts + 1
  /\ UNCHANGED <<world, allow, req, audit, minted, clock, revoked, edits, faults>> /\ NoWork

\* The process dies: requests, buckets, places and permits go with it.
NoLimits == /\ bucket' = [s \in Subs |-> [tokens |-> Burst, last |-> -1]]
            /\ inflight' = [s \in Subs |-> 0]
            /\ slots' = MaxSlots /\ waiting' = <<>>
            /\ spent' = [s \in Subs |-> 0]
Crash ==
  /\ Up
  /\ env' = NoEnv /\ control' = InitialControl
  /\ req' = [r \in Reqs |-> Idle]
  /\ writeGate' = NoReq
  /\ NoLimits
  /\ UNCHANGED <<world, disk, allow, audit, acted, touched, anchors>> /\ Surroundings

\* The operator edits control.json and the allowlist by hand, as docs/TEAM_ACCESS.md
\* describes; no process is told.
Listed(s, a) == \E i \in world.inputs : i.tok.sub = s /\ Entry(a.members, i.tok) # NoMember
Edit == edits < world.edits /\ edits' = edits + 1
Untold == UNCHANGED <<world, env, control, req, audit, minted, clock, barred, starts, faults>> /\ NoWork
OperatorRevokes(s) ==
  /\ Edit
  /\ disk.members[s] # NoMember
  /\ disk' = [disk EXCEPT !.members[s] = NoMember]
  /\ allow' \in {a \in Allowlists : ~Listed(s, a)}
  /\ revoked' = revoked \cup {s}
  /\ Untold
OperatorAllows(a) ==
  /\ Edit
  /\ a # allow /\ allow' = a
  /\ revoked' = {s \in revoked : ~Listed(s, a)}
  /\ UNCHANGED disk /\ Untold
OperatorSuspends ==
  /\ Edit
  /\ disk.active /\ disk' = [disk EXCEPT !.active = FALSE]
  /\ UNCHANGED <<allow, revoked>> /\ Untold

Tick ==
  /\ clock < world.clock /\ clock' = clock + 1
  /\ UNCHANGED <<plane, req, audit, minted, operator, faults>> /\ NoWork

-----------------------------------------------------------------------------
GatewayInit ==
  /\ world \in Worlds
  /\ env = NoEnv
  /\ control = InitialControl /\ disk = InitialControl
  /\ allow = world.list
  /\ req = [r \in Reqs |-> Idle]
  /\ audit = [len |-> 0, of |-> [k \in Subs \X Events |-> 0]]
  /\ acted = [k \in Subs \X Ops |-> 0]
  /\ touched = {} /\ anchors = <<>> /\ minted = {}
  /\ bucket = [s \in Subs |-> [tokens |-> Burst, last |-> -1]]
  /\ inflight = [s \in Subs |-> 0]
  /\ slots = MaxSlots /\ waiting = <<>>
  /\ spent = [s \in Subs |-> 0]
  /\ writeGate = NoReq
  /\ revoked = {} /\ barred = {}
  /\ clock = 0 /\ edits = 0 /\ starts = 0 /\ faults = 0

\* A request that uses a connect token the gateway itself has minted.
MintedInputs == {[route |-> "byom", repo |-> "*", tok |-> m, path |-> m.sub, lines |-> 1, calls |-> 1] :
                   m \in minted}

Arrive(r) == \/ \E i \in world.inputs : Gate(r, i)
             \/ \E i \in world.inputs \cup MintedInputs : ByomGate(r, i)
Step(r) == \/ JitProvision(r) \/ Authorize(r) \/ Serve(r) \/ Assert(r)
           \/ CheckpointStart(r) \/ CheckpointRefused(r) \/ CheckpointBind(r) \/ CheckpointStore(r)
           \/ ByomLimits(r) \/ ByomStart(r) \/ ByomFinish(r)
           \/ \E tool \in Tools, t \in Repos, mg \in MetaGrants \cup {NoMeta} : ByomCall(r, tool, t, mg)
Operator == \/ \E e \in world.envs : Start(e)
            \/ \E s \in Subs : OperatorRevokes(s)
            \/ \E a \in Allowlists : OperatorAllows(a)
            \/ OperatorSuspends
GatewayNext ==
  \/ \E r \in Reqs : Arrive(r) \/ Step(r) \/ ClientLeaves(r)
  \/ \E i \in world.inputs : ConnectToken(i.tok)
  \/ Operator \/ Crash \/ Tick

\* A handler that has been entered keeps running: the runtime and the blocking
\* pool schedule it, an RPC answers or times out.  Arrivals, clients hanging up,
\* the operator, crashes and the clock owe nothing.
GatewayFairness == \A r \in Reqs : WF_vars(Step(r))
GatewaySpec == GatewayInit /\ [][GatewayNext]_vars /\ GatewayFairness

-----------------------------------------------------------------------------
(* Properties.                                                             *)

Pcs == {"idle", "jit", "authorize", "allowed", "fetching", "binding", "limits", "queued", "running"}

\* Type invariant: every part of the state has its type, counters stay in range,
\* and only requests of a live process are in progress.
GatewayTypeOK ==
  /\ env = NoEnv \/ [env EXCEPT !.since = 0] \in world.envs
  /\ \A c \in {control, disk} :
       /\ c.active \in BOOLEAN
       /\ \A s \in Subs : c.members[s].role \in Roles
  /\ allow \in Allowlists
  /\ \A r \in Reqs :
       /\ req[r].pc \in Pcs
       /\ req[r].pc # "idle" => Up /\ req[r].in.tok.sub \in Subs
       /\ req[r].left \in 0 .. MaxLines
  /\ audit \in [len : 0 .. world.audit, of : [Subs \X Events -> 0 .. world.audit]]
  /\ acted \in [Subs \X Ops -> 0 .. world.audit]
  /\ touched \subseteq Subs \X Ops \X Repos
  /\ \A s \in Subs : bucket[s].tokens \in 0 .. Burst /\ bucket[s].last \in -1 .. clock
  /\ inflight \in [Subs -> 0 .. PerPrincipal]
  /\ slots \in 0 .. MaxSlots
  /\ writeGate \in Reqs \cup {NoReq}

\* What a membership lets its holder do on a repo, read off the role table of
\* the documentation rather than off the grant.
MemberMay(m, op, t) ==
  \/ m.role \in {"OrgOwner", "Admin"}
  \/ \E i \in DOMAIN m.scopes :
       /\ m.scopes[i].res = Star \/ m.scopes[i].res.repo = t
       /\ IF op = "read" THEN m.scopes[i].r ELSE m.scopes[i].w /\ m.role = "Member"
TokenMay(tok, op, t) ==
  /\ op = "write" => tok.write
  /\ tok.named => \E i \in DOMAIN tok.tenants : tok.tenants[i] = t

\* The authority a BYOM request carries while it waits and runs is never wider
\* than its membership, nor, with a connect token, than the token's claims
\* (attenuate_grant: "never wider than either").
AuthorityIntersects ==
  \A r \in Reqs, op \in Ops, t \in Repos :
    /\ req[r].pc \in {"queued", "running"}
    /\ Check(req[r].grant, RepoResource(t), op, clock)
    => /\ MemberMay(req[r].m, op, t)
       /\ req[r].in.tok.kind = "connect" => TokenMay(req[r].in.tok, op, t)

Pending(s, op) ==
  Cardinality({r \in Reqs : /\ req[r].pc \in {"allowed", "fetching", "binding"}
                            /\ SubOf(r) = s /\ OpOf(req[r].in) = op})

\* No operation is carried out, and none is about to be, for which the audit
\* chain holds no record of its own; not even when the log is full.
ActedIsAudited == \A s \in Subs, op \in Ops : acted[s, op] + Pending(s, op) <= audit.of[s, op]

\* Permits and per-principal places are conserved: whoever hangs up or finishes,
\* every place is held by exactly one waiting or running request.
SlotsConserved ==
  LET holding(pcs, s) == Cardinality({r \in Reqs : req[r].pc \in pcs /\ SubOf(r) = s}) IN
  Up => /\ slots + Cardinality({r \in Reqs : At(r, "running")}) = MaxSlots
        /\ \A s \in Subs : inflight[s] = holding({"queued", "running"}, s)
        /\ {waiting[k] : k \in DOMAIN waiting} = {r \in Reqs : At(r, "queued")}

\* However a principal spaces its calls, what it has spent since the process
\* started is at most the burst plus the refill of the time that has passed.
SpendBounded == \A s \in Subs : Up => spent[s] <= Burst + Refill * (clock - env.since)

\* The external checkpoints of a repo form one chain: each names the one stored
\* before it, although the head is fetched between the decision and the write.
CheckpointsChain ==
  \A k \in DOMAIN anchors :
    anchors[k].prev = Max({0} \cup {j \in 1 .. k - 1 : anchors[j].repo = anchors[k].repo})

\* An operation only ever touches repos that the principal's membership lets it
\* touch, cross-repo neighbours that a read serves included; and a JSON-RPC call
\* that carries its own grant sees nothing outside of it, not even a neighbour in
\* a repo that the session itself may read (can_read, readable_neighbors).
TouchesWithinAuthority ==
  [][/\ \A x \in touched' \ touched : MemberMay(control.members[x[1]], x[2], x[3])
     /\ \A r \in Reqs : At(r, "running") /\ req'[r].left < req[r].left =>
          \A x \in touched' \ touched : MetaAllows(req'[r].meta, x[3], x[2])]_vars

\* While a process runs, provisioning only adds members: two first requests of
\* one principal that race with an edit of the allowlist leave one membership.
ProvisionOnlyAdds ==
  [][\A s \in Subs : Up /\ env'.up /\ control.members[s] # NoMember
                     => control'.members[s] = control.members[s]]_vars

\* Every request that is admitted ends: none waits for ever for a permit, a
\* place or the write gate, whatever the other clients and the RPC do.
RequestsFinish == \A r \in Reqs : ~At(r, "idle") ~> At(r, "idle")

\* "To revoke or change someone already provisioned, edit `control.json`":
\* a principal removed from both files before the process started does nothing.
RevocationHolds ==
  [][\A s \in barred, op \in Ops : acted'[s, op] = acted[s, op]]_vars

\* What holds of the gateway's bookkeeping whatever clients, the clock and the
\* chain RPC do: types, conserved permits and places, bounded spending, and one
\* chain of external checkpoints per repo.
GatewayInv == GatewayTypeOK /\ SlotsConserved /\ SpendBounded /\ CheckpointsChain
=============================================================================
