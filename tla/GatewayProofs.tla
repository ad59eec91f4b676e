--------------------------- MODULE GatewayProofs ---------------------------
(***************************************************************************)
(* Proofs about the gateway, for any principals, repos, requests, files    *)
(* and bounds.  The authority a grant carries comes first, then what each  *)
(* step does to its request, then one inductive invariant per concern:     *)
(* memberships, grants, the audit chain, places and permits, spending, and *)
(* the write gate with the external checkpoints.                           *)
(***************************************************************************)
EXTENDS Gateway, SequenceTheorems, FiniteSetTheorems, WellFoundedInduction, TLAPS

-----------------------------------------------------------------------------
(* Grants.                                                                 *)

(* A set of numbers that is not empty has a least one.                     *)
LEMMA MinIn ==
    ASSUME NEW S \in SUBSET Nat, S # {}
    PROVE  Min(S) \in S /\ \A y \in S : Min(S) <= y
  <1> DEFINE R == OpToRel(<, Nat)
  <1>1. IsWellFoundedOn(R, Nat)
    BY NatLessThanWellFounded
  <1>2. \A x, y \in Nat : x < y => <<x, y>> \in R
    BY DEF OpToRel
  <1> HIDE DEF R
  <1>3. PICK x \in S : \A y \in S : ~(<<y, x>> \in R)
    BY <1>1, WFMin
  <1>4. \A y \in S : ~(y < x)
    BY <1>2, <1>3
  <1>5. \A y \in S : x <= y
    BY <1>4
  <1>. QED
    BY <1>5 DEF Min

(* A grant that allows an operation has a scope that does.                 *)
LEMMA CheckSome ==
    ASSUME NEW g, NEW res, NEW op, NEW now, DOMAIN g.scopes \subseteq Nat, Check(g, res, op, now)
    PROVE  \E i \in DOMAIN g.scopes :
              /\ ResourceMatches(g.scopes[i].res, res)
              /\ IF op = "read" THEN g.scopes[i].r ELSE g.scopes[i].w
  <1> DEFINE hits == {i \in DOMAIN g.scopes : ResourceMatches(g.scopes[i].res, res)}
  <1>1. hits # {} /\ IF op = "read" THEN g.scopes[Min(hits)].r ELSE g.scopes[Min(hits)].w
    BY DEF Check
  <1>2. Min(hits) \in hits
    BY <1>1, MinIn
  <1>. QED
    BY <1>1, <1>2

(* Normalizing keeps the repo a resource names, and makes nothing a        *)
(* wildcard.                                                               *)
LEMMA NormalizeFacts ==
    ASSUME NEW id \in Resources
    PROVE  /\ NormalizeResource(id) = Star => id = Star
           /\ \A t : NormalizeResource(id) = RepoResource(t) => id.repo = t
  BY DEF NormalizeResource, RepoResource, Resources, Star

(* The scopes a membership is given.                                       *)
LEMMA ResourcesForFacts ==
    ASSUME NEW m \in Membership
    PROVE  /\ DOMAIN ResourcesFor(m) \subseteq Nat
           /\ m.role \in {"OrgOwner", "Admin"} \/
              \A i \in DOMAIN ResourcesFor(m) :
                 /\ i \in DOMAIN m.scopes /\ m.scopes[i].res \in Resources
                 /\ ResourcesFor(m)[i].res = NormalizeResource(m.scopes[i].res)
                 /\ ResourcesFor(m)[i].r = m.scopes[i].r
                 /\ ResourcesFor(m)[i].w = (m.scopes[i].w /\ m.role = "Member")
  <1>1. m.scopes \in Seq(Scopes)
    BY DEF Membership
  <1>2. DOMAIN m.scopes = 1 .. Len(m.scopes) /\ \A i \in DOMAIN m.scopes : m.scopes[i] \in Scopes
    BY <1>1
  <1>3. CASE m.role \in {"OrgOwner", "Admin"}
    <2>1. DOMAIN ResourcesFor(m) = {1}
      BY <1>3 DEF ResourcesFor
    <2>. QED
      BY <1>3, <2>1
  <1>4. CASE m.role \notin {"OrgOwner", "Admin"}
    <2>1. ResourcesFor(m) = [i \in DOMAIN m.scopes |->
                               [res |-> NormalizeResource(m.scopes[i].res),
                                r   |-> m.scopes[i].r,
                                w   |-> m.scopes[i].w /\ m.role = "Member"]]
      BY <1>4 DEF ResourcesFor
    <2>. QED
      BY <1>2, <2>1 DEF Scopes
  <1>. QED
    BY <1>3, <1>4

(* mint_grant: what a membership's grant allows, the membership allows.    *)
LEMMA MintWithin ==
    ASSUME NEW s, NEW m \in Membership, NEW from, NEW op \in Ops, NEW t \in Repos, NEW now,
           Check(MintGrant(s, m, from), RepoResource(t), op, now)
    PROVE  MemberMay(m, op, t)
  <1> DEFINE g == MintGrant(s, m, from)
  <1>1. g.scopes = ResourcesFor(m)
    BY DEF MintGrant
  <1> HIDE DEF g
  <1>2. PICK i \in DOMAIN ResourcesFor(m) :
              /\ ResourceMatches(ResourcesFor(m)[i].res, RepoResource(t))
              /\ IF op = "read" THEN ResourcesFor(m)[i].r ELSE ResourcesFor(m)[i].w
    <2>1. Check(g, RepoResource(t), op, now) /\ DOMAIN g.scopes \subseteq Nat
      BY <1>1, ResourcesForFacts DEF g
    <2>. QED
      BY <1>1, <2>1, CheckSome
  <1>3. CASE m.role \in {"OrgOwner", "Admin"}
    BY <1>3 DEF MemberMay
  <1>4. CASE m.role \notin {"OrgOwner", "Admin"}
    <2>1. /\ i \in DOMAIN m.scopes /\ m.scopes[i].res \in Resources
          /\ ResourcesFor(m)[i].res = NormalizeResource(m.scopes[i].res)
          /\ ResourcesFor(m)[i].r = m.scopes[i].r
          /\ ResourcesFor(m)[i].w = (m.scopes[i].w /\ m.role = "Member")
      BY <1>4, ResourcesForFacts
    <2>2. m.scopes[i].res = Star \/ m.scopes[i].res.repo = t
      BY <1>2, <2>1, NormalizeFacts DEF ResourceMatches
    <2>3. IF op = "read" THEN m.scopes[i].r ELSE m.scopes[i].w /\ m.role = "Member"
      BY <1>2, <2>1
    <2>. QED
      BY <2>1, <2>2, <2>3 DEF MemberMay
  <1>. QED
    BY <1>3, <1>4

(* A grant that allows an operation on the wildcard allows it everywhere.  *)
LEMMA MintWithinStar ==
    ASSUME NEW s, NEW m \in Membership, NEW from, NEW op \in Ops, NEW t \in Repos, NEW now,
           Check(MintGrant(s, m, from), Star, op, now)
    PROVE  MemberMay(m, op, t)
  <1> DEFINE g == MintGrant(s, m, from)
  <1>1. g.scopes = ResourcesFor(m)
    BY DEF MintGrant
  <1> HIDE DEF g
  <1>2. PICK i \in DOMAIN ResourcesFor(m) :
              /\ ResourceMatches(ResourcesFor(m)[i].res, Star)
              /\ IF op = "read" THEN ResourcesFor(m)[i].r ELSE ResourcesFor(m)[i].w
    <2>1. Check(g, Star, op, now) /\ DOMAIN g.scopes \subseteq Nat
      BY <1>1, ResourcesForFacts DEF g
    <2>. QED
      BY <1>1, <2>1, CheckSome
  <1>3. CASE m.role \in {"OrgOwner", "Admin"}
    BY <1>3 DEF MemberMay
  <1>4. CASE m.role \notin {"OrgOwner", "Admin"}
    <2>1. /\ i \in DOMAIN m.scopes /\ m.scopes[i].res \in Resources
          /\ ResourcesFor(m)[i].res = NormalizeResource(m.scopes[i].res)
          /\ ResourcesFor(m)[i].r = m.scopes[i].r
          /\ ResourcesFor(m)[i].w = (m.scopes[i].w /\ m.role = "Member")
      BY <1>4, ResourcesForFacts
    <2>2. m.scopes[i].res = Star
      BY <1>2, <2>1, NormalizeFacts DEF ResourceMatches
    <2>3. IF op = "read" THEN m.scopes[i].r ELSE m.scopes[i].w /\ m.role = "Member"
      BY <1>2, <2>1
    <2>. QED
      BY <2>1, <2>2, <2>3 DEF MemberMay
  <1>. QED
    BY <1>3, <1>4

(* attenuate_grant: never wider than the membership nor than the token.    *)
LEMMA AttenuatedWithin ==
    ASSUME NEW s, NEW m \in Membership, NEW from, NEW op \in Ops, NEW t \in Repos, NEW now,
           NEW tok, DOMAIN tok.tenants \subseteq Nat, NEW at,
           Check(AttenuateGrant(MintGrant(s, m, from), tok, at), RepoResource(t), op, now)
    PROVE  MemberMay(m, op, t) /\ TokenMay(tok, op, t)
  <1> DEFINE g == MintGrant(s, m, from)
             a == AttenuateGrant(g, tok, at)
             narrowed == Narrowed(g.scopes, tok)
  <1>1. g.scopes = ResourcesFor(m) /\ DOMAIN g.scopes \subseteq Nat
    BY ResourcesForFacts DEF MintGrant
  <1>2. a.exp = g.exp /\ a.scopes = IF tok.named THEN NamedTenants(g, tok, at) ELSE narrowed
    <2>1. DOMAIN g = {"sub", "scopes", "exp"}
      BY DEF MintGrant
    <2> HIDE DEF g
    <2>2. a = [g EXCEPT !.scopes = IF tok.named THEN NamedTenants(g, tok, at) ELSE narrowed]
      BY DEF AttenuateGrant
    <2> HIDE DEF a, narrowed
    <2>. QED
      BY <2>1, <2>2
  <1>3. Check(a, RepoResource(t), op, now)
    OBVIOUS
  <1>4. \A u : RepoResource(u) # Star
    BY DEF RepoResource, Star
  <1>5. ASSUME NEW u \in Repos, NEW x, Check(g, RepoResource(u), op, x) PROVE MemberMay(m, op, u)
    BY <1>5, MintWithin
  <1> HIDE DEF g, a
  <1>6. CASE tok.named
    <2>1. a.scopes = NamedTenants(g, tok, at)
      BY <1>2, <1>6
    <2>2. /\ DOMAIN a.scopes = DOMAIN tok.tenants
          /\ \A i \in DOMAIN tok.tenants :
                /\ a.scopes[i].res = RepoResource(tok.tenants[i])
                /\ a.scopes[i].r = Check(g, RepoResource(tok.tenants[i]), "read", at)
                /\ a.scopes[i].w = (tok.write /\ Check(g, RepoResource(tok.tenants[i]), "write", at))
      BY <2>1 DEF NamedTenants
    <2>3. PICK i \in DOMAIN tok.tenants :
             /\ ResourceMatches(RepoResource(tok.tenants[i]), RepoResource(t))
             /\ IF op = "read" THEN a.scopes[i].r ELSE a.scopes[i].w
      BY <1>3, <2>2, CheckSome
    <2>4. tok.tenants[i] = t
      BY <1>4, <2>3 DEF ResourceMatches, RepoResource
    <2>5. Check(g, RepoResource(t), op, at) /\ (op = "write" => tok.write)
      BY <2>2, <2>3, <2>4 DEF Ops
    <2>. QED
      BY <1>5, <2>4, <2>5 DEF TokenMay
  <1>7. CASE ~tok.named
    <2>1. a.scopes = narrowed
      BY <1>2, <1>7
    <2>2. \A i \in DOMAIN g.scopes : DOMAIN g.scopes[i] = {"res", "r", "w"}
      BY <1>1 DEF ResourcesFor
    <2>3. /\ DOMAIN a.scopes = DOMAIN g.scopes
          /\ \A i \in DOMAIN g.scopes :
                /\ a.scopes[i].res = g.scopes[i].res /\ a.scopes[i].r = g.scopes[i].r
                /\ a.scopes[i].w = (g.scopes[i].w /\ tok.write)
      BY <2>1, <2>2 DEF Narrowed
    <2> DEFINE hits == {i \in DOMAIN g.scopes : ResourceMatches(g.scopes[i].res, RepoResource(t))}
    <2>4. hits = {i \in DOMAIN a.scopes : ResourceMatches(a.scopes[i].res, RepoResource(t))}
      BY <2>3
    <2> HIDE DEF hits
    <2>5. /\ now < a.exp /\ hits # {}
          /\ IF op = "read" THEN a.scopes[Min(hits)].r ELSE a.scopes[Min(hits)].w
      BY <1>3, <2>4 DEF Check
    <2>6. Min(hits) \in DOMAIN g.scopes
      BY <1>1, <2>5, MinIn DEF hits
    <2>7. Check(g, RepoResource(t), op, now) /\ (op = "write" => tok.write)
      BY <1>2, <2>3, <2>5, <2>6 DEF Check, hits, Ops
    <2>. QED
      BY <1>5, <1>7, <2>7 DEF TokenMay
  <1>. QED
    BY <1>6, <1>7

-----------------------------------------------------------------------------
(* The inductive invariant.                                                *)

Controls == [active : BOOLEAN, members : [Subs -> Membership]]

RunEnvs == [up : {TRUE}, oidc : BOOLEAN, jwks : BOOLEAN, dev : BOOLEAN, ack : BOOLEAN, seed : BOOLEAN,
            connect : BOOLEAN, jit : BOOLEAN, owner : Subs \cup {"none"}, since : Nat]

(* The process, its files and the tokens it has handed out.                *)
EnvInv ==
    /\ world \in Worlds /\ clock \in Nat
    /\ \/ env = NoEnv
       \/ env \in RunEnvs /\ [env EXCEPT !.since = 0] \in world.envs /\ env.since <= clock
    /\ control \in Controls /\ disk \in Controls
    /\ allow \in Allowlists
    /\ \A t \in minted : t.sub \in Subs /\ t.tenants = <<>>

InputOK(i) ==
    /\ i.tok.sub \in Subs /\ i.lines \in Nat /\ i.calls \in 0 .. i.lines /\ DOMAIN i.tok.tenants \subseteq Nat
    /\ i.route \in Routes
    /\ i.route \notin {"layout", "byom"} => i.repo \in Repos

Fields == {"pc", "in", "m", "grant", "meta", "left", "prev", "gone"}
IsReq(x) == x = [f \in Fields |-> x[f]]

Byom == {"queued", "running"}
Gated == {"fetching", "binding"}
Http == {"allowed"} \cup Gated
Admitted == {"authorize", "limits"} \cup Http \cup Byom

(* The authority of a request's grant, at whatever time it is checked.     *)
ByomWithin(x) ==
    \A op \in Ops, t \in Repos, now \in Nat : Check(x.grant, RepoResource(t), op, now) =>
        /\ MemberMay(x.m, op, t)
        /\ x.in.tok.kind = "connect" => TokenMay(x.in.tok, op, t)
HttpWithin(x) ==
    /\ \A t \in Repos, now \in Nat :
          Check(x.grant, RepoResource(t), "read", now) => MemberMay(x.m, "read", t)
    /\ x.in.route = "layout" => \A t \in Repos : MemberMay(x.m, "read", t)
    /\ x.in.route # "layout" => MemberMay(x.m, OpOf(x.in), x.in.repo)

(* A request in progress is of a known route, and its grant is never wider *)
(* than the membership it was minted from.                                 *)
ReqOK(x) ==
    /\ IsReq(x)
    /\ x.pc \in Pcs /\ x.m \in Membership /\ x.left \in 0 .. MaxLines
    /\ x.pc # "idle" => InputOK(x.in)
    /\ x.pc \in {"authorize"} \cup Http => x.in.route # "byom"
    /\ x.pc \in Gated => x.in.route = "checkpoint"
    /\ x.pc \in Byom => ByomWithin(x)
    /\ x.pc \in Http => HttpWithin(x)

(* A request that was admitted carries the membership the control plane    *)
(* has for its principal: while the process lives it is never taken away.  *)
ReqInv ==
    /\ req = [r \in Reqs |-> req[r]]
    /\ \A r \in Reqs :
          /\ ReqOK(req[r])
          /\ req[r].pc # "idle" => Up
          /\ req[r].pc \in Admitted =>
                req[r].m = control.members[req[r].in.tok.sub] /\ req[r].m # NoMember

(* The audit chain holds at most its length of any kind of record.         *)
ChainInv ==
    /\ audit.len \in Nat /\ audit.len <= world.audit
    /\ audit = [len |-> audit.len, of |-> audit.of]
    /\ audit.of \in [Subs \X Events -> Nat]
    /\ \A k \in Subs \X Events : audit.of[k] <= audit.len
    /\ acted \in [Subs \X Ops -> Nat]
    /\ touched \subseteq Subs \X Ops \X Repos
    /\ ActedIsAudited

Running == {r \in Reqs : req[r].pc = "running"}
Queued == {r \in Reqs : req[r].pc = "queued"}
Holding(s) == {r \in Reqs : req[r].pc \in Byom /\ req[r].in.tok.sub = s}

(* Permits and places, and a queue without duplicates.                     *)
SlotInv ==
    /\ slots \in Nat /\ slots + Cardinality(Running) = MaxSlots
    /\ inflight \in [Subs -> 0 .. PerPrincipal]
    /\ \A s \in Subs : inflight[s] = Cardinality(Holding(s))
    /\ waiting \in Seq(Reqs)
    /\ {waiting[k] : k \in DOMAIN waiting} = Queued
    /\ \A j, k \in DOMAIN waiting : waiting[j] = waiting[k] => j = k

(* What a principal has spent and has left is covered by the burst and the *)
(* refill up to its last call.                                             *)
SpendInv ==
    /\ bucket \in [Subs -> [tokens : 0 .. Burst, last : Int]]
    /\ spent \in [Subs -> Nat]
    /\ \A s \in Subs :
          /\ bucket[s].last >= -1
          /\ bucket[s].last < 0 => spent[s] = 0
          /\ bucket[s].last >= 0 =>
               /\ Up /\ env.since <= bucket[s].last /\ bucket[s].last <= clock
               /\ spent[s] + bucket[s].tokens <= Burst + Refill * (bucket[s].last - env.since)

Prevs == {Max({0} \cup S) : S \in SUBSET Nat}

(* The write gate is held by the one request between fetching and storing  *)
(* a checkpoint, so that what it bound to is still the latest.             *)
GateInv ==
    /\ writeGate \in Reqs \cup {NoReq}
    /\ anchors \in Seq([repo : Repos, prev : Prevs])
    /\ \A r \in Reqs :
          /\ req[r].pc \in Gated <=> writeGate = r
          /\ req[r].pc = "binding" => req[r].prev = Latest(req[r].in.repo)
    /\ CheckpointsChain

GatewayIInv == EnvInv /\ ReqInv /\ ChainInv /\ SlotInv /\ SpendInv /\ GateInv

-----------------------------------------------------------------------------
(* Requests.                                                               *)

(* The fields of a slot that holds no request.                             *)
LEMMA IdleFacts ==
    /\ IsReq(Idle) /\ Idle.pc = "idle" /\ Idle.left = 0 /\ Idle.m = NoMember
    /\ ReqOK(Idle)
  <1>1. IsReq(Idle) /\ Idle.pc = "idle" /\ Idle.left = 0 /\ Idle.m = NoMember
    BY DEF Idle, IsReq, Fields
  <1>2. NoMember \in Membership
    BY DEF NoMember, Membership, Roles
  <1>3. 0 \in 0 .. MaxLines
    BY GatewayAssumption
  <1>. QED
    BY <1>1, <1>2, <1>3 DEF ReqOK, Pcs, Gated, Http, Byom

(* Only the request r changes.                                             *)
Only(r) ==
    /\ req' = [q \in Reqs |-> req'[q]]
    /\ \A q \in Reqs \ {r} : req'[q] = req[q]

(* How a step changes its request.                                        *)
Enters(r, pc, i, m) == req' = [req EXCEPT ![r] = [Idle EXCEPT !.pc = pc, !.in = i, !.m = m]]
Admits(r, pc, m) == req' = [req EXCEPT ![r].pc = pc, ![r].m = m]
Allows(r, pc, g) == req' = [req EXCEPT ![r].pc = pc, ![r].grant = g]
Binds(r, pc, p) == req' = [req EXCEPT ![r].pc = pc, ![r].prev = p]
Queues(r, pc, g, n) == req' = [req EXCEPT ![r].pc = pc, ![r].grant = g, ![r].left = n]
Lines(r, n, mg) == req' = [req EXCEPT ![r].left = n, ![r].meta = mg]
Leaves(r, b) == req' = [req EXCEPT ![r].gone = b]

(* A request ends.                                                         *)
LEMMA FinishFacts ==
    ASSUME ReqInv, NEW r \in Reqs, Finish(r)
    PROVE  Only(r) /\ req'[r] = Idle
  BY DEF ReqInv, Finish, Only

(* A request arrives.                                                      *)
LEMMA EnterFacts ==
    ASSUME ReqInv, NEW r \in Reqs, NEW pc, NEW i, NEW m,
           Enters(r, pc, i, m)
    PROVE  /\ Only(r) /\ IsReq(req'[r])
           /\ req'[r].pc = pc /\ req'[r].in = i /\ req'[r].m = m /\ req'[r].left = 0
  <1> DEFINE x == Idle
             y == [x EXCEPT !.pc = pc, !.in = i, !.m = m]
  <1>1. IsReq(x) /\ x.left = 0
    BY IdleFacts
  <1> HIDE DEF x
  <1>2. IsReq(y) /\ y.pc = pc /\ y.in = i /\ y.m = m /\ y.left = 0
    BY <1>1 DEF IsReq, Fields
  <1>3. Only(r) /\ req'[r] = y
    BY DEF ReqInv, Only, x, Enters
  <1> HIDE DEF y
  <1>. QED
    BY <1>2, <1>3

(* Updates of some fields of one request.                                  *)
LEMMA GotoFacts ==
    ASSUME ReqInv, NEW r \in Reqs, IsReq(req[r]), NEW pc, Goto(r, pc)
    PROVE  /\ Only(r) /\ IsReq(req'[r]) /\ req'[r].pc = pc
           /\ req'[r].in = req[r].in /\ req'[r].m = req[r].m /\ req'[r].grant = req[r].grant
           /\ req'[r].left = req[r].left
  BY DEF ReqInv, Only, IsReq, Fields, Goto

(* A provisioned request goes on with the membership it was given.         *)
LEMMA AdmitFacts ==
    ASSUME ReqInv, NEW r \in Reqs, IsReq(req[r]), NEW pc, NEW m,
           Admits(r, pc, m)
    PROVE  /\ Only(r) /\ IsReq(req'[r]) /\ req'[r].pc = pc /\ req'[r].m = m
           /\ req'[r].in = req[r].in /\ req'[r].left = req[r].left
  BY DEF ReqInv, Only, IsReq, Fields, Admits

(* An authorized request keeps its grant.                                  *)
LEMMA AllowFacts ==
    ASSUME ReqInv, NEW r \in Reqs, IsReq(req[r]), NEW pc, NEW g,
           Allows(r, pc, g)
    PROVE  /\ Only(r) /\ IsReq(req'[r]) /\ req'[r].pc = pc /\ req'[r].grant = g
           /\ req'[r].in = req[r].in /\ req'[r].m = req[r].m /\ req'[r].left = req[r].left
  BY DEF ReqInv, Only, IsReq, Fields, Allows

(* A checkpoint request keeps the record it binds to.                      *)
LEMMA BindFacts ==
    ASSUME ReqInv, NEW r \in Reqs, IsReq(req[r]), NEW pc, NEW p,
           Binds(r, pc, p)
    PROVE  /\ Only(r) /\ IsReq(req'[r]) /\ req'[r].pc = pc /\ req'[r].prev = p
           /\ req'[r].in = req[r].in /\ req'[r].m = req[r].m /\ req'[r].grant = req[r].grant
           /\ req'[r].left = req[r].left
  BY DEF ReqInv, Only, IsReq, Fields, Binds

(* A BYOM request enters the queue.                                        *)
LEMMA QueueFacts ==
    ASSUME ReqInv, NEW r \in Reqs, IsReq(req[r]), NEW pc, NEW g, NEW n,
           Queues(r, pc, g, n)
    PROVE  /\ Only(r) /\ IsReq(req'[r]) /\ req'[r].pc = pc /\ req'[r].grant = g
           /\ req'[r].left = n /\ req'[r].in = req[r].in /\ req'[r].m = req[r].m
  BY DEF ReqInv, Only, IsReq, Fields, Queues

(* One line of a BYOM request is handled.                                  *)
LEMMA LineFacts ==
    ASSUME ReqInv, NEW r \in Reqs, IsReq(req[r]), NEW n, NEW mg,
           Lines(r, n, mg)
    PROVE  /\ Only(r) /\ IsReq(req'[r]) /\ req'[r].left = n /\ req'[r].meta = mg
           /\ req'[r].pc = req[r].pc /\ req'[r].in = req[r].in /\ req'[r].m = req[r].m
           /\ req'[r].grant = req[r].grant
  BY DEF ReqInv, Only, IsReq, Fields, Lines

(* A client leaves a running request.                                      *)
LEMMA GoneFacts ==
    ASSUME ReqInv, NEW r \in Reqs, IsReq(req[r]), NEW b, Leaves(r, b)
    PROVE  /\ Only(r) /\ IsReq(req'[r])
           /\ req'[r].pc = req[r].pc /\ req'[r].in = req[r].in /\ req'[r].m = req[r].m
           /\ req'[r].grant = req[r].grant /\ req'[r].left = req[r].left
  BY DEF ReqInv, Only, IsReq, Fields, Leaves

-----------------------------------------------------------------------------
(* What a step of one request leaves as it was.                            *)

(* The requests stay sound when the one that moves does and memberships    *)
(* are only added.                                                         *)
LEMMA ReqStep ==
    ASSUME ReqInv, NEW r \in Reqs, Only(r), Up', ReqOK(req'[r]),
           req'[r].pc \in Admitted =>
              req'[r].m = control'.members[req'[r].in.tok.sub] /\ req'[r].m # NoMember,
           \A s \in Subs : control.members[s] # NoMember => control'.members[s] = control.members[s]
    PROVE  ReqInv'
  <1>1. ASSUME NEW q \in Reqs
        PROVE  /\ ReqOK(req'[q])
               /\ req'[q].pc # "idle" => Up'
               /\ req'[q].pc \in Admitted =>
                     req'[q].m = control'.members[req'[q].in.tok.sub] /\ req'[q].m # NoMember
    <2>1. CASE q = r
      BY <2>1
    <2>2. CASE q # r
      <3>1. req'[q] = req[q]
        BY <2>2 DEF Only
      <3>2. ReqOK(req[q])
        BY DEF ReqInv
      <3>3. req[q].pc \in Admitted =>
               /\ req[q].m = control.members[req[q].in.tok.sub] /\ req[q].m # NoMember
               /\ req[q].in.tok.sub \in Subs
        <4>1. "idle" \notin Admitted
          BY DEF Admitted, Http, Gated, Byom
        <4>. QED
          BY <3>2, <4>1 DEF ReqInv, ReqOK, InputOK
      <3>. QED
        BY <3>1, <3>2, <3>3
    <2>. QED
      BY <2>1, <2>2
  <1>2. req' = [q \in Reqs |-> req'[q]]
    BY DEF Only
  <1>3. \A q \in Reqs : ReqOK(req[q])'
    BY <1>1 DEF ReqOK, IsReq, InputOK, ByomWithin, HttpWithin
  <1>. QED
    BY <1>1, <1>2, <1>3 DEF ReqInv

(* A request that is over is sound.                                        *)
LEMMA ReqFinish ==
    ASSUME ReqInv, NEW r \in Reqs, Finish(r), Up',
           \A s \in Subs : control.members[s] # NoMember => control'.members[s] = control.members[s]
    PROVE  ReqInv' /\ Only(r) /\ req'[r].pc = "idle" /\ req'[r] = Idle
  <1>1. Only(r) /\ req'[r] = Idle /\ ReqOK(req'[r]) /\ req'[r].pc = "idle"
    BY FinishFacts, IdleFacts
  <1>2. "idle" \notin Admitted
    BY DEF Admitted, Http, Gated, Byom
  <1>. QED
    BY <1>1, <1>2, ReqStep

(* Permits and places, when r neither takes nor gives one back.            *)
LEMMA SlotKeep ==
    ASSUME SlotInv, NEW r \in Reqs, Only(r), UNCHANGED <<inflight, slots, waiting>>,
           \/ req[r].pc \notin Byom /\ req'[r].pc \notin Byom
           \/ req'[r].pc = req[r].pc /\ req'[r].in = req[r].in
    PROVE  SlotInv'
  <1>1. Running' = Running
    BY DEF Running, Only, Byom
  <1>2. Queued' = Queued
    BY DEF Queued, Only, Byom
  <1>3. \A s : Holding(s)' = Holding(s)
    BY DEF Holding, Only, Byom
  <1>. QED
    BY <1>1, <1>2, <1>3 DEF SlotInv

(* The write gate and the checkpoints, when r has nothing to do with them. *)
LEMMA GateKeep ==
    ASSUME GateInv, NEW r \in Reqs, Only(r), UNCHANGED <<writeGate, anchors>>,
           req[r].pc \notin Gated, req'[r].pc \notin Gated
    PROVE  GateInv'
  <1>1. \A q \in Reqs :
          /\ req'[q].pc \in Gated <=> writeGate' = q
          /\ req'[q].pc = "binding" => req'[q].prev = Latest(req'[q].in.repo)
    BY DEF GateInv, Only, Gated
  <1>2. \A t : Latest(t)' = Latest(t)
    BY DEF Latest
  <1>3. CheckpointsChain'
    BY DEF GateInv, CheckpointsChain
  <1>. QED
    BY <1>1, <1>2, <1>3 DEF GateInv, Gated

(* Spending, when no call is made and the clock stands.                    *)
LEMMA SpendKeep ==
    ASSUME SpendInv, UNCHANGED <<bucket, spent, env, clock>>
    PROVE  SpendInv'
  BY DEF SpendInv, Up

PendingSet(s, op) ==
    {r \in Reqs : req[r].pc \in Http /\ req[r].in.tok.sub = s /\ OpOf(req[r].in) = op}

(* Operations about to be carried out, as a finite set.                    *)
LEMMA PendingFinite ==
    ASSUME NEW s, NEW op
    PROVE  /\ Pending(s, op) = Cardinality(PendingSet(s, op))
           /\ IsFiniteSet(PendingSet(s, op)) /\ Cardinality(PendingSet(s, op)) \in Nat
           /\ Pending(s, op)' = Cardinality(PendingSet(s, op)')
           /\ IsFiniteSet(PendingSet(s, op)') /\ Cardinality(PendingSet(s, op)') \in Nat
  <1>1. IsFiniteSet(Reqs)
    BY GatewayAssumption
  <1>2. PendingSet(s, op) \in SUBSET Reqs /\ PendingSet(s, op)' \in SUBSET Reqs
    BY DEF PendingSet
  <1>3. IsFiniteSet(PendingSet(s, op)) /\ IsFiniteSet(PendingSet(s, op)')
    BY <1>1, <1>2, FS_Subset
  <1>4. {"allowed", "fetching", "binding"} = Http
    BY DEF Http, Gated
  <1>5. Pending(s, op) = Cardinality(PendingSet(s, op)) /\ Pending(s, op)' = Cardinality(PendingSet(s, op)')
    BY <1>4 DEF Pending, PendingSet, SubOf
  <1>. QED
    BY <1>3, <1>5, FS_CardinalityType

(* An audit chain that stays, or grows by one record.                      *)
Audited == UNCHANGED audit \/ (Room /\ \E s \in Subs, ev \in Events : Append1(s, ev))

(* The chain stays typed and within its bound, and loses no record.        *)
LEMMA AuditedFacts ==
    ASSUME ChainInv, EnvInv, world' = world, Audited
    PROVE  /\ audit'.len \in Nat /\ audit'.len <= world'.audit
           /\ audit' = [len |-> audit'.len, of |-> audit'.of]
           /\ audit'.of \in [Subs \X Events -> Nat]
           /\ \A k \in Subs \X Events : audit'.of[k] <= audit'.len /\ audit.of[k] <= audit'.of[k]
  <1>0. world.audit \in Nat
    BY GatewayAssumption DEF EnvInv
  <1>1. CASE UNCHANGED audit
    BY <1>1 DEF ChainInv
  <1>2. ASSUME Room, NEW s \in Subs, NEW ev \in Events, Append1(s, ev)
        PROVE  /\ audit'.len \in Nat /\ audit'.len <= world'.audit
               /\ audit' = [len |-> audit'.len, of |-> audit'.of]
               /\ audit'.of \in [Subs \X Events -> Nat]
               /\ \A k \in Subs \X Events : audit'.of[k] <= audit'.len /\ audit.of[k] <= audit'.of[k]
    <2>1. audit'.len = audit.len + 1 /\ audit'.of = [audit.of EXCEPT ![<<s, ev>>] = @ + 1]
      BY <1>2 DEF Append1
    <2>2. audit' = [len |-> audit'.len, of |-> audit'.of]
      BY <1>2, <2>1 DEF Append1
    <2>3. audit.len < world.audit /\ audit.len \in Nat /\ audit.of \in [Subs \X Events -> Nat]
      BY <1>2 DEF Room, ChainInv
    <2>4. audit'.of \in [Subs \X Events -> Nat]
      BY <2>1, <2>3
    <2>5. ASSUME NEW k \in Subs \X Events
          PROVE  audit'.of[k] <= audit'.len /\ audit.of[k] <= audit'.of[k]
      <3>1. audit'.of[k] = IF k = <<s, ev>> THEN audit.of[k] + 1 ELSE audit.of[k]
        BY <2>1, <2>3
      <3>2. audit.of[k] \in Nat /\ audit.of[k] <= audit.len
        BY <2>3 DEF ChainInv
      <3>. QED
        BY <2>1, <2>3, <3>1, <3>2
    <2>. QED
      BY <1>0, <2>1, <2>2, <2>3, <2>4, <2>5
  <1>. QED
    BY <1>1, <1>2 DEF Audited

(* Records and operations, when r starts and carries out none.             *)
LEMMA ChainKeep ==
    ASSUME ChainInv, EnvInv, world' = world, NEW r \in Reqs, Only(r), Audited,
           UNCHANGED <<acted, touched>>,
           req'[r].pc \in Http => req[r].pc \in Http /\ req'[r].in = req[r].in
    PROVE  ChainInv'
  <1>1. ASSUME NEW s \in Subs, NEW op \in Ops
        PROVE  acted'[<<s, op>>] + Pending(s, op)' <= audit'.of[<<s, op>>]
    <2>1. PendingSet(s, op)' \in SUBSET PendingSet(s, op)
      BY DEF PendingSet, Only
    <2>2. Pending(s, op)' <= Pending(s, op) /\ Pending(s, op) \in Nat /\ Pending(s, op)' \in Nat
      BY <2>1, PendingFinite, FS_Subset
    <2>3. <<s, op>> \in Subs \X Events /\ <<s, op>> \in Subs \X Ops
      BY DEF Events
    <2>4. acted[<<s, op>>] + Pending(s, op) <= audit.of[<<s, op>>]
      BY DEF ChainInv, ActedIsAudited
    <2>5. audit.of[<<s, op>>] <= audit'.of[<<s, op>>] /\ audit'.of[<<s, op>>] \in Nat
      BY <2>3, AuditedFacts
    <2>6. audit.of[<<s, op>>] \in Nat /\ acted[<<s, op>>] \in Nat /\ acted' = acted
      BY <2>3 DEF ChainInv
    <2>. QED
      BY <2>2, <2>4, <2>5, <2>6
  <1>2. acted' \in [Subs \X Ops -> Nat] /\ touched' \subseteq Subs \X Ops \X Repos
    BY DEF ChainInv
  <1>3. ActedIsAudited'
    BY <1>1 DEF ActedIsAudited
  <1>. QED
    BY <1>2, <1>3, AuditedFacts DEF ChainInv

-----------------------------------------------------------------------------
(* The steps of a request.                                                 *)

(* Nothing but requests, records and bounds changes.                       *)
Quiet == UNCHANGED <<world, env, control, disk, allow, clock, minted>>

(* The invariant after a step of one request that leaves the plane alone.  *)
LEMMA QuietStep ==
    ASSUME GatewayIInv, NEW r \in Reqs, Only(r), Quiet, Up, ReqOK(req'[r]),
           req'[r].pc \in Admitted =>
              req'[r].m = control.members[req'[r].in.tok.sub] /\ req'[r].m # NoMember,
           ChainInv', SlotInv', SpendInv', GateInv'
    PROVE  GatewayIInv'
  <1>1. EnvInv'
    BY DEF GatewayIInv, Quiet, EnvInv
  <1>2. Up' /\ control' = control
    BY DEF Quiet, Up
  <1>3. ReqInv'
    BY <1>2, ReqStep DEF GatewayIInv
  <1>. QED
    BY <1>1, <1>3 DEF GatewayIInv

(* The invariant after a request has ended.                                *)
LEMMA QuietFinish ==
    ASSUME GatewayIInv, NEW r \in Reqs, Finish(r), Quiet, Up,
           ChainInv', SlotInv', SpendInv', GateInv'
    PROVE  GatewayIInv'
  <1>1. Only(r) /\ ReqOK(req'[r]) /\ req'[r].pc = "idle"
    BY FinishFacts, IdleFacts DEF GatewayIInv
  <1>2. "idle" \notin Admitted
    BY DEF Admitted, Http, Gated, Byom
  <1>. QED
    BY <1>1, <1>2, QuietStep

(* The requests a world sends are typed.                                   *)
LEMMA InputFacts ==
    ASSUME EnvInv, NEW i \in world.inputs
    PROVE  InputOK(i)
  BY GatewayAssumption DEF EnvInv, InputOK

(* A connect token that the gateway minted itself is typed.                *)
LEMMA MintedFacts ==
    ASSUME EnvInv, NEW i \in MintedInputs
    PROVE  InputOK(i) /\ i.route = "byom"
  <1>1. PICK t \in minted : i = [route |-> "byom", repo |-> "*", tok |-> t, path |-> t.sub,
                                   lines |-> 1, calls |-> 1]
    BY DEF MintedInputs
  <1>2. i.tok = t /\ i.route = "byom" /\ i.lines = 1 /\ i.calls = 1 /\ i.tok.sub \in Subs /\ i.tok.tenants = <<>>
    BY <1>1 DEF EnvInv
  <1>3. DOMAIN i.tok.tenants = {}
    BY <1>2
  <1>. QED
    BY <1>2, <1>3 DEF InputOK, Routes

(* An arriving request with a membership, or with none, is sound.          *)
LEMMA EnterOK ==
    ASSUME NEW x, IsReq(x), x.pc \in {"jit", "authorize", "limits"}, x.left = 0, x.m \in Membership,
           InputOK(x.in), x.pc = "authorize" => x.in.route # "byom"
    PROVE  ReqOK(x)
  <1>1. 0 \in 0 .. MaxLines
    BY GatewayAssumption
  <1>2. x.pc \notin Http /\ x.pc \notin Byom /\ x.pc \notin Gated
    BY DEF Http, Byom, Gated
  <1>. QED
    BY <1>1, <1>2 DEF ReqOK, Pcs

(* A request arrives at the gate: nothing but its slot changes.            *)
LEMMA Arrival ==
    ASSUME GatewayIInv, NEW r \in Reqs, NEW i, InputOK(i), NEW pc, pc \in {"jit", "authorize", "limits"},
           Up, At(r, "idle"), pc = "authorize" => i.route # "byom",
           pc = "jit" \/ control.members[i.tok.sub] # NoMember,
           Enters(r, pc, i, control.members[i.tok.sub]),
           UNCHANGED <<plane, audit>>, NoWork, Surroundings
    PROVE  GatewayIInv'
  <1>1. /\ Only(r) /\ IsReq(req'[r]) /\ req'[r].pc = pc /\ req'[r].in = i
        /\ req'[r].m = control.members[i.tok.sub] /\ req'[r].left = 0
    BY EnterFacts DEF GatewayIInv
  <1>2. control.members[i.tok.sub] \in Membership
    BY DEF GatewayIInv, EnvInv, Controls, InputOK
  <1>3. ReqOK(req'[r])
    BY <1>1, <1>2, EnterOK
  <1>4. /\ req[r].pc \notin Byom /\ req'[r].pc \notin Byom
        /\ req[r].pc \notin Gated /\ req'[r].pc \notin Gated /\ req'[r].pc \notin Http
    BY <1>1 DEF At, Byom, Gated, Http
  <1>5. Quiet /\ Audited /\ world' = world /\ UNCHANGED <<acted, touched, inflight, slots, waiting, writeGate, anchors>>
    BY DEF Quiet, plane, NoWork, Surroundings, limits, Audited
  <1>6. UNCHANGED <<bucket, spent, env, clock>>
    BY DEF plane, NoWork, Surroundings, limits
  <1>7. ChainInv'
    BY <1>1, <1>4, <1>5, ChainKeep DEF GatewayIInv
  <1>8. SlotInv' /\ GateInv' /\ SpendInv'
    BY <1>1, <1>4, <1>5, <1>6, SlotKeep, GateKeep, SpendKeep DEF GatewayIInv
  <1>9. req'[r].pc \in Admitted => pc # "jit"
    BY <1>1 DEF Admitted, Http, Gated, Byom
  <1>. QED
    BY <1>1, <1>3, <1>5, <1>7, <1>8, <1>9, QuietStep

(* gate_with_grant, up to the membership lookup.                           *)
LEMMA GateStep ==
    ASSUME GatewayIInv, NEW r \in Reqs, NEW i \in world.inputs, Gate(r, i)
    PROVE  GatewayIInv'
  <1> DEFINE m == control.members[i.tok.sub]
             pc == IF m = NoMember THEN "jit" ELSE "authorize"
  <1>1. InputOK(i)
    BY InputFacts DEF GatewayIInv
  <1>2. Enters(r, pc, i, m)
    BY DEF Gate, Enters
  <1>3. Up /\ At(r, "idle") /\ i.route # "byom" /\ UNCHANGED <<plane, audit>> /\ NoWork /\ Surroundings
    BY DEF Gate
  <1>4. pc \in {"jit", "authorize", "limits"} /\ (pc = "jit" \/ m # NoMember)
    OBVIOUS
  <1> HIDE DEF pc
  <1>. QED
    BY <1>1, <1>2, <1>3, <1>4, Arrival

(* byom, up to the membership lookup.                                      *)
LEMMA ByomGateStep ==
    ASSUME GatewayIInv, NEW r \in Reqs, NEW i \in world.inputs \cup MintedInputs, ByomGate(r, i)
    PROVE  GatewayIInv'
  <1> DEFINE m == control.members[i.tok.sub]
             pc == IF m = NoMember THEN "jit" ELSE "limits"
  <1>1. InputOK(i)
    BY InputFacts, MintedFacts DEF GatewayIInv
  <1>2. i.tok.sub = i.path
    BY DEF ByomGate
  <1>3. Enters(r, pc, i, m)
    BY <1>2 DEF ByomGate, Enters
  <1>4. Up /\ At(r, "idle") /\ UNCHANGED <<plane, audit>> /\ NoWork /\ Surroundings
    BY DEF ByomGate
  <1>5. pc \in {"jit", "authorize", "limits"} /\ (pc = "jit" \/ m # NoMember) /\ pc # "authorize"
    OBVIOUS
  <1> HIDE DEF pc
  <1>. QED
    BY <1>1, <1>3, <1>4, <1>5, Arrival

(* The membership an allowlist gives is a membership.                      *)
LEMMA EntryType ==
    ASSUME EnvInv, NEW tok
    PROVE  Entry(LoadAllowlist, tok) \in Membership
  <1> DEFINE list == LoadAllowlist
             email == IF tok.verified THEN tok.email ELSE ""
             hits == {i \in DOMAIN list : \/ email # "" /\ list[i].email = email
                                          \/ tok.wallet # "" /\ list[i].wallet = tok.wallet}
  <1>1. DOMAIN list \subseteq Nat /\
        \A k \in DOMAIN list : list[k].role \in Roles /\ list[k].scopes \in Seq(Scopes)
    <2>1. CASE env.jit /\ allow.parses
      <3>1. list = allow.members
        BY <2>1 DEF LoadAllowlist
      <3> HIDE DEF list
      <3>. QED
        BY <3>1, GatewayAssumption DEF EnvInv
    <2>2. CASE ~(env.jit /\ allow.parses)
      <3>1. list = <<>>
        BY <2>2 DEF LoadAllowlist
      <3>2. DOMAIN list = {}
        BY <3>1
      <3>. QED
        BY <3>2
    <2>. QED
      BY <2>1, <2>2
  <1>2. Entry(list, tok) = IF hits = {} THEN NoMember
                           ELSE [role |-> list[Min(hits)].role, scopes |-> list[Min(hits)].scopes]
    BY DEF Entry
  <1>3. hits # {} => Min(hits) \in DOMAIN list
    BY <1>1, MinIn
  <1>4. NoMember \in Membership
    BY DEF NoMember, Membership, Roles
  <1> HIDE DEF hits, list
  <1>5. Entry(list, tok) \in Membership
    BY <1>1, <1>2, <1>3, <1>4 DEF Membership
  <1>. QED
    BY <1>5 DEF list

(* A membership is only ever added to the control plane.                   *)
LEMMA ProvisionFacts ==
    ASSUME EnvInv, NEW s \in Subs, NEW m \in Membership, m # NoMember
    PROVE  /\ Provision(s, m) \in Controls
           /\ Provision(s, m).members[s] \in Membership /\ Provision(s, m).members[s] # NoMember
           /\ \A u \in Subs : control.members[u] # NoMember =>
                 Provision(s, m).members[u] = control.members[u]
  <1>1. control \in Controls
    BY DEF EnvInv
  <1>. QED
    BY <1>1 DEF Provision, Controls

(* A record that may be refused leaves the chain as it was or longer.      *)
LEMMA BestEffortFacts ==
    ASSUME NEW s \in Subs, NEW ev \in Events, BestEffort(s, ev)
    PROVE  Audited
  BY DEF BestEffort, Audited

(* The principal of a request in progress.                                 *)
LEMMA SubFacts ==
    ASSUME ReqInv, NEW r \in Reqs, req[r].pc # "idle"
    PROVE  SubOf(r) \in Subs /\ SubOf(r) = req[r].in.tok.sub /\ InputOK(req[r].in) /\ Up
           /\ ReqOK(req[r]) /\ IsReq(req[r])
  BY DEF ReqInv, ReqOK, InputOK, SubOf

(* What a step of an HTTP request that is not about to act keeps.          *)
LEMMA EarlyKeep ==
    ASSUME GatewayIInv, NEW r \in Reqs, Only(r), Audited, NoWork, UNCHANGED <<world, env, clock>>,
           req[r].pc \notin Byom \cup Http, req'[r].pc \notin Byom \cup Http
    PROVE  ChainInv' /\ SlotInv' /\ SpendInv' /\ GateInv'
  <1>1. /\ UNCHANGED <<acted, touched>> /\ UNCHANGED <<inflight, slots, waiting>>
        /\ UNCHANGED <<writeGate, anchors>> /\ UNCHANGED <<bucket, spent, env, clock>>
    BY DEF NoWork, limits
  <1>2. Gated \subseteq Http
    BY DEF Http
  <1>3. ChainInv'
    BY <1>1, ChainKeep DEF GatewayIInv
  <1>4. SlotInv' /\ GateInv'
    BY <1>1, <1>2, SlotKeep, GateKeep DEF GatewayIInv
  <1>5. SpendInv'
    BY <1>1, SpendKeep DEF GatewayIInv
  <1>. QED
    BY <1>3, <1>4, <1>5

(* jit_provision: found on no list, provisioned, or not saved.             *)
LEMMA JitProvisionStep ==
    ASSUME GatewayIInv, NEW r \in Reqs, JitProvision(r)
    PROVE  GatewayIInv'
  <1> DEFINE s == SubOf(r)
             m == Entry(LoadAllowlist, req[r].in.tok)
             http == req[r].in.route # "byom"
  <1>1. Up /\ req[r].pc = "jit"
    BY DEF JitProvision, At
  <1>2. s \in Subs /\ s = req[r].in.tok.sub /\ InputOK(req[r].in) /\ ReqOK(req[r]) /\ IsReq(req[r])
    BY <1>1, SubFacts DEF GatewayIInv
  <1>3. m \in Membership
    BY EntryType DEF GatewayIInv
  <1>4. UNCHANGED <<world, env, allow, minted, clock>> /\ NoWork
    BY DEF JitProvision
  <1>5. /\ req[r].pc \notin Byom \cup Http /\ "idle" \notin Byom \cup Http
        /\ "authorize" \notin Byom \cup Http /\ "limits" \notin Byom \cup Http
    BY <1>1 DEF Byom, Http, Gated
  <1>6. \/ /\ m = NoMember /\ Finish(r)
           /\ IF http THEN BestEffort(s, "denied") ELSE UNCHANGED audit
           /\ UNCHANGED <<control, disk>>
        \/ /\ m # NoMember
           /\ control' = Provision(s, m)
           /\ disk' = IF control' = control THEN disk ELSE control'
           /\ Admits(r, IF http THEN "authorize" ELSE "limits", control'.members[s])
           /\ IF http THEN BestEffort(s, "jit") ELSE UNCHANGED audit
        \/ /\ m # NoMember
           /\ control' = Provision(s, m)
           /\ Finish(r)
           /\ IF http THEN BestEffort(s, "denied") ELSE UNCHANGED audit
           /\ UNCHANGED disk
    BY DEF JitProvision, Admits
  <1> HIDE DEF s, m
  <1>7. Audited
    BY <1>2, <1>6, BestEffortFacts DEF Events, Audited
  <1>8. Up'
    BY <1>1, <1>4 DEF Up
  <1>9. CASE m = NoMember
    <2>1. Finish(r) /\ UNCHANGED <<control, disk>>
      BY <1>6, <1>9
    <2>2. ReqInv' /\ Only(r) /\ req'[r].pc = "idle"
      BY <1>8, <2>1, ReqFinish DEF GatewayIInv
    <2>3. ChainInv' /\ SlotInv' /\ SpendInv' /\ GateInv'
      BY <1>4, <1>5, <1>7, <2>2, EarlyKeep
    <2>4. EnvInv'
      BY <1>4, <2>1 DEF GatewayIInv, EnvInv
    <2>. QED
      BY <2>2, <2>3, <2>4 DEF GatewayIInv
  <1>10. CASE m # NoMember
    <2>1. control' = Provision(s, m) /\ disk' \in {disk, control'}
      BY <1>6, <1>10
    <2>2. /\ control' \in Controls /\ control'.members[s] \in Membership /\ control'.members[s] # NoMember
          /\ \A u \in Subs : control.members[u] # NoMember => control'.members[u] = control.members[u]
      BY <1>2, <1>3, <1>10, <2>1, ProvisionFacts DEF GatewayIInv
    <2>3. EnvInv'
      BY <1>4, <2>1, <2>2 DEF GatewayIInv, EnvInv
    <2>4. CASE Finish(r)
      <3>1. ReqInv' /\ Only(r) /\ req'[r].pc = "idle"
        BY <1>8, <2>2, <2>4, ReqFinish DEF GatewayIInv
      <3>2. ChainInv' /\ SlotInv' /\ SpendInv' /\ GateInv'
        BY <1>4, <1>5, <1>7, <3>1, EarlyKeep
      <3>. QED
        BY <2>3, <3>1, <3>2 DEF GatewayIInv
    <2>5. CASE Admits(r, IF http THEN "authorize" ELSE "limits", control'.members[s])
      <3> DEFINE pc == IF http THEN "authorize" ELSE "limits"
      <3>1. pc \in {"authorize", "limits"} /\ (pc = "authorize" => http)
        OBVIOUS
      <3> HIDE DEF pc
      <3>2. /\ Only(r) /\ IsReq(req'[r]) /\ req'[r].pc = pc /\ req'[r].m = control'.members[s]
            /\ req'[r].in = req[r].in /\ req'[r].left = req[r].left
        BY <1>2, <2>5, AdmitFacts DEF GatewayIInv, pc
      <3>3. ReqOK(req'[r])
        <4>1. req'[r].pc \notin Byom /\ req'[r].pc \notin Http /\ req'[r].pc \notin Gated /\ req'[r].pc \in Pcs
          BY <3>1, <3>2 DEF Byom, Http, Gated, Pcs
        <4>2. req[r].left \in 0 .. MaxLines
          BY <1>2 DEF ReqOK
        <4>. QED
          BY <1>2, <2>2, <3>1, <3>2, <4>1, <4>2 DEF ReqOK
      <3>4. ReqInv'
        BY <1>2, <1>8, <2>2, <3>2, <3>3, ReqStep DEF GatewayIInv
      <3>5. ChainInv' /\ SlotInv' /\ SpendInv' /\ GateInv'
        BY <1>4, <1>5, <1>7, <3>1, <3>2, EarlyKeep
      <3>. QED
        BY <2>3, <3>4, <3>5 DEF GatewayIInv
    <2>. QED
      BY <1>6, <1>10, <2>4, <2>5
  <1>. QED
    BY <1>9, <1>10

(* The record of a decision, and the operation that is then about to be    *)
(* carried out.                                                            *)
LEMMA ChainAllows ==
    ASSUME ChainInv, EnvInv, world' = world, NEW r \in Reqs, Only(r), Room,
           NEW s \in Subs, NEW op \in Ops, Append1(s, op), UNCHANGED <<acted, touched>>,
           req[r].pc \notin Http, req'[r].in.tok.sub = s, OpOf(req'[r].in) = op
    PROVE  ChainInv'
  <1>0. op \in Events
    BY DEF Events
  <1>1. Audited
    BY <1>0 DEF Audited
  <1>2. ASSUME NEW u \in Subs, NEW o \in Ops
        PROVE  acted'[<<u, o>>] + Pending(u, o)' <= audit'.of[<<u, o>>]
    <2>1. <<u, o>> \in Subs \X Events /\ <<u, o>> \in Subs \X Ops /\ <<s, op>> \in Subs \X Events
      BY <1>0 DEF Events
    <2>2. acted[<<u, o>>] + Pending(u, o) <= audit.of[<<u, o>>]
      BY DEF ChainInv, ActedIsAudited
    <2>3. audit.of[<<u, o>>] \in Nat /\ acted[<<u, o>>] \in Nat /\ acted' = acted
      BY <2>1 DEF ChainInv
    <2>4. audit'.of[<<u, o>>] = IF <<u, o>> = <<s, op>> THEN audit.of[<<u, o>>] + 1 ELSE audit.of[<<u, o>>]
      BY <2>1 DEF Append1, ChainInv
    <2>5. CASE u = s /\ o = op
      <3>1. PendingSet(u, o)' \in SUBSET (PendingSet(u, o) \cup {r}) /\ r \notin PendingSet(u, o)
        BY DEF PendingSet, Only
      <3>2. /\ IsFiniteSet(PendingSet(u, o) \cup {r})
            /\ Cardinality(PendingSet(u, o) \cup {r}) = Cardinality(PendingSet(u, o)) + 1
        BY <3>1, PendingFinite, FS_AddElement
      <3>3. Cardinality(PendingSet(u, o)') <= Cardinality(PendingSet(u, o)) + 1
        BY <3>1, <3>2, FS_Subset
      <3>4. Pending(u, o)' <= Pending(u, o) + 1 /\ Pending(u, o)' \in Nat /\ Pending(u, o) \in Nat
        BY <3>3, PendingFinite
      <3>. QED
        BY <2>2, <2>3, <2>4, <2>5, <3>4
    <2>6. CASE ~(u = s /\ o = op)
      <3>1. PendingSet(u, o)' \in SUBSET PendingSet(u, o)
        BY <2>6 DEF PendingSet, Only
      <3>2. Pending(u, o)' <= Pending(u, o) /\ Pending(u, o)' \in Nat /\ Pending(u, o) \in Nat
        BY <3>1, PendingFinite, FS_Subset
      <3>3. <<u, o>> # <<s, op>>
        BY <2>6
      <3>. QED
        BY <2>2, <2>3, <2>4, <3>2, <3>3
    <2>. QED
      BY <2>5, <2>6
  <1>3. acted' \in [Subs \X Ops -> Nat] /\ touched' \subseteq Subs \X Ops \X Repos
    BY DEF ChainInv
  <1>4. ActedIsAudited'
    BY <1>2 DEF ActedIsAudited
  <1>. QED
    BY <1>1, <1>3, <1>4, AuditedFacts DEF ChainInv

(* What a route asks for, its grant covers and so does the membership.     *)
LEMMA WantedWithin ==
    ASSUME EnvInv, NEW x, InputOK(x.in), x.in.route # "byom", x.m \in Membership, NEW s,
           x.grant = MintGrant(s, x.m, clock), Check(x.grant, Wanted(x.in), OpOf(x.in), clock)
    PROVE  HttpWithin(x)
  <1>1. OpOf(x.in) \in Ops /\ "read" \in Ops
    BY DEF OpOf, Ops
  <1>2. \A t \in Repos, now \in Nat :
           Check(x.grant, RepoResource(t), "read", now) => MemberMay(x.m, "read", t)
    BY <1>1, MintWithin
  <1>3. CASE x.in.route = "layout"
    <2>1. Wanted(x.in) = Star /\ OpOf(x.in) = "read"
      BY <1>3 DEF Wanted, OpOf
    <2>2. \A t \in Repos : MemberMay(x.m, "read", t)
      BY <1>1, <2>1, MintWithinStar
    <2>. QED
      BY <1>2, <1>3, <2>2 DEF HttpWithin
  <1>4. CASE x.in.route # "layout"
    <2>1. Wanted(x.in) = RepoResource(x.in.repo) /\ x.in.repo \in Repos
      BY <1>4 DEF Wanted, InputOK
    <2>2. MemberMay(x.m, OpOf(x.in), x.in.repo)
      BY <1>1, <2>1, MintWithin
    <2>. QED
      BY <1>2, <1>4, <2>2 DEF HttpWithin
  <1>. QED
    BY <1>3, <1>4

(* gate_with_grant: the decision, its record and the grant kept.           *)
LEMMA AuthorizeStep ==
    ASSUME GatewayIInv, NEW r \in Reqs, Authorize(r)
    PROVE  GatewayIInv'
  <1> DEFINE s == SubOf(r)
             op == OpOf(req[r].in)
             g == MintGrant(s, req[r].m, clock)
  <1>1. Up /\ req[r].pc = "authorize"
    BY DEF Authorize, At
  <1>2. s \in Subs /\ s = req[r].in.tok.sub /\ InputOK(req[r].in) /\ ReqOK(req[r]) /\ IsReq(req[r])
    BY <1>1, SubFacts DEF GatewayIInv
  <1>3. req[r].in.route # "byom" /\ req[r].m \in Membership /\ req[r].left \in 0 .. MaxLines
    BY <1>1, <1>2 DEF ReqOK
  <1>4. req[r].m = control.members[s] /\ req[r].m # NoMember
    BY <1>1, <1>2 DEF GatewayIInv, ReqInv, Admitted
  <1>5. Quiet /\ NoWork /\ UNCHANGED <<world, env, clock>>
    BY DEF Authorize, Surroundings, plane, Quiet
  <1>6. /\ req[r].pc \notin Byom \cup Http /\ "idle" \notin Byom \cup Http
        /\ "allowed" \in Http /\ "allowed" \notin Byom \cup Gated
    BY <1>1 DEF Byom, Http, Gated
  <1>7. \/ /\ Check(g, Wanted(req[r].in), op, clock)
           /\ Room /\ Append1(s, op) /\ Allows(r, "allowed", g)
        \/ (UNCHANGED audit \/ BestEffort(s, "denied")) /\ Finish(r)
    BY DEF Authorize, Decide, Allows
  <1> HIDE DEF g, s, op
  <1>8. CASE (UNCHANGED audit \/ BestEffort(s, "denied")) /\ Finish(r)
    <2>1. Audited
      BY <1>2, <1>8, BestEffortFacts DEF Events, Audited
    <2>2. Only(r) /\ req'[r].pc = "idle"
      BY <1>8, FinishFacts, IdleFacts DEF GatewayIInv
    <2>3. ChainInv' /\ SlotInv' /\ SpendInv' /\ GateInv'
      BY <1>5, <1>6, <2>1, <2>2, EarlyKeep
    <2>. QED
      BY <1>1, <1>5, <1>8, <2>3, QuietFinish
  <1>9. CASE /\ Check(g, Wanted(req[r].in), op, clock)
             /\ Room /\ Append1(s, op) /\ Allows(r, "allowed", g)
    <2>1. /\ Only(r) /\ IsReq(req'[r]) /\ req'[r].pc = "allowed" /\ req'[r].grant = g
          /\ req'[r].in = req[r].in /\ req'[r].m = req[r].m /\ req'[r].left = req[r].left
      BY <1>2, <1>9, AllowFacts DEF GatewayIInv
    <2>2. HttpWithin(req'[r])
      <3> DEFINE x == req'[r]
      <3>1. /\ InputOK(x.in) /\ x.in.route # "byom" /\ x.m \in Membership
            /\ x.grant = MintGrant(s, x.m, clock) /\ Check(x.grant, Wanted(x.in), OpOf(x.in), clock)
        BY <1>2, <1>3, <1>9, <2>1 DEF g, op
      <3> HIDE DEF x
      <3>2. HttpWithin(x)
        BY <3>1, WantedWithin DEF GatewayIInv
      <3>. QED
        BY <3>2 DEF x
    <2>3. ReqOK(req'[r])
      BY <1>2, <1>3, <1>6, <2>1, <2>2 DEF ReqOK, Pcs
    <2>4. ChainInv'
      <3>1. op \in Ops /\ req'[r].in.tok.sub = s /\ OpOf(req'[r].in) = op
        BY <1>2, <2>1 DEF op, OpOf, Ops
      <3>2. UNCHANGED <<acted, touched>>
        BY <1>5 DEF NoWork
      <3>. QED
        BY <1>2, <1>5, <1>6, <1>9, <2>1, <3>1, <3>2, ChainAllows DEF GatewayIInv
    <2>5. SlotInv' /\ GateInv' /\ SpendInv'
      <3>1. /\ UNCHANGED <<inflight, slots, waiting>> /\ UNCHANGED <<writeGate, anchors>>
            /\ UNCHANGED <<bucket, spent, env, clock>>
        BY <1>5 DEF NoWork, limits
      <3>2. req[r].pc \notin Gated
        BY <1>6 DEF Http
      <3>. QED
        BY <1>6, <2>1, <3>1, <3>2, SlotKeep, GateKeep, SpendKeep DEF GatewayIInv
    <2>. QED
      BY <1>1, <1>2, <1>4, <1>5, <2>1, <2>3, <2>4, <2>5, QuietStep
  <1>. QED
    BY <1>7, <1>8, <1>9

(* An operation that was about to be carried out is.                       *)
LEMMA ChainActs ==
    ASSUME ChainInv, UNCHANGED <<world, audit>>, NEW r \in Reqs, Only(r),
           NEW s \in Subs, NEW op \in Ops, NEW where \in SUBSET Repos, Acts(s, op, where),
           req[r].pc \in Http, req[r].in.tok.sub = s, OpOf(req[r].in) = op, req'[r].pc \notin Http
    PROVE  ChainInv'
  <1>1. acted' = [acted EXCEPT ![<<s, op>>] = @ + 1] /\ acted \in [Subs \X Ops -> Nat]
    BY DEF Acts, ChainInv
  <1>2. acted' \in [Subs \X Ops -> Nat]
    BY <1>1
  <1>3. touched' \subseteq Subs \X Ops \X Repos
    BY DEF Acts, ChainInv
  <1>4. ASSUME NEW u \in Subs, NEW o \in Ops
        PROVE  acted'[<<u, o>>] + Pending(u, o)' <= audit'.of[<<u, o>>]
    <2>1. <<u, o>> \in Subs \X Events /\ <<u, o>> \in Subs \X Ops
      BY DEF Events
    <2>2. acted[<<u, o>>] + Pending(u, o) <= audit.of[<<u, o>>]
      BY DEF ChainInv, ActedIsAudited
    <2>3. audit.of[<<u, o>>] \in Nat /\ acted[<<u, o>>] \in Nat /\ audit' = audit
      BY <2>1 DEF ChainInv
    <2>4. acted'[<<u, o>>] = IF <<u, o>> = <<s, op>> THEN acted[<<u, o>>] + 1 ELSE acted[<<u, o>>]
      BY <1>1, <2>1
    <2>5. CASE u = s /\ o = op
      <3>1. PendingSet(u, o)' = PendingSet(u, o) \ {r} /\ r \in PendingSet(u, o)
        BY <2>5 DEF PendingSet, Only
      <3> DEFINE P == PendingSet(u, o)
                 Q == PendingSet(u, o)'
      <3>a. IsFiniteSet(P) /\ r \in P /\ Q = P \ {r}
        BY <3>1, PendingFinite
      <3> HIDE DEF P, Q
      <3>b. Cardinality(Q) = Cardinality(P) - 1
        BY <3>a, FS_RemoveElement
      <3>2. Cardinality(PendingSet(u, o)') = Cardinality(PendingSet(u, o)) - 1
        BY <3>b DEF P, Q
      <3>3. Pending(u, o)' = Pending(u, o) - 1 /\ Pending(u, o)' \in Nat /\ Pending(u, o) \in Nat
        BY <3>2, PendingFinite
      <3>. QED
        BY <2>2, <2>3, <2>4, <2>5, <3>3
    <2>6. CASE ~(u = s /\ o = op)
      <3>1. PendingSet(u, o)' \in SUBSET PendingSet(u, o)
        BY <2>6 DEF PendingSet, Only
      <3>2. Pending(u, o)' <= Pending(u, o) /\ Pending(u, o)' \in Nat /\ Pending(u, o) \in Nat
        BY <3>1, PendingFinite, FS_Subset
      <3>3. <<u, o>> # <<s, op>>
        BY <2>6
      <3>. QED
        BY <2>2, <2>3, <2>4, <3>2, <3>3
    <2>. QED
      BY <2>5, <2>6
  <1>5. ActedIsAudited'
    BY <1>4 DEF ActedIsAudited
  <1>. QED
    BY <1>2, <1>3, <1>5 DEF ChainInv

(* The repos a read handler shows, each within the request's membership.   *)
ServeWhere(r) ==
    LET i == req[r].in
    IN  CASE i.route = "layout"    -> Repos
          [] i.route = "recall"    -> {i.repo}
          [] i.route = "neighbors" -> ReadableNeighbors(req[r].grant, i.repo)

(* A read handler shows nothing that the membership does not read.         *)
LEMMA ServeWithin ==
    ASSUME GatewayIInv, NEW r \in Reqs, req[r].pc = "allowed", req[r].in.route \in ReadRoutes
    PROVE  /\ ServeWhere(r) \in SUBSET Repos
           /\ \A t \in ServeWhere(r) : MemberMay(req[r].m, "read", t)
  <1> DEFINE i == req[r].in
  <1>1. InputOK(i) /\ ReqOK(req[r])
    BY SubFacts DEF GatewayIInv
  <1>2. HttpWithin(req[r])
    BY <1>1 DEF ReqOK, Http
  <1>3. clock \in Nat
    BY DEF GatewayIInv, EnvInv
  <1>4. OpOf(i) = "read"
    BY DEF OpOf, ReadRoutes
  <1>5. CASE i.route = "layout"
    BY <1>2, <1>5 DEF ServeWhere, HttpWithin
  <1>6. CASE i.route = "recall"
    <2>1. i.repo \in Repos /\ ServeWhere(r) = {i.repo}
      BY <1>1, <1>6 DEF InputOK, ServeWhere
    <2>. QED
      BY <1>2, <1>4, <1>6, <2>1 DEF HttpWithin
  <1>7. CASE i.route = "neighbors"
    <2>1. i.repo \in Repos /\ ServeWhere(r) = ReadableNeighbors(req[r].grant, i.repo)
      BY <1>1, <1>7 DEF InputOK, ServeWhere
    <2>2. ServeWhere(r) = {u \in Repos : u = i.repo \/ Check(req[r].grant, RepoResource(u), "read", clock)}
      BY <2>1 DEF ReadableNeighbors, NeighborsReadable
    <2>3. MemberMay(req[r].m, "read", i.repo)
      BY <1>2, <1>4, <1>7 DEF HttpWithin
    <2>. QED
      BY <1>2, <1>3, <2>2, <2>3 DEF HttpWithin
  <1>. QED
    BY <1>5, <1>6, <1>7 DEF ReadRoutes

(* An HTTP request carries its operation out and ends.                     *)
LEMMA ActEnds ==
    ASSUME GatewayIInv, NEW r \in Reqs, req[r].pc \in Http, Finish(r), Quiet, UNCHANGED audit,
           NEW where \in SUBSET Repos, Acts(SubOf(r), OpOf(req[r].in), where),
           UNCHANGED limits, GateInv'
    PROVE  GatewayIInv'
  <1>1. req[r].pc # "idle" /\ req[r].pc \notin Byom /\ "idle" \notin Http /\ "idle" \notin Byom
    BY DEF Http, Gated, Byom
  <1>2. SubOf(r) \in Subs /\ SubOf(r) = req[r].in.tok.sub /\ Up
    BY <1>1, SubFacts DEF GatewayIInv
  <1>3. Only(r) /\ req'[r].pc = "idle"
    BY FinishFacts, IdleFacts DEF GatewayIInv
  <1>4. UNCHANGED <<world, audit>> /\ UNCHANGED <<inflight, slots, waiting>>
        /\ UNCHANGED <<bucket, spent, env, clock>>
    BY DEF Quiet, limits
  <1>5. OpOf(req[r].in) \in Ops
    BY DEF OpOf, Ops
  <1>6. ChainInv'
    BY <1>1, <1>2, <1>3, <1>4, <1>5, ChainActs DEF GatewayIInv
  <1>7. SlotInv' /\ SpendInv'
    BY <1>1, <1>3, <1>4, SlotKeep, SpendKeep DEF GatewayIInv
  <1>. QED
    BY <1>2, <1>6, <1>7, QuietFinish

(* A read handler answers.                                                 *)
LEMMA ServeStep ==
    ASSUME GatewayIInv, NEW r \in Reqs, Serve(r)
    PROVE  GatewayIInv'
  <1>1. /\ req[r].pc = "allowed" /\ req[r].in.route \in ReadRoutes
        /\ Finish(r) /\ UNCHANGED <<audit, limits, writeGate, anchors>>
    BY DEF Serve, At
  <1>2. Quiet
    BY DEF Serve, plane, Surroundings, Quiet
  <1>3. OpOf(req[r].in) = "read"
    BY <1>1 DEF OpOf, ReadRoutes
  <1>4. Acts(SubOf(r), OpOf(req[r].in), ServeWhere(r))
    BY <1>3 DEF Serve, ServeWhere
  <1>5. ServeWhere(r) \in SUBSET Repos
    BY <1>1, ServeWithin
  <1>6. Only(r) /\ req'[r].pc = "idle"
    BY <1>1, FinishFacts, IdleFacts DEF GatewayIInv
  <1>7. req[r].pc \notin Gated /\ req'[r].pc \notin Gated /\ req[r].pc \in Http
    BY <1>1, <1>6 DEF Gated, Http
  <1>8. GateInv'
    BY <1>1, <1>6, <1>7, GateKeep DEF GatewayIInv
  <1>. QED
    BY <1>1, <1>2, <1>4, <1>5, <1>7, <1>8, ActEnds

(* assert: one write under the write gate.                                 *)
LEMMA AssertStep ==
    ASSUME GatewayIInv, NEW r \in Reqs, Assert(r)
    PROVE  GatewayIInv'
  <1>1. /\ req[r].pc = "allowed" /\ req[r].in.route = "assert"
        /\ Finish(r) /\ UNCHANGED <<audit, limits, writeGate, anchors>>
        /\ Acts(SubOf(r), "write", {req[r].in.repo})
    BY DEF Assert, At
  <1>2. Quiet
    BY DEF Assert, plane, Surroundings, Quiet
  <1>3. OpOf(req[r].in) = "write"
    BY <1>1 DEF OpOf
  <1>4. InputOK(req[r].in)
    BY <1>1, SubFacts DEF GatewayIInv
  <1>5. {req[r].in.repo} \in SUBSET Repos
    BY <1>1, <1>4 DEF InputOK
  <1>6. Only(r) /\ req'[r].pc = "idle"
    BY <1>1, FinishFacts, IdleFacts DEF GatewayIInv
  <1>7. req[r].pc \notin Gated /\ req'[r].pc \notin Gated /\ req[r].pc \in Http
    BY <1>1, <1>6 DEF Gated, Http
  <1>8. GateInv'
    BY <1>1, <1>6, <1>7, GateKeep DEF GatewayIInv
  <1>9. Acts(SubOf(r), OpOf(req[r].in), {req[r].in.repo})
    BY <1>1, <1>3
  <1>. QED
    BY <1>1, <1>2, <1>5, <1>7, <1>8, <1>9, ActEnds

(* What a checkpoint request keeps while it holds its record.              *)
LEMMA HeldKeep ==
    ASSUME GatewayIInv, NEW r \in Reqs, Only(r), Quiet, UNCHANGED <<audit, acted, touched, limits>>,
           req[r].pc \in Http, req'[r].pc \in Http => req'[r].in = req[r].in, req'[r].pc \notin Byom
    PROVE  ChainInv' /\ SlotInv' /\ SpendInv'
  <1>1. /\ UNCHANGED <<acted, touched>> /\ UNCHANGED <<inflight, slots, waiting>>
        /\ UNCHANGED <<bucket, spent, env, clock>> /\ world' = world /\ Audited
    BY DEF limits, Quiet, Audited
  <1>2. req[r].pc \notin Byom
    BY DEF Http, Gated, Byom
  <1>3. ChainInv'
    BY <1>1, ChainKeep DEF GatewayIInv
  <1>. QED
    BY <1>1, <1>2, <1>3, SlotKeep, SpendKeep DEF GatewayIInv

(* A request goes on with its grant: from one HTTP state to another.       *)
LEMMA HeldOK ==
    ASSUME NEW x, ReqOK(x), x.pc \in Http, x.in.route = "checkpoint", NEW y, IsReq(y), y.pc \in Gated,
           y.in = x.in, y.m = x.m, y.grant = x.grant, y.left = x.left
    PROVE  ReqOK(y)
  <1>1. /\ x.pc # "idle" /\ y.pc # "idle" /\ y.pc \in Http /\ y.pc \in Pcs /\ y.pc \notin Byom
    BY DEF Http, Gated, Pcs, Byom
  <1>2. HttpWithin(x) /\ InputOK(x.in) /\ x.m \in Membership /\ x.left \in 0 .. MaxLines
    BY <1>1 DEF ReqOK
  <1>3. HttpWithin(y)
    BY <1>2 DEF HttpWithin
  <1>. QED
    BY <1>1, <1>2, <1>3 DEF ReqOK

(* A checkpoint request takes the write gate.                              *)
LEMMA CheckpointStartStep ==
    ASSUME GatewayIInv, NEW r \in Reqs, CheckpointStart(r)
    PROVE  GatewayIInv'
  <1>1. /\ Up /\ req[r].pc = "allowed" /\ req[r].in.route = "checkpoint" /\ Goto(r, "fetching")
        /\ writeGate = NoReq /\ writeGate' = r /\ UNCHANGED <<audit, acted, touched, limits>>
        /\ UNCHANGED anchors
    BY DEF CheckpointStart, TakeGate, At
  <1>2. Quiet
    BY DEF CheckpointStart, plane, Surroundings, Quiet
  <1>3. SubOf(r) = req[r].in.tok.sub /\ ReqOK(req[r]) /\ IsReq(req[r])
    BY <1>1, SubFacts DEF GatewayIInv
  <1>4. /\ Only(r) /\ IsReq(req'[r]) /\ req'[r].pc = "fetching"
        /\ req'[r].in = req[r].in /\ req'[r].m = req[r].m /\ req'[r].grant = req[r].grant
        /\ req'[r].left = req[r].left
    BY <1>1, <1>3, GotoFacts DEF GatewayIInv
  <1>5. req[r].pc \in Http /\ req'[r].pc \in Gated /\ req'[r].pc \notin Byom
    BY <1>1, <1>4 DEF Http, Gated, Byom
  <1>6. ReqOK(req'[r])
    BY <1>1, <1>3, <1>4, <1>5, HeldOK
  <1>7. req[r].m = control.members[req[r].in.tok.sub] /\ req[r].m # NoMember
    BY <1>1 DEF GatewayIInv, ReqInv, Admitted, Http
  <1>8. ChainInv' /\ SlotInv' /\ SpendInv'
    BY <1>1, <1>2, <1>4, <1>5, HeldKeep
  <1>9. GateInv'
    <2>1. \A q \in Reqs : req[q].pc \notin Gated
      BY <1>1, GatewayAssumption DEF GatewayIInv, GateInv, NoReq
    <2>2. \A q \in Reqs : (req'[q].pc \in Gated <=> q = r) /\ req'[q].pc # "binding"
      BY <1>4, <1>5, <2>1 DEF Only, Gated
    <2>3. CheckpointsChain'
      BY <1>1 DEF GatewayIInv, GateInv, CheckpointsChain
    <2>. QED
      BY <1>1, <2>2, <2>3 DEF GatewayIInv, GateInv
  <1>. QED
    BY <1>1, <1>2, <1>4, <1>6, <1>7, <1>8, <1>9, QuietStep

(* The head cannot be fetched: the write gate is free again.               *)
LEMMA CheckpointRefusedStep ==
    ASSUME GatewayIInv, NEW r \in Reqs, CheckpointRefused(r)
    PROVE  GatewayIInv'
  <1>1. /\ Up /\ req[r].pc = "fetching" /\ Finish(r)
        /\ writeGate' = NoReq /\ UNCHANGED <<audit, acted, touched, limits>>
        /\ UNCHANGED anchors
    BY DEF CheckpointRefused, At
  <1>2. Quiet
    BY DEF CheckpointRefused, plane, Surroundings, Quiet
  <1>3. Only(r) /\ req'[r].pc = "idle"
    BY <1>1, FinishFacts, IdleFacts DEF GatewayIInv
  <1>4. req[r].pc \in Http /\ req[r].pc \in Gated /\ req'[r].pc \notin Http \cup Byom \cup Gated
    BY <1>1, <1>3 DEF Http, Gated, Byom
  <1>5. ChainInv' /\ SlotInv' /\ SpendInv'
    BY <1>1, <1>2, <1>3, <1>4, HeldKeep
  <1>6. GateInv'
    <2>1. \A q \in Reqs \ {r} : req[q].pc \notin Gated
      BY <1>4 DEF GatewayIInv, GateInv
    <2>2. \A q \in Reqs : req'[q].pc \notin Gated /\ req'[q].pc # "binding" /\ q # NoReq
      BY <1>3, <1>4, <2>1, GatewayAssumption DEF Only, Gated, NoReq
    <2>3. CheckpointsChain'
      BY <1>1 DEF GatewayIInv, GateInv, CheckpointsChain
    <2>. QED
      BY <1>1, <2>2, <2>3 DEF GatewayIInv, GateInv
  <1>. QED
    BY <1>1, <1>2, <1>5, <1>6, QuietFinish

(* The head is fetched and the latest record of the repo read.             *)
LEMMA CheckpointBindStep ==
    ASSUME GatewayIInv, NEW r \in Reqs, CheckpointBind(r)
    PROVE  GatewayIInv'
  <1>1. /\ Up /\ req[r].pc = "fetching" /\ Binds(r, "binding", Latest(req[r].in.repo))
        /\ UNCHANGED writeGate /\ UNCHANGED <<audit, acted, touched, limits>>
        /\ UNCHANGED anchors
    BY DEF CheckpointBind, At, Binds
  <1>2. Quiet
    BY DEF CheckpointBind, plane, Surroundings, Quiet
  <1>3. SubOf(r) = req[r].in.tok.sub /\ ReqOK(req[r]) /\ IsReq(req[r])
    BY <1>1, SubFacts DEF GatewayIInv
  <1>4. /\ Only(r) /\ IsReq(req'[r]) /\ req'[r].pc = "binding"
        /\ req'[r].prev = Latest(req[r].in.repo)
        /\ req'[r].in = req[r].in /\ req'[r].m = req[r].m /\ req'[r].grant = req[r].grant
        /\ req'[r].left = req[r].left
    BY <1>1, <1>3, BindFacts DEF GatewayIInv
  <1>5. req[r].pc \in Http /\ req[r].pc \in Gated /\ req'[r].pc \in Gated /\ req'[r].pc \notin Byom
    BY <1>1, <1>4 DEF Http, Gated, Byom
  <1>6. req[r].in.route = "checkpoint"
    BY <1>3, <1>5 DEF ReqOK
  <1>7. ReqOK(req'[r])
    BY <1>3, <1>4, <1>5, <1>6, HeldOK
  <1>8. req[r].m = control.members[req[r].in.tok.sub] /\ req[r].m # NoMember
    BY <1>5 DEF GatewayIInv, ReqInv, Admitted, Http
  <1>9. ChainInv' /\ SlotInv' /\ SpendInv'
    BY <1>1, <1>2, <1>4, <1>5, HeldKeep
  <1>10. GateInv'
    <2>1. \A t : Latest(t)' = Latest(t)
      BY <1>1 DEF Latest
    <2>2. \A q \in Reqs : req'[q].pc \in Gated <=> writeGate' = q
      BY <1>1, <1>4, <1>5 DEF Only, GatewayIInv, GateInv
    <2>3. \A q \in Reqs : req'[q].pc = "binding" => req'[q].prev = Latest(req'[q].in.repo)
      BY <1>4 DEF Only, GatewayIInv, GateInv
    <2>4. CheckpointsChain'
      BY <1>1 DEF GatewayIInv, GateInv, CheckpointsChain
    <2>. QED
      BY <1>1, <2>1, <2>2, <2>3, <2>4 DEF GatewayIInv, GateInv
  <1>. QED
    BY <1>1, <1>2, <1>4, <1>7, <1>8, <1>9, <1>10, QuietStep

(* A checkpoint that names the latest of its repo extends the chain.       *)
LEMMA ChainExtends ==
    ASSUME GateInv, NEW t \in Repos, NEW p, p = Latest(t),
           anchors' = Append(anchors, [repo |-> t, prev |-> p])
    PROVE  CheckpointsChain' /\ anchors' \in Seq([repo : Repos, prev : Prevs])
  <1> DEFINE n == Len(anchors)
             a == [repo |-> t, prev |-> p]
             Set == [repo : Repos, prev : Prevs]
  <1>1. anchors \in Seq(Set) /\ n \in Nat /\ DOMAIN anchors = 1 .. n
    BY DEF GateInv
  <1>2. {k \in DOMAIN anchors : anchors[k].repo = t} \in SUBSET Nat
    BY <1>1
  <1>3. p \in Prevs
    BY <1>2 DEF Latest, Prevs
  <1>4. a \in Set
    BY <1>3
  <1> HIDE DEF Set, n
  <1>5. /\ anchors' \in Seq(Set) /\ DOMAIN anchors' = 1 .. n + 1
        /\ anchors'[n + 1] = a /\ \A k \in 1 .. n : anchors'[k] = anchors[k]
    <2>1. anchors' = Append(anchors, a)
      OBVIOUS
    <2> HIDE DEF a
    <2>. QED
      BY <1>1, <1>4, <2>1, AppendProperties DEF n
  <1>6. ASSUME NEW k \in DOMAIN anchors'
        PROVE  anchors'[k].prev = Max({0} \cup {j \in 1 .. k - 1 : anchors'[j].repo = anchors'[k].repo})
    <2>1. CASE k \in 1 .. n
      <3>1. anchors'[k] = anchors[k]
        BY <1>5, <2>1
      <3>2. \A j \in 1 .. k - 1 : anchors'[j] = anchors[j]
        BY <1>1, <1>5, <2>1
      <3>3. {j \in 1 .. k - 1 : anchors'[j].repo = anchors'[k].repo}
              = {j \in 1 .. k - 1 : anchors[j].repo = anchors[k].repo}
        BY <3>1, <3>2
      <3>4. anchors[k].prev = Max({0} \cup {j \in 1 .. k - 1 : anchors[j].repo = anchors[k].repo})
        BY <1>1, <2>1 DEF GateInv, CheckpointsChain
      <3>. QED
        BY <3>1, <3>3, <3>4
    <2>2. CASE k = n + 1
      <3>1. anchors'[k].repo = t /\ anchors'[k].prev = p
        BY <1>5, <2>2
      <3>2. 1 .. k - 1 = DOMAIN anchors
        BY <1>1, <2>2
      <3>3. {j \in 1 .. k - 1 : anchors'[j].repo = anchors'[k].repo}
              = {j \in DOMAIN anchors : anchors[j].repo = t}
        BY <1>1, <1>5, <3>1, <3>2
      <3>. QED
        BY <3>1, <3>3 DEF Latest
    <2>3. k \in 1 .. n \/ k = n + 1
      BY <1>1, <1>5
    <2>. QED
      BY <2>1, <2>2, <2>3
  <1>. QED
    BY <1>5, <1>6 DEF CheckpointsChain, Set

(* The record is stored before the gate is given back.                     *)
LEMMA CheckpointStoreStep ==
    ASSUME GatewayIInv, NEW r \in Reqs, CheckpointStore(r)
    PROVE  GatewayIInv'
  <1> DEFINE t == req[r].in.repo
  <1>1. /\ Up /\ req[r].pc = "binding" /\ Finish(r)
        /\ writeGate' = NoReq /\ UNCHANGED audit /\ UNCHANGED limits
        /\ anchors' = Append(anchors, [repo |-> t, prev |-> req[r].prev])
        /\ Acts(SubOf(r), "write", {t})
    BY DEF CheckpointStore, At
  <1>2. Quiet
    BY DEF CheckpointStore, plane, Surroundings, Quiet
  <1>3. InputOK(req[r].in) /\ ReqOK(req[r])
    BY <1>1, SubFacts DEF GatewayIInv
  <1>4. req[r].pc \in Http /\ req[r].pc \in Gated
    BY <1>1 DEF Http, Gated
  <1>5. req[r].in.route = "checkpoint"
    BY <1>3, <1>4 DEF ReqOK
  <1>6. t \in Repos /\ OpOf(req[r].in) = "write" /\ {t} \in SUBSET Repos
    BY <1>3, <1>5 DEF InputOK, OpOf
  <1>7. Only(r) /\ req'[r].pc = "idle"
    BY <1>1, FinishFacts, IdleFacts DEF GatewayIInv
  <1>8. GateInv'
    <2>1. \A q \in Reqs \ {r} : req[q].pc \notin Gated
      BY <1>4 DEF GatewayIInv, GateInv
    <2>2. \A q \in Reqs : req'[q].pc \notin Gated /\ req'[q].pc # "binding" /\ q # NoReq
      BY <1>7, <2>1, GatewayAssumption DEF Only, Gated, NoReq
    <2>3. req[r].prev = Latest(t)
      BY <1>1 DEF GatewayIInv, GateInv
    <2>4. CheckpointsChain' /\ anchors' \in Seq([repo : Repos, prev : Prevs])
      BY <1>1, <1>6, <2>3, ChainExtends DEF GatewayIInv
    <2>. QED
      BY <1>1, <2>2, <2>4 DEF GateInv
  <1>9. Acts(SubOf(r), OpOf(req[r].in), {t})
    BY <1>1, <1>6
  <1>. QED
    BY <1>1, <1>2, <1>4, <1>6, <1>8, <1>9, ActEnds

(* try_spend: the tokens a bucket holds now, with what its owner has spent *)
(* already, fit the burst and the refill since the process started.        *)
LEMMA TokensFacts ==
    ASSUME EnvInv, SpendInv, Up, NEW s \in Subs
    PROVE  /\ Tokens(s) \in 0 .. Burst
           /\ spent[s] + Tokens(s) <= Burst + Refill * (clock - env.since)
           /\ env.since \in Nat /\ env.since <= clock /\ clock \in Nat
  <1>1. Burst \in Nat /\ Refill \in Nat
    BY GatewayAssumption
  <1>2. env \in RunEnvs /\ env.since <= clock /\ clock \in Nat
    BY DEF EnvInv, NoEnv, Up
  <1>3. env.since \in Nat
    BY <1>2 DEF RunEnvs
  <1>4. /\ bucket[s].tokens \in 0 .. Burst /\ bucket[s].last \in Int /\ spent[s] \in Nat
    BY DEF SpendInv
  <1>5. CASE bucket[s].last < 0
    <2>1. Tokens(s) = Burst /\ spent[s] = 0
      BY <1>5 DEF Tokens, SpendInv
    <2>2. Refill * (clock - env.since) \in Nat
      BY <1>1, <1>2, <1>3
    <2>. QED
      BY <1>1, <1>2, <1>3, <2>1, <2>2
  <1>6. CASE bucket[s].last >= 0
    <2> DEFINE last == bucket[s].last
               had == bucket[s].tokens
               new == Refill * (clock - last)
               old == Refill * (last - env.since)
               all == Refill * (clock - env.since)
    <2>1. /\ env.since <= last /\ last <= clock
          /\ spent[s] + had <= Burst + old
      BY <1>6 DEF SpendInv
    <2>2. last \in Nat
      BY <1>4, <1>6
    <2>3. new \in Nat /\ old \in Nat /\ all \in Nat
      BY <1>1, <1>2, <1>3, <2>1, <2>2
    <2>4. all = old + new
      BY <1>1, <1>2, <1>3, <2>2
    <2>5. Tokens(s) = Min({Burst, had + new})
      BY <1>4, <1>6 DEF Tokens
    <2> HIDE DEF new, old, all, had, last
    <2>6. had \in Nat
      BY <1>4 DEF had
    <2>7. {Burst, had + new} \in SUBSET Nat
      BY <1>1, <2>3, <2>6
    <2>8. Min({Burst, had + new}) \in {Burst, had + new}
          /\ \A y \in {Burst, had + new} : Min({Burst, had + new}) <= y
      BY <2>7, MinIn
    <2>9. Tokens(s) \in Nat /\ Tokens(s) <= Burst /\ Tokens(s) <= had + new
      BY <2>5, <2>7, <2>8
    <2>10. spent[s] + Tokens(s) <= Burst + all
      BY <1>1, <1>4, <2>1, <2>3, <2>4, <2>6, <2>9
    <2>. QED
      BY <1>1, <1>2, <1>3, <2>9, <2>10 DEF all
  <1>. QED
    BY <1>4, <1>5, <1>6

(* A call that is paid for, or a bucket that is only brought up to date.   *)
LEMMA SpendStep ==
    ASSUME EnvInv, SpendInv, Up, UNCHANGED <<env, clock>>, NEW s \in Subs, NEW n \in Nat, n <= Tokens(s),
           bucket' = [bucket EXCEPT ![s] = [tokens |-> Tokens(s) - n, last |-> clock]],
           spent' = [spent EXCEPT ![s] = @ + n]
    PROVE  SpendInv'
  <1>1. /\ Tokens(s) \in 0 .. Burst
        /\ spent[s] + Tokens(s) <= Burst + Refill * (clock - env.since)
        /\ env.since \in Nat /\ env.since <= clock /\ clock \in Nat
    BY TokensFacts
  <1>2. bucket \in [Subs -> [tokens : 0 .. Burst, last : Int]] /\ spent \in [Subs -> Nat]
        /\ Burst \in Nat
    BY GatewayAssumption DEF SpendInv
  <1> DEFINE t == Tokens(s) - n
             b == [tokens |-> t, last |-> clock]
             all == Refill * (clock - env.since)
  <1>3. t \in 0 .. Burst
    BY <1>1, <1>2
  <1>4. b \in [tokens : 0 .. Burst, last : Int]
    BY <1>1, <1>3
  <1>5. bucket' = [bucket EXCEPT ![s] = b]
    OBVIOUS
  <1>6. spent[s] \in Nat
    BY <1>2
  <1>6a. all \in Int
    BY <1>1, GatewayAssumption
  <1>6b. spent[s] + Tokens(s) <= Burst + all /\ Tokens(s) \in Int
    BY <1>1, <1>2
  <1> HIDE DEF all
  <1>7. (spent[s] + n) + t <= Burst + all
    BY <1>2, <1>6, <1>6a, <1>6b
  <1>8. b.tokens = t /\ b.last = clock
    OBVIOUS
  <1> HIDE DEF t, b
  <1>9. /\ bucket' \in [Subs -> [tokens : 0 .. Burst, last : Int]] /\ spent' \in [Subs -> Nat]
        /\ bucket'[s] = b /\ spent'[s] = spent[s] + n
        /\ \A u \in Subs \ {s} : bucket'[u] = bucket[u] /\ spent'[u] = spent[u]
    BY <1>2, <1>4, <1>5
  <1>10. Up' /\ env' = env /\ clock' = clock
    BY DEF Up
  <1>11. ASSUME NEW u \in Subs
         PROVE  /\ bucket'[u].last >= -1
                /\ bucket'[u].last < 0 => spent'[u] = 0
                /\ bucket'[u].last >= 0 =>
                     /\ Up' /\ env.since <= bucket'[u].last /\ bucket'[u].last <= clock
                     /\ spent'[u] + bucket'[u].tokens <= Burst + Refill * (bucket'[u].last - env.since)
    <2>1. CASE u = s
      BY <1>1, <1>7, <1>8, <1>9, <1>10, <2>1 DEF all
    <2>2. CASE u # s
      BY <1>9, <1>10, <2>2 DEF SpendInv
    <2>. QED
      BY <2>1, <2>2
  <1>. QED
    BY <1>9, <1>10, <1>11 DEF SpendInv

(* The authority that a BYOM request is queued with.                       *)
LEMMA ByomGrantWithin ==
    ASSUME GatewayIInv, NEW r \in Reqs, InputOK(req[r].in), req[r].m \in Membership,
           NEW x, x.grant = GrantFor(r), x.m = req[r].m, x.in = req[r].in
    PROVE  ByomWithin(x)
  <1> DEFINE i == req[r].in
             g == MintGrant(SubOf(r), req[r].m, clock)
  <1>1. DOMAIN i.tok.tenants \subseteq Nat
    BY DEF InputOK
  <1>2. CASE ByomOidc(i.tok)
    <2>1. x.grant = g /\ i.tok.kind = "oidc"
      BY <1>2 DEF GrantFor, ByomOidc
    <2>. QED
      BY <2>1, MintWithin DEF ByomWithin
  <1>3. CASE ~ByomOidc(i.tok)
    <2>1. x.grant = AttenuateGrant(g, i.tok, clock)
      BY <1>3 DEF GrantFor
    <2>. QED
      BY <1>1, <2>1, AttenuatedWithin DEF ByomWithin
  <1>. QED
    BY <1>2, <1>3

(* The requests that hold a place are finitely many.                       *)
LEMMA HoldingFinite ==
    ASSUME NEW s
    PROVE  /\ IsFiniteSet(Holding(s)) /\ Cardinality(Holding(s)) \in Nat
           /\ IsFiniteSet(Running) /\ Cardinality(Running) \in Nat
  <1>1. IsFiniteSet(Reqs)
    BY GatewayAssumption
  <1>2. Holding(s) \in SUBSET Reqs /\ Running \in SUBSET Reqs
    BY DEF Holding, Running
  <1>. QED
    BY <1>1, <1>2, FS_Subset, FS_CardinalityType

(* A request takes a place and enters the queue.                           *)
LEMMA SlotEnters ==
    ASSUME SlotInv, NEW r \in Reqs, Only(r), req[r].pc \notin Byom, req'[r].pc = "queued",
           NEW s \in Subs, req'[r].in.tok.sub = s, inflight[s] < PerPrincipal,
           inflight' = [inflight EXCEPT ![s] = @ + 1], waiting' = Append(waiting, r), slots' = slots
    PROVE  SlotInv'
  <1>1. Running' = Running
    BY DEF Running, Only, Byom
  <1>2. Queued' = Queued \cup {r} /\ r \notin Queued
    BY DEF Queued, Only, Byom
  <1>3. Holding(s)' = Holding(s) \cup {r} /\ r \notin Holding(s)
    BY DEF Holding, Only, Byom
  <1>4. \A u \in Subs \ {s} : Holding(u)' = Holding(u)
    BY DEF Holding, Only, Byom
  <1>5. inflight \in [Subs -> 0 .. PerPrincipal] /\ PerPrincipal \in Nat
    BY GatewayAssumption DEF SlotInv
  <1>6. /\ inflight' \in [Subs -> 0 .. PerPrincipal] /\ inflight'[s] = inflight[s] + 1
        /\ \A u \in Subs \ {s} : inflight'[u] = inflight[u]
    BY <1>5
  <1>7. inflight'[s] = Cardinality(Holding(s)')
    <2> DEFINE H == Holding(s)
    <2>1. IsFiniteSet(H) /\ inflight[s] = Cardinality(H) /\ r \notin H
      BY <1>3, HoldingFinite DEF SlotInv
    <2>2. Holding(s)' = H \cup {r}
      BY <1>3
    <2> HIDE DEF H
    <2>3. Cardinality(H \cup {r}) = Cardinality(H) + 1
      BY <2>1, FS_AddElement
    <2>. QED
      BY <1>6, <2>1, <2>2, <2>3
  <1>8. \A u \in Subs : inflight'[u] = Cardinality(Holding(u)')
    BY <1>4, <1>6, <1>7 DEF SlotInv
  <1> DEFINE n == Len(waiting)
  <1>9. waiting \in Seq(Reqs) /\ n \in Nat /\ DOMAIN waiting = 1 .. n
    BY DEF SlotInv
  <1>10. /\ waiting' \in Seq(Reqs) /\ DOMAIN waiting' = 1 .. n + 1
         /\ waiting'[n + 1] = r /\ \A k \in 1 .. n : waiting'[k] = waiting[k]
    BY <1>9, AppendProperties
  <1>11. \A k \in 1 .. n : waiting[k] \in Queued
    BY <1>9 DEF SlotInv
  <1>12. {waiting'[k] : k \in DOMAIN waiting'} = Queued'
    <2>1. {waiting[k] : k \in 1 .. n} = Queued
      BY <1>9 DEF SlotInv
    <2>2. \A k \in DOMAIN waiting' : k \in 1 .. n \/ k = n + 1
      BY <1>9, <1>10
    <2>3. 1 .. n \subseteq DOMAIN waiting' /\ n + 1 \in DOMAIN waiting'
      BY <1>9, <1>10
    <2> HIDE DEF n
    <2>. QED
      BY <1>2, <1>10, <2>1, <2>2, <2>3
  <1>13. \A j, k \in DOMAIN waiting' : waiting'[j] = waiting'[k] => j = k
    <2>1. \A k \in DOMAIN waiting' : k \in 1 .. n \/ k = n + 1
      BY <1>9, <1>10
    <2>2. \A j, k \in 1 .. n : waiting[j] = waiting[k] => j = k
      BY <1>9 DEF SlotInv
    <2>3. \A k \in 1 .. n : waiting[k] # r
      BY <1>2, <1>11
    <2>4. \A k \in DOMAIN waiting' : waiting'[k] = r => k = n + 1
      BY <1>10, <2>1, <2>3
    <2>5. ASSUME NEW j \in DOMAIN waiting', NEW k \in DOMAIN waiting', waiting'[j] = waiting'[k]
          PROVE  j = k
      <3>1. CASE j = n + 1 \/ k = n + 1
        BY <1>10, <2>4, <2>5, <3>1
      <3>2. CASE j \in 1 .. n /\ k \in 1 .. n
        <4>1. waiting[j] = waiting[k]
          BY <1>10, <2>5, <3>2
        <4>. QED
          BY <2>2, <3>2, <4>1
      <3>. QED
        BY <2>1, <3>1, <3>2
    <2>. QED
      BY <2>5
  <1>. QED
    BY <1>1, <1>6, <1>8, <1>10, <1>12, <1>13 DEF SlotInv

(* The lines are capped, paid for, and a place is claimed.                 *)
LEMMA ByomLimitsStep ==
    ASSUME GatewayIInv, NEW r \in Reqs, ByomLimits(r)
    PROVE  GatewayIInv'
  <1> DEFINE s == SubOf(r)
             n == req[r].in.calls
  <1>1. /\ Up /\ req[r].pc = "limits" /\ UNCHANGED <<audit, acted, touched>>
        /\ UNCHANGED <<writeGate, anchors>>
    BY DEF ByomLimits, At
  <1>2. Quiet
    BY DEF ByomLimits, plane, Surroundings, Quiet
  <1>3. \/ Finish(r) /\ UNCHANGED <<bucket, inflight, slots, waiting, spent>>
        \/ Refresh(s) /\ Finish(r) /\ UNCHANGED <<inflight, slots, waiting, spent>>
        \/ /\ n <= Tokens(s) /\ Spend(s, n) /\ spent' = [spent EXCEPT ![s] = @ + n]
           /\ Finish(r) /\ UNCHANGED <<inflight, slots, waiting>>
        \/ /\ n <= Tokens(s) /\ Spend(s, n) /\ spent' = [spent EXCEPT ![s] = @ + n]
           /\ req[r].in.lines <= MaxLines /\ slots' = slots /\ inflight[s] < PerPrincipal
           /\ inflight' = [inflight EXCEPT ![s] = @ + 1] /\ waiting' = Append(waiting, r)
           /\ Queues(r, "queued", GrantFor(r), n)
    BY DEF ByomLimits, limits, Queues
  <1>4. s \in Subs /\ s = req[r].in.tok.sub /\ InputOK(req[r].in) /\ ReqOK(req[r]) /\ IsReq(req[r])
    BY <1>1, SubFacts DEF GatewayIInv
  <1>5. n \in Nat /\ n <= req[r].in.lines /\ req[r].in.lines \in Nat /\ req[r].m \in Membership
    BY <1>4 DEF InputOK, ReqOK
  <1>6. /\ req[r].pc \notin Byom /\ req[r].pc \notin Http /\ req[r].pc \notin Gated
        /\ "idle" \notin Byom \cup Http \cup Gated
        /\ "queued" \in Byom /\ "queued" \notin Http \cup Gated /\ "queued" \in Pcs
    BY <1>1 DEF Byom, Http, Gated, Pcs
  <1>7. EnvInv /\ SpendInv /\ UNCHANGED <<env, clock>> /\ world' = world /\ Audited
    BY <1>1, <1>2 DEF GatewayIInv, Quiet, Audited
  <1> HIDE DEF s, n
  <1>8. SpendInv'
    <2>1. CASE UNCHANGED <<bucket, spent>>
      BY <1>7, <2>1, SpendKeep
    <2>2. CASE Refresh(s) /\ UNCHANGED spent
      <3>1. Tokens(s) \in 0 .. Burst /\ spent \in [Subs -> Nat]
        BY <1>1, <1>4, <1>7, TokensFacts DEF SpendInv
      <3>2. 0 \in Nat /\ 0 <= Tokens(s) /\ Tokens(s) - 0 = Tokens(s)
        BY <3>1
      <3>3. bucket' = [bucket EXCEPT ![s] = [tokens |-> Tokens(s) - 0, last |-> clock]]
        BY <2>2, <3>2 DEF Refresh
      <3>4. spent' = [spent EXCEPT ![s] = @ + 0]
        BY <1>4, <2>2, <3>1
      <3>. QED
        BY <1>1, <1>4, <1>7, <3>2, <3>3, <3>4, SpendStep
    <2>3. CASE n <= Tokens(s) /\ Spend(s, n) /\ spent' = [spent EXCEPT ![s] = @ + n]
      <3>1. bucket' = [bucket EXCEPT ![s] = [tokens |-> Tokens(s) - n, last |-> clock]]
        BY <2>3 DEF Spend
      <3>. QED
        BY <1>1, <1>4, <1>5, <1>7, <2>3, <3>1, SpendStep
    <2>. QED
      BY <1>3, <2>1, <2>2, <2>3
  <1>9. CASE Finish(r) /\ UNCHANGED <<inflight, slots, waiting>>
    <2>1. Only(r) /\ req'[r].pc = "idle"
      BY <1>9, FinishFacts, IdleFacts DEF GatewayIInv
    <2>2. ChainInv'
      BY <1>1, <1>6, <1>7, <2>1, ChainKeep DEF GatewayIInv
    <2>3. SlotInv' /\ GateInv'
      BY <1>1, <1>6, <1>9, <2>1, SlotKeep, GateKeep DEF GatewayIInv
    <2>. QED
      BY <1>1, <1>2, <1>8, <1>9, <2>2, <2>3, QuietFinish
  <1>10. CASE /\ req[r].in.lines <= MaxLines /\ slots' = slots /\ inflight[s] < PerPrincipal
              /\ inflight' = [inflight EXCEPT ![s] = @ + 1] /\ waiting' = Append(waiting, r)
              /\ Queues(r, "queued", GrantFor(r), n)
    <2>1. /\ Only(r) /\ IsReq(req'[r]) /\ req'[r].pc = "queued" /\ req'[r].grant = GrantFor(r)
          /\ req'[r].left = n /\ req'[r].in = req[r].in /\ req'[r].m = req[r].m
      BY <1>4, <1>10, QueueFacts DEF GatewayIInv
    <2>2. ByomWithin(req'[r])
      BY <1>4, <1>5, <2>1, ByomGrantWithin
    <2>3. n \in 0 .. MaxLines
      BY <1>5, <1>10, GatewayAssumption
    <2>4. ReqOK(req'[r])
      BY <1>4, <1>5, <1>6, <2>1, <2>2, <2>3 DEF ReqOK
    <2>5. req[r].m = control.members[s] /\ req[r].m # NoMember
      BY <1>1, <1>4 DEF GatewayIInv, ReqInv, Admitted
    <2>6. ChainInv'
      BY <1>1, <1>6, <1>7, <2>1, ChainKeep DEF GatewayIInv
    <2>7. GateInv'
      BY <1>1, <1>6, <2>1, GateKeep DEF GatewayIInv
    <2>8. SlotInv'
      BY <1>4, <1>6, <1>10, <2>1, SlotEnters DEF GatewayIInv
    <2>. QED
      BY <1>1, <1>2, <1>4, <1>8, <2>1, <2>4, <2>5, <2>6, <2>7, <2>8, QuietStep
  <1>. QED
    BY <1>3, <1>9, <1>10

(* The first waiter is given a permit.                                     *)
LEMMA SlotStarts ==
    ASSUME SlotInv, NEW r \in Reqs, Only(r), req[r].pc = "queued", req'[r].pc = "running",
           req'[r].in = req[r].in, slots > 0, Head(waiting) = r,
           slots' = slots - 1, waiting' = Tail(waiting), inflight' = inflight
    PROVE  SlotInv'
  <1>1. Running' = Running \cup {r} /\ r \notin Running
    BY DEF Running, Only
  <1>2. Queued' = Queued \ {r} /\ r \in Queued
    BY DEF Queued, Only
  <1>3. \A u \in Subs : Holding(u)' = Holding(u)
    BY DEF Holding, Only, Byom
  <1>4. slots' \in Nat /\ slots' + Cardinality(Running') = MaxSlots
    <2> DEFINE H == Running
    <2>1. IsFiniteSet(H) /\ Cardinality(H) \in Nat /\ r \notin H
      BY <1>1, HoldingFinite
    <2>2. Running' = H \cup {r}
      BY <1>1
    <2>3. slots \in Nat /\ slots + Cardinality(H) = MaxSlots
      BY DEF SlotInv
    <2> HIDE DEF H
    <2>4. Cardinality(H \cup {r}) = Cardinality(H) + 1
      BY <2>1, FS_AddElement
    <2>. QED
      BY <2>1, <2>2, <2>3, <2>4
  <1> DEFINE n == Len(waiting)
  <1>5. waiting \in Seq(Reqs) /\ n \in Nat /\ DOMAIN waiting = 1 .. n
    BY DEF SlotInv
  <1>6. {waiting[k] : k \in DOMAIN waiting} = Queued
    BY DEF SlotInv
  <1>7. n > 0 /\ waiting # <<>>
    <2>1. PICK k \in DOMAIN waiting : waiting[k] = r
      BY <1>2, <1>6
    <2>. QED
      BY <1>5, <2>1
  <1>8. waiting[1] = r
    BY <1>5, <1>7
  <1>9. /\ waiting' \in Seq(Reqs) /\ DOMAIN waiting' = 1 .. n - 1
        /\ \A k \in 1 .. n - 1 : waiting'[k] = waiting[k + 1]
    BY <1>5, <1>7, HeadTailProperties
  <1>10. \A j, k \in 1 .. n : waiting[j] = waiting[k] => j = k
    BY <1>5 DEF SlotInv
  <1>11. \A j, k \in DOMAIN waiting' : waiting'[j] = waiting'[k] => j = k
    <2>1. ASSUME NEW j \in DOMAIN waiting', NEW k \in DOMAIN waiting', waiting'[j] = waiting'[k]
          PROVE  j = k
      <3>1. j \in 1 .. n - 1 /\ k \in 1 .. n - 1
        BY <1>9
      <3>2. j + 1 \in 1 .. n /\ k + 1 \in 1 .. n
        BY <1>5, <3>1
      <3>3. waiting[j + 1] = waiting[k + 1]
        BY <1>9, <2>1, <3>1
      <3>4. j + 1 = k + 1
        BY <1>10, <3>2, <3>3
      <3>. QED
        BY <3>1, <3>4
    <2>. QED
      BY <2>1
  <1>12. {waiting'[k] : k \in DOMAIN waiting'} = Queued'
    <2>1. ASSUME NEW q \in Queued' PROVE \E k \in DOMAIN waiting' : waiting'[k] = q
      <3>1. PICK k \in DOMAIN waiting : waiting[k] = q
        BY <1>2, <1>6
      <3>2. k \in 1 .. n /\ k # 1
        BY <1>2, <1>5, <1>8, <3>1
      <3>3. k - 1 \in 1 .. n - 1 /\ (k - 1) + 1 = k
        BY <1>5, <3>2
      <3>4. waiting'[k - 1] = waiting[(k - 1) + 1]
        BY <1>9, <3>3
      <3>. QED
        BY <1>9, <3>1, <3>3, <3>4
    <2>2. ASSUME NEW k \in DOMAIN waiting' PROVE waiting'[k] \in Queued'
      <3>1. k \in 1 .. n - 1 /\ k + 1 \in 1 .. n /\ k + 1 # 1 /\ 1 \in 1 .. n
        BY <1>5, <1>7, <1>9
      <3>2. waiting'[k] = waiting[k + 1] /\ waiting[k + 1] # waiting[1]
        BY <1>9, <1>10, <3>1
      <3>3. waiting[k + 1] \in Queued
        BY <1>5, <1>6, <3>1
      <3>. QED
        BY <1>2, <1>8, <3>2, <3>3
    <2>. QED
      BY <2>1, <2>2
  <1>13. \A s \in Subs : inflight'[s] = Cardinality(Holding(s)')
    BY <1>3 DEF SlotInv
  <1>. QED
    BY <1>4, <1>9, <1>11, <1>12, <1>13 DEF SlotInv

(* What a BYOM request keeps while it holds its place.                     *)
LEMMA PlaceKeep ==
    ASSUME GatewayIInv, NEW r \in Reqs, Only(r), Quiet, UNCHANGED <<bucket, spent>>,
           UNCHANGED <<writeGate, anchors>>, req[r].pc \in Byom, req'[r].pc \in Byom \cup {"idle"}
    PROVE  SpendInv' /\ GateInv' /\ req'[r].pc \notin Http /\ req[r].pc \notin Http
  <1>1. UNCHANGED <<bucket, spent, env, clock>>
    BY DEF Quiet
  <1>2. /\ req[r].pc \notin Gated /\ req'[r].pc \notin Gated
        /\ req[r].pc \notin Http /\ req'[r].pc \notin Http
    BY DEF Byom, Gated, Http
  <1>. QED
    BY <1>1, <1>2, SpendKeep, GateKeep DEF GatewayIInv

(* A request goes on with its grant: queued or running.                    *)
LEMMA PlaceOK ==
    ASSUME NEW x, ReqOK(x), x.pc \in Byom, NEW y, IsReq(y), y.pc \in Byom,
           y.in = x.in, y.m = x.m, y.grant = x.grant, y.left \in 0 .. MaxLines
    PROVE  ReqOK(y)
  <1>1. /\ x.pc # "idle" /\ y.pc # "idle" /\ y.pc \notin Http /\ y.pc \notin Gated /\ y.pc \in Pcs
        /\ y.pc # "authorize"
    BY DEF Http, Gated, Pcs, Byom
  <1>2. ByomWithin(x) /\ InputOK(x.in) /\ x.m \in Membership
    BY <1>1 DEF ReqOK
  <1>3. ByomWithin(y)
    BY <1>2 DEF ByomWithin
  <1>. QED
    BY <1>1, <1>2, <1>3 DEF ReqOK

(* A BYOM request in progress.                                             *)
LEMMA PlaceFacts ==
    ASSUME GatewayIInv, NEW r \in Reqs, req[r].pc \in Byom
    PROVE  /\ SubOf(r) \in Subs /\ SubOf(r) = req[r].in.tok.sub /\ ReqOK(req[r]) /\ IsReq(req[r]) /\ Up
           /\ req[r].left \in 0 .. MaxLines /\ ByomWithin(req[r])
           /\ req[r].m = control.members[SubOf(r)] /\ req[r].m # NoMember
  <1>1. req[r].pc # "idle" /\ req[r].pc \in Admitted
    BY DEF Byom, Admitted
  <1>2. /\ SubOf(r) \in Subs /\ SubOf(r) = req[r].in.tok.sub /\ ReqOK(req[r]) /\ IsReq(req[r]) /\ Up
    BY <1>1, SubFacts DEF GatewayIInv
  <1>. QED
    BY <1>1, <1>2 DEF GatewayIInv, ReqInv, ReqOK

(* A permit is handed to the first waiter.                                 *)
LEMMA ByomStartStep ==
    ASSUME GatewayIInv, NEW r \in Reqs, ByomStart(r)
    PROVE  GatewayIInv'
  <1>1. /\ Up /\ req[r].pc = "queued" /\ slots > 0 /\ Head(waiting) = r
        /\ slots' = slots - 1 /\ waiting' = Tail(waiting) /\ Goto(r, "running")
        /\ UNCHANGED <<audit, acted, touched>> /\ inflight' = inflight
        /\ UNCHANGED <<bucket, spent>> /\ UNCHANGED <<writeGate, anchors>>
    BY DEF ByomStart, At
  <1>2. Quiet
    BY DEF ByomStart, plane, Surroundings, Quiet
  <1>3. req[r].pc \in Byom /\ "running" \in Byom
    BY <1>1 DEF Byom
  <1>4. /\ SubOf(r) = req[r].in.tok.sub /\ ReqOK(req[r]) /\ IsReq(req[r])
        /\ req[r].left \in 0 .. MaxLines /\ req[r].m = control.members[SubOf(r)] /\ req[r].m # NoMember
    BY <1>3, PlaceFacts
  <1>5. /\ Only(r) /\ IsReq(req'[r]) /\ req'[r].pc = "running"
        /\ req'[r].in = req[r].in /\ req'[r].m = req[r].m /\ req'[r].grant = req[r].grant
        /\ req'[r].left = req[r].left
    BY <1>1, <1>4, GotoFacts DEF GatewayIInv
  <1>6. ReqOK(req'[r])
    BY <1>3, <1>4, <1>5, PlaceOK
  <1>7. SpendInv' /\ GateInv' /\ req'[r].pc \notin Http
    BY <1>1, <1>2, <1>3, <1>5, PlaceKeep
  <1>8. ChainInv'
    <2>1. Audited /\ world' = world /\ UNCHANGED <<acted, touched>>
      BY <1>1, <1>2 DEF Audited, Quiet
    <2>. QED
      BY <1>5, <1>7, <2>1, ChainKeep DEF GatewayIInv
  <1>9. SlotInv'
    BY <1>1, <1>5, SlotStarts DEF GatewayIInv
  <1>. QED
    BY <1>1, <1>2, <1>4, <1>5, <1>6, <1>7, <1>8, <1>9, QuietStep

(* A call that is recorded and carried out in one step.                    *)
LEMMA ChainCalls ==
    ASSUME ChainInv, EnvInv, world' = world, NEW r \in Reqs, Only(r), Room,
           NEW s \in Subs, NEW op \in Ops, Append1(s, op),
           NEW where \in SUBSET Repos, Acts(s, op, where),
           req'[r].pc \notin Http
    PROVE  ChainInv'
  <1>0. op \in Events
    BY DEF Events
  <1>1. acted' = [acted EXCEPT ![<<s, op>>] = @ + 1] /\ acted \in [Subs \X Ops -> Nat]
    BY DEF Acts, ChainInv
  <1>2. acted' \in [Subs \X Ops -> Nat]
    BY <1>1
  <1>3. touched' \subseteq Subs \X Ops \X Repos
    BY DEF Acts, ChainInv
  <1>4. Audited
    BY <1>0 DEF Audited
  <1>5. ASSUME NEW u \in Subs, NEW o \in Ops
        PROVE  acted'[<<u, o>>] + Pending(u, o)' <= audit'.of[<<u, o>>]
    <2>1. <<u, o>> \in Subs \X Events /\ <<u, o>> \in Subs \X Ops /\ <<s, op>> \in Subs \X Events
      BY <1>0 DEF Events
    <2>2. acted[<<u, o>>] + Pending(u, o) <= audit.of[<<u, o>>]
      BY DEF ChainInv, ActedIsAudited
    <2>3. audit.of[<<u, o>>] \in Nat /\ acted[<<u, o>>] \in Nat
      BY <2>1 DEF ChainInv
    <2>4. acted'[<<u, o>>] = IF <<u, o>> = <<s, op>> THEN acted[<<u, o>>] + 1 ELSE acted[<<u, o>>]
      BY <1>1, <2>1
    <2>5. audit'.of[<<u, o>>] = IF <<u, o>> = <<s, op>> THEN audit.of[<<u, o>>] + 1 ELSE audit.of[<<u, o>>]
      BY <2>1 DEF Append1, ChainInv
    <2>6. PendingSet(u, o)' \in SUBSET PendingSet(u, o)
      BY DEF PendingSet, Only
    <2>7. Pending(u, o)' <= Pending(u, o) /\ Pending(u, o)' \in Nat /\ Pending(u, o) \in Nat
      BY <2>6, PendingFinite, FS_Subset
    <2>. QED
      BY <2>2, <2>3, <2>4, <2>5, <2>7
  <1>6. ActedIsAudited'
    BY <1>5 DEF ActedIsAudited
  <1>. QED
    BY <1>2, <1>3, <1>4, <1>6, AuditedFacts DEF ChainInv

(* The repos that a call shows or writes.                                  *)
CallWhere(r, tool, t, mg) == IF tool = "neighbors" THEN CallNeighbors(r, t, mg) ELSE CallRecall(r, t, mg)
CallAllowed(r, tool, t, mg) ==
    Check(req[r].grant, RepoResource(t), ToolOp(tool), clock) /\ MetaAllows(mg, t, ToolOp(tool))

(* What a call shows, membership and the call's own grant allow.           *)
LEMMA CallWithin ==
    ASSUME GatewayIInv, NEW r \in Reqs, req[r].pc = "running", NEW tool \in Tools, NEW t \in Repos, NEW mg,
           CallAllowed(r, tool, t, mg)
    PROVE  /\ CallWhere(r, tool, t, mg) \in SUBSET Repos
           /\ \A u \in CallWhere(r, tool, t, mg) :
                 MemberMay(req[r].m, ToolOp(tool), u) /\ MetaAllows(mg, u, ToolOp(tool))
  <1>1. ByomWithin(req[r])
    BY PlaceFacts DEF Byom
  <1>2. clock \in Nat /\ ToolOp(tool) \in Ops /\ "read" \in Ops
    BY DEF GatewayIInv, EnvInv, ToolOp, Ops
  <1>3. MemberMay(req[r].m, ToolOp(tool), t) /\ MetaAllows(mg, t, ToolOp(tool))
    BY <1>1, <1>2 DEF CallAllowed, ByomWithin
  <1>4. CASE tool = "neighbors"
    <2>1. CallWhere(r, tool, t, mg) = {u \in Repos : u = t \/ CanRead(r, mg, u)}
      BY <1>4 DEF CallWhere, CallNeighbors, NeighborsReadable
    <2>2. ToolOp(tool) = "read"
      BY <1>4 DEF ToolOp
    <2>3. \A u \in Repos : CanRead(r, mg, u) => MemberMay(req[r].m, "read", u) /\ MetaAllows(mg, u, "read")
      BY <1>1, <1>2 DEF CanRead, ByomWithin
    <2>. QED
      BY <1>3, <2>1, <2>2, <2>3
  <1>5. CASE tool # "neighbors"
    <2>1. CallWhere(r, tool, t, mg) = {t}
      BY <1>5 DEF CallWhere, CallRecall
    <2>. QED
      BY <1>3, <2>1
  <1>. QED
    BY <1>4, <1>5

(* One tools/call: refused, denied, not recorded, or carried out.          *)
LEMMA ByomCallStep ==
    ASSUME GatewayIInv, NEW r \in Reqs, NEW tool \in Tools, NEW t \in Repos, NEW mg,
           ByomCall(r, tool, t, mg)
    PROVE  GatewayIInv'
  <1> DEFINE s == SubOf(r)
             op == ToolOp(tool)
             meta == IF MetaOk(r, mg) THEN mg ELSE NoMeta
  <1>1. /\ Up /\ req[r].pc = "running" /\ req[r].left > 0
        /\ UNCHANGED <<bucket, spent>> /\ UNCHANGED <<inflight, slots, waiting>>
        /\ UNCHANGED <<writeGate, anchors>>
    BY DEF ByomCall, At, limits
  <1>2. Lines(r, req[r].left - 1, meta)
    BY DEF ByomCall, Lines
  <1>3. Quiet
    BY DEF ByomCall, plane, Surroundings, Quiet
  <1>4. \/ UNCHANGED <<audit, acted, touched>>
        \/ BestEffort(s, "denied") /\ UNCHANGED <<acted, touched>>
        \/ /\ CallAllowed(r, tool, t, mg) /\ Room
           /\ Append1(s, op) /\ Acts(s, op, CallWhere(r, tool, t, mg))
    BY DEF ByomCall, CallAllowed, CallWhere
  <1>5. req[r].pc \in Byom
    BY <1>1 DEF Byom
  <1>6. /\ s \in Subs /\ s = req[r].in.tok.sub /\ ReqOK(req[r]) /\ IsReq(req[r])
        /\ req[r].left \in 0 .. MaxLines /\ req[r].m = control.members[s] /\ req[r].m # NoMember
    BY <1>5, PlaceFacts
  <1> HIDE DEF s, op, meta
  <1>7. /\ Only(r) /\ IsReq(req'[r]) /\ req'[r].left = req[r].left - 1 /\ req'[r].meta = meta
        /\ req'[r].pc = req[r].pc /\ req'[r].in = req[r].in /\ req'[r].m = req[r].m
        /\ req'[r].grant = req[r].grant
    BY <1>2, <1>6, LineFacts DEF GatewayIInv
  <1>8. req'[r].left \in 0 .. MaxLines
    BY <1>1, <1>6, <1>7, GatewayAssumption
  <1>9. ReqOK(req'[r])
    BY <1>5, <1>6, <1>7, <1>8, PlaceOK
  <1>10. SpendInv' /\ GateInv' /\ req'[r].pc \notin Http /\ req[r].pc \notin Http
    BY <1>1, <1>3, <1>5, <1>7, PlaceKeep
  <1>11. SlotInv'
    BY <1>1, <1>7, SlotKeep DEF GatewayIInv
  <1>12. ChainInv'
    <2>1. world' = world
      BY <1>3 DEF Quiet
    <2>2. CASE Audited /\ UNCHANGED <<acted, touched>>
      BY <1>7, <1>10, <2>1, <2>2, ChainKeep DEF GatewayIInv
    <2>3. CASE /\ CallAllowed(r, tool, t, mg) /\ Room
               /\ Append1(s, op) /\ Acts(s, op, CallWhere(r, tool, t, mg))
      <3>1. CallWhere(r, tool, t, mg) \in SUBSET Repos
        BY <1>1, <2>3, CallWithin
      <3>2. op \in Ops
        BY DEF op, ToolOp, Ops
      <3>. QED
        BY <1>6, <1>7, <1>10, <2>1, <2>3, <3>1, <3>2, ChainCalls DEF GatewayIInv
    <2>4. BestEffort(s, "denied") => Audited
      BY <1>6, BestEffortFacts DEF Events
    <2>5. UNCHANGED audit => Audited
      BY DEF Audited
    <2>. QED
      BY <1>4, <2>2, <2>3, <2>4, <2>5
  <1>. QED
    BY <1>1, <1>3, <1>6, <1>7, <1>9, <1>10, <1>11, <1>12, QuietStep

(* A place is given back by one of those who hold one.                     *)
LEMMA PlaceReturned ==
    ASSUME SlotInv, NEW r \in Reqs, NEW s \in Subs,
           Holding(s)' = Holding(s) \ {r}, r \in Holding(s),
           \A u \in Subs \ {s} : Holding(u)' = Holding(u),
           inflight' = [inflight EXCEPT ![s] = @ - 1]
    PROVE  /\ inflight' \in [Subs -> 0 .. PerPrincipal]
           /\ \A u \in Subs : inflight'[u] = Cardinality(Holding(u)')
  <1>1. inflight \in [Subs -> 0 .. PerPrincipal] /\ PerPrincipal \in Nat
    BY GatewayAssumption DEF SlotInv
  <1> DEFINE H == Holding(s)
  <1>2. IsFiniteSet(H) /\ Cardinality(H) \in Nat /\ inflight[s] = Cardinality(H) /\ r \in H
    BY HoldingFinite DEF SlotInv
  <1>3. Holding(s)' = H \ {r}
    OBVIOUS
  <1> HIDE DEF H
  <1>4. Cardinality(H \ {r}) = Cardinality(H) - 1 /\ IsFiniteSet(H \ {r})
    BY <1>2, FS_RemoveElement
  <1>5. Cardinality(H \ {r}) \in Nat
    BY <1>4, FS_CardinalityType
  <1>6. inflight[s] - 1 \in 0 .. PerPrincipal
    BY <1>1, <1>2, <1>4, <1>5
  <1>7. /\ inflight' \in [Subs -> 0 .. PerPrincipal] /\ inflight'[s] = inflight[s] - 1
        /\ \A u \in Subs \ {s} : inflight'[u] = inflight[u]
    BY <1>1, <1>6
  <1>8. \A u \in Subs \ {s} : inflight'[u] = Cardinality(Holding(u)')
    BY <1>7 DEF SlotInv
  <1>. QED
    BY <1>2, <1>3, <1>4, <1>7, <1>8

(* The queue without its k-th waiter.                                      *)
LEMMA WithoutFacts ==
    ASSUME waiting \in Seq(Reqs), NEW k \in 1 .. Len(waiting)
    PROVE  /\ Without(k) \in Seq(Reqs) /\ DOMAIN Without(k) = 1 .. Len(waiting) - 1
           /\ \A j \in 1 .. Len(waiting) - 1 :
                 Without(k)[j] = IF j < k THEN waiting[j] ELSE waiting[j + 1]
  <1> DEFINE n == Len(waiting)
             a == SubSeq(waiting, 1, k - 1)
             b == SubSeq(waiting, k + 1, n)
  <1>1. n \in Nat /\ \A j \in 1 .. n : waiting[j] \in Reqs
    OBVIOUS
  <1>2. /\ a \in Seq(Reqs) /\ Len(a) = k - 1 /\ \A j \in 1 .. k - 1 : a[j] = waiting[j]
    <2>1. \A j \in 1 .. k - 1 : waiting[j] \in Reqs
      BY <1>1
    <2>2. /\ a \in Seq(Reqs) /\ Len(a) = IF 1 <= k - 1 THEN (k - 1) - 1 + 1 ELSE 0
          /\ \A j \in 1 .. (k - 1) - 1 + 1 : a[j] = waiting[1 + j - 1]
      BY <2>1, SubSeqProperties
    <2>3. \A j \in 1 .. k - 1 : 1 + j - 1 = j
      OBVIOUS
    <2> HIDE DEF a
    <2>4. (k - 1) - 1 + 1 = k - 1
      BY <1>1
    <2>. QED
      BY <1>1, <2>2, <2>3, <2>4
  <1>3. /\ b \in Seq(Reqs) /\ Len(b) = n - k /\ \A j \in 1 .. n - k : b[j] = waiting[k + j]
    <2>1. \A j \in k + 1 .. n : waiting[j] \in Reqs
      BY <1>1
    <2>2. /\ b \in Seq(Reqs) /\ Len(b) = IF k + 1 <= n THEN n - (k + 1) + 1 ELSE 0
          /\ \A j \in 1 .. n - (k + 1) + 1 : b[j] = waiting[(k + 1) + j - 1]
      BY <1>1, <2>1, SubSeqProperties
    <2>3. n - (k + 1) + 1 = n - k /\ \A j \in 1 .. n - k : (k + 1) + j - 1 = k + j
      BY <1>1
    <2>4. k \in 1 .. n
      OBVIOUS
    <2> HIDE DEF b, n
    <2>5. Len(b) = n - k
      BY <1>1, <2>2, <2>3, <2>4
    <2>6. \A j \in 1 .. n - k : b[j] = waiting[k + j]
      BY <2>2, <2>3
    <2>. QED
      BY <2>2, <2>5, <2>6
  <1>4. Without(k) = a \o b
    BY DEF Without
  <1> HIDE DEF a, b, n
  <1>5. /\ a \o b \in Seq(Reqs) /\ Len(a \o b) = Len(a) + Len(b)
        /\ \A i \in 1 .. Len(a) + Len(b) : (a \o b)[i] = IF i <= Len(a) THEN a[i] ELSE b[i - Len(a)]
    BY <1>2, <1>3, ConcatProperties
  <1>6. Len(a) + Len(b) = n - 1 /\ k \in 1 .. n
    BY <1>1, <1>2, <1>3 DEF n
  <1>7. ASSUME NEW j \in 1 .. n - 1
        PROVE  (a \o b)[j] = IF j < k THEN waiting[j] ELSE waiting[j + 1]
    <2>1. (a \o b)[j] = IF j <= k - 1 THEN a[j] ELSE b[j - (k - 1)]
      BY <1>2, <1>5, <1>6
    <2>2. CASE j < k
      <3>1. j \in 1 .. k - 1 /\ j <= k - 1
        BY <1>1, <1>6, <2>2
      <3>. QED
        BY <1>2, <2>1, <2>2, <3>1
    <2>3. CASE ~(j < k)
      <3>1. j - (k - 1) \in 1 .. n - k /\ k + (j - (k - 1)) = j + 1 /\ ~(j <= k - 1)
        BY <1>1, <1>6, <2>3
      <3>2. b[j - (k - 1)] = waiting[k + (j - (k - 1))]
        BY <1>3, <3>1
      <3>. QED
        BY <2>1, <2>3, <3>1, <3>2
    <2>. QED
      BY <2>2, <2>3
  <1>8. DOMAIN (a \o b) = 1 .. n - 1
    BY <1>5, <1>6
  <1>. QED
    BY <1>4, <1>5, <1>7, <1>8 DEF n

(* A running request ends: its permit and its place are free.              *)
LEMMA SlotEnds ==
    ASSUME SlotInv, NEW r \in Reqs, Only(r), req[r].pc = "running", req'[r].pc = "idle",
           NEW s \in Subs, req[r].in.tok.sub = s,
           slots' = slots + 1, inflight' = [inflight EXCEPT ![s] = @ - 1], waiting' = waiting
    PROVE  SlotInv'
  <1>1. Running' = Running \ {r} /\ r \in Running
    BY DEF Running, Only
  <1>2. Queued' = Queued
    BY DEF Queued, Only
  <1>3. Holding(s)' = Holding(s) \ {r} /\ r \in Holding(s)
    BY DEF Holding, Only, Byom
  <1>4. \A u \in Subs \ {s} : Holding(u)' = Holding(u)
    BY DEF Holding, Only, Byom
  <1>5. slots' \in Nat /\ slots' + Cardinality(Running') = MaxSlots
    <2> DEFINE H == Running
    <2>1. IsFiniteSet(H) /\ Cardinality(H) \in Nat /\ r \in H
      BY <1>1, HoldingFinite
    <2>2. Running' = H \ {r}
      BY <1>1
    <2>3. slots \in Nat /\ slots + Cardinality(H) = MaxSlots
      BY DEF SlotInv
    <2> HIDE DEF H
    <2>4. Cardinality(H \ {r}) = Cardinality(H) - 1
      BY <2>1, FS_RemoveElement
    <2>. QED
      BY <2>1, <2>2, <2>3, <2>4
  <1>6. /\ inflight' \in [Subs -> 0 .. PerPrincipal]
        /\ \A u \in Subs : inflight'[u] = Cardinality(Holding(u)')
    BY <1>3, <1>4, PlaceReturned
  <1>. QED
    BY <1>2, <1>5, <1>6 DEF SlotInv

(* A waiter leaves the queue and gives its place back.                     *)
LEMMA SlotLeaves ==
    ASSUME SlotInv, NEW r \in Reqs, Only(r), req[r].pc = "queued", req'[r].pc = "idle",
           NEW s \in Subs, req[r].in.tok.sub = s, NEW k \in DOMAIN waiting, waiting[k] = r,
           waiting' = Without(k), inflight' = [inflight EXCEPT ![s] = @ - 1], slots' = slots
    PROVE  SlotInv'
  <1>1. Running' = Running
    BY DEF Running, Only
  <1>2. Queued' = Queued \ {r} /\ r \in Queued
    BY DEF Queued, Only
  <1>3. Holding(s)' = Holding(s) \ {r} /\ r \in Holding(s)
    BY DEF Holding, Only, Byom
  <1>4. \A u \in Subs \ {s} : Holding(u)' = Holding(u)
    BY DEF Holding, Only, Byom
  <1>5. /\ inflight' \in [Subs -> 0 .. PerPrincipal]
        /\ \A u \in Subs : inflight'[u] = Cardinality(Holding(u)')
    BY <1>3, <1>4, PlaceReturned
  <1> DEFINE n == Len(waiting)
  <1>6. waiting \in Seq(Reqs) /\ n \in Nat /\ DOMAIN waiting = 1 .. n /\ k \in 1 .. n
    BY DEF SlotInv
  <1>7. {waiting[j] : j \in DOMAIN waiting} = Queued
    BY DEF SlotInv
  <1>8. \A i, j \in 1 .. n : waiting[i] = waiting[j] => i = j
    BY <1>6 DEF SlotInv
  <1>9. /\ waiting' \in Seq(Reqs) /\ DOMAIN waiting' = 1 .. n - 1
        /\ \A j \in 1 .. n - 1 : waiting'[j] = IF j < k THEN waiting[j] ELSE waiting[j + 1]
    BY <1>6, WithoutFacts
  <1> HIDE DEF n
  <1> DEFINE old(j) == IF j < k THEN j ELSE j + 1
  <1>10. \A j \in 1 .. n - 1 : old(j) \in 1 .. n /\ old(j) # k /\ waiting'[j] = waiting[old(j)]
    BY <1>6, <1>9
  <1>11. \A i, j \in 1 .. n - 1 : old(i) = old(j) => i = j
    BY <1>6
  <1>12. \A i \in 1 .. n : i # k => \E j \in 1 .. n - 1 : old(j) = i
    <2>1. ASSUME NEW i \in 1 .. n, i # k PROVE \E j \in 1 .. n - 1 : old(j) = i
      <3>1. CASE i < k
        <4>1. i \in 1 .. n - 1 /\ old(i) = i
          BY <1>6, <3>1
        <4>. QED
          BY <4>1
      <3>2. CASE i > k
        <4>1. i - 1 \in 1 .. n - 1 /\ old(i - 1) = i
          BY <1>6, <3>2
        <4>. QED
          BY <4>1
      <3>. QED
        BY <1>6, <2>1, <3>1, <3>2
    <2>. QED
      BY <2>1
  <1> HIDE DEF old
  <1>13. \A i, j \in DOMAIN waiting' : waiting'[i] = waiting'[j] => i = j
    <2>1. ASSUME NEW i \in DOMAIN waiting', NEW j \in DOMAIN waiting', waiting'[i] = waiting'[j]
          PROVE  i = j
      <3>1. i \in 1 .. n - 1 /\ j \in 1 .. n - 1
        BY <1>9
      <3>2. waiting[old(i)] = waiting[old(j)] /\ old(i) \in 1 .. n /\ old(j) \in 1 .. n
        BY <1>10, <2>1, <3>1
      <3>3. old(i) = old(j)
        BY <1>8, <3>2
      <3>. QED
        BY <1>11, <3>1, <3>3
    <2>. QED
      BY <2>1
  <1>14. {waiting'[j] : j \in DOMAIN waiting'} = Queued'
    <2>1. ASSUME NEW q \in Queued' PROVE \E j \in DOMAIN waiting' : waiting'[j] = q
      <3>1. PICK i \in DOMAIN waiting : waiting[i] = q
        BY <1>2, <1>7
      <3>2. i \in 1 .. n /\ i # k
        BY <1>2, <1>6, <3>1
      <3>3. PICK j \in 1 .. n - 1 : old(j) = i
        BY <1>12, <3>2
      <3>. QED
        BY <1>9, <1>10, <3>1, <3>3
    <2>2. ASSUME NEW j \in DOMAIN waiting' PROVE waiting'[j] \in Queued'
      <3>1. j \in 1 .. n - 1
        BY <1>9
      <3>2. waiting'[j] = waiting[old(j)] /\ old(j) \in 1 .. n /\ old(j) # k
        BY <1>10, <3>1
      <3>3. waiting[old(j)] \in Queued
        BY <1>6, <1>7, <3>2
      <3>4. waiting[old(j)] # r
        BY <1>6, <1>8, <3>2
      <3>. QED
        BY <1>2, <3>2, <3>3, <3>4
    <2>. QED
      BY <2>1, <2>2
  <1>. QED
    BY <1>1, <1>5, <1>9, <1>13, <1>14 DEF SlotInv

(* The blocking task ends.                                                 *)
LEMMA ByomFinishStep ==
    ASSUME GatewayIInv, NEW r \in Reqs, ByomFinish(r)
    PROVE  GatewayIInv'
  <1> DEFINE s == SubOf(r)
  <1>1. /\ Up /\ req[r].pc = "running" /\ Finish(r) /\ slots' = slots + 1
        /\ inflight' = [inflight EXCEPT ![s] = @ - 1] /\ waiting' = waiting
        /\ UNCHANGED <<audit, acted, touched>>
        /\ UNCHANGED <<bucket, spent>> /\ UNCHANGED <<writeGate, anchors>>
    BY DEF ByomFinish, At
  <1>2. Quiet
    BY DEF ByomFinish, plane, Surroundings, Quiet
  <1>3. req[r].pc \in Byom
    BY <1>1 DEF Byom
  <1>4. s \in Subs /\ s = req[r].in.tok.sub
    BY <1>3, PlaceFacts
  <1> HIDE DEF s
  <1>5. Only(r) /\ req'[r].pc = "idle"
    BY <1>1, FinishFacts, IdleFacts DEF GatewayIInv
  <1>6. SpendInv' /\ GateInv' /\ req'[r].pc \notin Http
    BY <1>1, <1>2, <1>3, <1>5, PlaceKeep
  <1>7. ChainInv'
    <2>1. Audited /\ world' = world /\ UNCHANGED <<acted, touched>>
      BY <1>1, <1>2 DEF Audited, Quiet
    <2>. QED
      BY <1>5, <1>6, <2>1, ChainKeep DEF GatewayIInv
  <1>8. SlotInv'
    BY <1>1, <1>4, <1>5, SlotEnds DEF GatewayIInv
  <1>. QED
    BY <1>1, <1>2, <1>6, <1>7, <1>8, QuietFinish

(* The client hangs up, in the queue or while the task runs.               *)
LEMMA ClientLeavesStep ==
    ASSUME GatewayIInv, NEW r \in Reqs, ClientLeaves(r)
    PROVE  GatewayIInv'
  <1> DEFINE s == SubOf(r)
  <1>1. /\ Up /\ UNCHANGED <<audit, acted, touched>> /\ slots' = slots
        /\ UNCHANGED <<bucket, spent>> /\ UNCHANGED <<writeGate, anchors>>
    BY DEF ClientLeaves, At
  <1>2. Quiet
    BY DEF ClientLeaves, plane, Surroundings, Quiet
  <1>3. \/ /\ req[r].pc = "queued" /\ Finish(r) /\ inflight' = [inflight EXCEPT ![s] = @ - 1]
           /\ \E k \in DOMAIN waiting : waiting[k] = r /\ waiting' = Without(k)
        \/ /\ req[r].pc = "running" /\ Leaves(r, TRUE)
           /\ UNCHANGED <<inflight, slots, waiting>>
    BY <1>1 DEF ClientLeaves, LeaveQueue, Leaves, At
  <1>4. req[r].pc \in Byom
    BY <1>3 DEF Byom
  <1>5. /\ s \in Subs /\ s = req[r].in.tok.sub /\ ReqOK(req[r]) /\ IsReq(req[r])
        /\ req[r].left \in 0 .. MaxLines /\ req[r].m = control.members[s] /\ req[r].m # NoMember
    BY <1>4, PlaceFacts
  <1> HIDE DEF s
  <1>6. Audited /\ world' = world /\ UNCHANGED <<acted, touched>>
    BY <1>1, <1>2 DEF Audited, Quiet
  <1>7. CASE /\ req[r].pc = "queued" /\ Finish(r) /\ inflight' = [inflight EXCEPT ![s] = @ - 1]
             /\ \E k \in DOMAIN waiting : waiting[k] = r /\ waiting' = Without(k)
    <2>1. Only(r) /\ req'[r].pc = "idle"
      BY <1>7, FinishFacts, IdleFacts DEF GatewayIInv
    <2>2. SpendInv' /\ GateInv' /\ req'[r].pc \notin Http
      BY <1>1, <1>2, <1>4, <2>1, PlaceKeep
    <2>3. ChainInv'
      BY <1>6, <2>1, <2>2, ChainKeep DEF GatewayIInv
    <2>4. PICK k \in DOMAIN waiting : waiting[k] = r /\ waiting' = Without(k)
      BY <1>7
    <2>5. SlotInv'
      BY <1>1, <1>5, <1>7, <2>1, <2>4, SlotLeaves DEF GatewayIInv
    <2>. QED
      BY <1>1, <1>2, <1>7, <2>2, <2>3, <2>5, QuietFinish
  <1>8. CASE /\ req[r].pc = "running" /\ Leaves(r, TRUE)
             /\ UNCHANGED <<inflight, slots, waiting>>
    <2>1. /\ Only(r) /\ IsReq(req'[r])
          /\ req'[r].pc = req[r].pc /\ req'[r].in = req[r].in /\ req'[r].m = req[r].m
          /\ req'[r].grant = req[r].grant /\ req'[r].left = req[r].left
      BY <1>5, <1>8, GoneFacts DEF GatewayIInv
    <2>2. SpendInv' /\ GateInv' /\ req'[r].pc \notin Http
      BY <1>1, <1>2, <1>4, <2>1, PlaceKeep
    <2>3. ChainInv'
      BY <1>6, <2>1, <2>2, ChainKeep DEF GatewayIInv
    <2>4. SlotInv'
      BY <1>8, <2>1, SlotKeep DEF GatewayIInv
    <2>5. ReqOK(req'[r])
      BY <1>4, <1>5, <2>1, PlaceOK
    <2>. QED
      BY <1>1, <1>2, <1>5, <2>1, <2>2, <2>3, <2>4, <2>5, QuietStep
  <1>. QED
    BY <1>3, <1>7, <1>8

-----------------------------------------------------------------------------
(* The process, the operator and the clock.                                *)

(* Requests, records and bounds stay as they are.                          *)
Still == UNCHANGED <<world, req, audit, acted, touched, bucket, inflight, slots, waiting, spent,
                     writeGate, anchors>>

(* What a step keeps that touches no request and no bound.                 *)
LEMMA StillKeep ==
    ASSUME GatewayIInv, Still
    PROVE  ChainInv' /\ SlotInv' /\ GateInv'
  <1>1. req' = req /\ audit' = audit /\ acted' = acted /\ touched' = touched /\ world' = world
        /\ inflight' = inflight /\ slots' = slots /\ waiting' = waiting
        /\ writeGate' = writeGate /\ anchors' = anchors
    BY DEF Still
  <1>2. \A s, op : Pending(s, op)' = Pending(s, op)
    BY <1>1 DEF Pending, SubOf
  <1>3. ActedIsAudited'
    BY <1>1, <1>2 DEF GatewayIInv, ChainInv, ActedIsAudited
  <1>4. ChainInv'
    BY <1>1, <1>3 DEF GatewayIInv, ChainInv
  <1>5. Running' = Running /\ Queued' = Queued /\ \A s : Holding(s)' = Holding(s)
    BY <1>1 DEF Running, Queued, Holding
  <1>6. SlotInv'
    BY <1>1, <1>5 DEF GatewayIInv, SlotInv
  <1>7. CheckpointsChain' /\ \A t : Latest(t)' = Latest(t)
    BY <1>1 DEF GatewayIInv, GateInv, CheckpointsChain, Latest
  <1>8. GateInv'
    BY <1>1, <1>7 DEF GatewayIInv, GateInv
  <1>. QED
    BY <1>4, <1>6, <1>8

(* A step of the operator, the clock or a client that moves no request.    *)
LEMMA StillStep ==
    ASSUME GatewayIInv, Still, UNCHANGED <<env, control>>, disk' \in Controls, allow' \in Allowlists,
           clock' \in Nat, clock' >= clock, \A t \in minted' : t.sub \in Subs /\ t.tenants = <<>>
    PROVE  GatewayIInv'
  <1>1. ChainInv' /\ SlotInv' /\ GateInv'
    BY StillKeep
  <1>2. /\ req' = req /\ env' = env /\ control' = control /\ world' = world
        /\ bucket' = bucket /\ spent' = spent
    BY DEF Still
  <1>3. clock \in Nat /\ (env = NoEnv \/ env \in RunEnvs)
    BY DEF GatewayIInv, EnvInv
  <1>4. env \in RunEnvs /\ env.since <= clock => env.since <= clock'
    BY <1>3 DEF RunEnvs
  <1>5. EnvInv'
    BY <1>2, <1>4 DEF GatewayIInv, EnvInv
  <1>6. ReqInv'
    BY <1>2 DEF GatewayIInv, ReqInv, Up
  <1>7. SpendInv'
    <2>1. \A s \in Subs : bucket[s].last \in Int
      BY DEF GatewayIInv, SpendInv
    <2>2. \A s \in Subs : bucket[s].last <= clock => bucket[s].last <= clock'
      BY <1>3, <2>1
    <2>. QED
      BY <1>2, <2>2 DEF GatewayIInv, SpendInv, Up
  <1>. QED
    BY <1>1, <1>5, <1>6, <1>7 DEF GatewayIInv

(* POST /connect/token hands out a typed token.                            *)
LEMMA ConnectTokenStep ==
    ASSUME GatewayIInv, NEW i \in world.inputs, ConnectToken(i.tok)
    PROVE  GatewayIInv'
  <1>1. i.tok.sub \in Subs
    BY InputFacts DEF GatewayIInv, InputOK
  <1>2. Still /\ UNCHANGED <<env, control, disk, allow, clock>>
    BY DEF ConnectToken, plane, NoWork, limits, Still
  <1>3. minted' = minted \cup {MintConnectToken(i.tok.sub, clock)}
    BY DEF ConnectToken
  <1>4. /\ MintConnectToken(i.tok.sub, clock).sub = i.tok.sub
        /\ MintConnectToken(i.tok.sub, clock).tenants = <<>>
    BY DEF MintConnectToken
  <1>5. \A t \in minted' : t.sub \in Subs /\ t.tenants = <<>>
    BY <1>1, <1>3, <1>4 DEF GatewayIInv, EnvInv
  <1>6. disk' \in Controls /\ allow' \in Allowlists /\ clock' \in Nat /\ clock' >= clock
    BY <1>2 DEF GatewayIInv, EnvInv
  <1>. QED
    BY <1>2, <1>5, <1>6, StillStep

(* Time passes: what was spent stays covered.                              *)
LEMMA TickStep ==
    ASSUME GatewayIInv, Tick
    PROVE  GatewayIInv'
  <1>1. Still /\ UNCHANGED <<env, control, disk, allow, minted>> /\ clock' = clock + 1
    BY DEF Tick, plane, NoWork, limits, Still
  <1>2. /\ disk' \in Controls /\ allow' \in Allowlists
        /\ \A t \in minted' : t.sub \in Subs /\ t.tenants = <<>>
    BY <1>1 DEF GatewayIInv, EnvInv
  <1>3. clock' \in Nat /\ clock' >= clock
    BY <1>1 DEF GatewayIInv, EnvInv
  <1>. QED
    BY <1>1, <1>2, <1>3, StillStep

(* The operator leaves typed files.                                        *)
LEMMA OperatorStep ==
    ASSUME GatewayIInv,
           \/ \E s \in Subs : OperatorRevokes(s)
           \/ \E a \in Allowlists : OperatorAllows(a)
           \/ OperatorSuspends
    PROVE  GatewayIInv'
  <1>1. Still /\ UNCHANGED <<env, control, clock, minted>>
    BY DEF OperatorRevokes, OperatorAllows, OperatorSuspends, Untold, NoWork, limits, Still
  <1>2. disk \in Controls /\ allow \in Allowlists /\ clock \in Nat
        /\ \A t \in minted : t.sub \in Subs /\ t.tenants = <<>>
    BY DEF GatewayIInv, EnvInv
  <1>3. NoMember \in Membership
    BY DEF NoMember, Membership, Roles
  <1>4. disk' \in Controls /\ allow' \in Allowlists
    <2>1. CASE \E s \in Subs : OperatorRevokes(s)
      <3>1. PICK s \in Subs : OperatorRevokes(s)
        BY <2>1
      <3>2. disk' = [disk EXCEPT !.members[s] = NoMember] /\ allow' \in Allowlists
        BY <3>1 DEF OperatorRevokes
      <3>. QED
        BY <1>2, <1>3, <3>2 DEF Controls
    <2>2. CASE \E a \in Allowlists : OperatorAllows(a)
      BY <1>2, <2>2 DEF OperatorAllows
    <2>3. CASE OperatorSuspends
      BY <1>2, <2>3 DEF OperatorSuspends, Controls
    <2>. QED
      BY <2>1, <2>2, <2>3
  <1>5. clock' \in Nat /\ clock' >= clock /\ \A t \in minted' : t.sub \in Subs /\ t.tenants = <<>>
    BY <1>1, <1>2
  <1>. QED
    BY <1>1, <1>4, <1>5, StillStep

(* A process starts: no request is left over from the last one.            *)
LEMMA StartStep ==
    ASSUME GatewayIInv, NEW e \in world.envs, Start(e)
    PROVE  GatewayIInv'
  <1>1. /\ ~Up /\ env' = [e EXCEPT !.since = clock] /\ control' = Bootstrapped(disk, e.owner)
        /\ disk' = control' /\ UNCHANGED <<allow, minted, clock>>
    BY DEF Start
  <1>2. Still
    BY DEF Start, NoWork, limits, Still
  <1>3. world \in Worlds /\ clock \in Nat /\ disk \in Controls
    BY DEF GatewayIInv, EnvInv
  <1>4. e \in Envs
    BY <1>3, GatewayAssumption
  <1>5. env' \in RunEnvs /\ env'.since = clock /\ [env' EXCEPT !.since = 0] = e
    BY <1>1, <1>3, <1>4 DEF RunEnvs, Envs
  <1>6. control' \in Controls
    <2>1. CASE e.owner = "none"
      BY <1>1, <1>3, <2>1 DEF Bootstrapped
    <2>2. CASE e.owner # "none"
      <3>1. e.owner \in Subs
        BY <1>4, <2>2 DEF Envs
      <3>2. control' = [disk EXCEPT !.members[e.owner].role = "OrgOwner"]
        BY <1>1, <2>2 DEF Bootstrapped
      <3>3. disk.members \in [Subs -> Membership] /\ disk.active \in BOOLEAN
        BY <1>3 DEF Controls
      <3>4. [disk.members[e.owner] EXCEPT !.role = "OrgOwner"] \in Membership
        BY <3>1, <3>3 DEF Membership, Roles
      <3>5. control' = [disk EXCEPT !.members = [disk.members EXCEPT ![e.owner] =
                           [disk.members[e.owner] EXCEPT !.role = "OrgOwner"]]]
        BY <3>2
      <3> DEFINE x == [disk.members[e.owner] EXCEPT !.role = "OrgOwner"]
                 ms == [disk.members EXCEPT ![e.owner] = x]
      <3>6. x \in Membership
        BY <3>4
      <3> HIDE DEF x
      <3>7. ms \in [Subs -> Membership]
        BY <3>1, <3>3, <3>6
      <3>8. control' = [disk EXCEPT !.members = ms]
        BY <3>5 DEF x
      <3> HIDE DEF ms
      <3>. QED
        BY <1>3, <3>7, <3>8 DEF Controls
    <2>. QED
      BY <2>1, <2>2
  <1>7. EnvInv'
    <2>1. world' = world
      BY <1>2 DEF Still
    <2>. QED
      BY <1>1, <1>3, <1>5, <1>6, <2>1 DEF GatewayIInv, EnvInv
  <1>8. ReqInv'
    <2>1. req' = req
      BY <1>2 DEF Still
    <2>2. \A r \in Reqs : req[r].pc = "idle" /\ req[r].pc \notin Admitted
      BY <1>1 DEF GatewayIInv, ReqInv, Admitted, Http, Gated, Byom
    <2>. QED
      BY <2>1, <2>2 DEF GatewayIInv, ReqInv
  <1>9. SpendInv'
    <2>1. bucket' = bucket /\ spent' = spent
      BY <1>2 DEF Still
    <2>2. \A s \in Subs : ~(bucket[s].last >= 0)
      BY <1>1 DEF GatewayIInv, SpendInv
    <2>. QED
      BY <2>1, <2>2 DEF GatewayIInv, SpendInv
  <1>10. ChainInv' /\ SlotInv' /\ GateInv'
    BY <1>2, StillKeep
  <1>. QED
    BY <1>7, <1>8, <1>9, <1>10 DEF GatewayIInv

(* Slots that hold no request, and the bounds of a fresh process.          *)
Fresh(rq, bk, fl, sl, wt, sp) ==
    /\ rq = [r \in Reqs |-> Idle]
    /\ bk = [s \in Subs |-> [tokens |-> Burst, last |-> -1]]
    /\ fl = [s \in Subs |-> 0] /\ sl = MaxSlots /\ wt = <<>> /\ sp = [s \in Subs |-> 0]

(* A process that has served nothing.                                      *)
LEMMA FreshInv ==
    ASSUME Fresh(req, bucket, inflight, slots, waiting, spent)
    PROVE  /\ ReqInv /\ SlotInv /\ SpendInv
           /\ \A r \in Reqs : req[r].pc = "idle"
  <1>1. \A r \in Reqs : req[r] = Idle
    BY DEF Fresh
  <1>2. \A r \in Reqs : ReqOK(req[r]) /\ req[r].pc = "idle"
    BY <1>1, IdleFacts
  <1>3. "idle" \notin Admitted /\ "idle" \notin Byom
    BY DEF Admitted, Http, Gated, Byom
  <1>4. ReqInv
    <2>1. req = [r \in Reqs |-> req[r]]
      BY DEF Fresh
    <2>. QED
      BY <1>2, <1>3, <2>1 DEF ReqInv
  <1>5. Running = {} /\ Queued = {} /\ \A s : Holding(s) = {}
    BY <1>2, <1>3 DEF Running, Queued, Holding
  <1>6. SlotInv
    <2>1. Cardinality({}) = 0
      BY FS_EmptySet
    <2>2. MaxSlots \in Nat /\ PerPrincipal \in Nat
      BY GatewayAssumption
    <2>3. waiting \in Seq(Reqs) /\ DOMAIN waiting = {}
      BY DEF Fresh
    <2>4. inflight \in [Subs -> 0 .. PerPrincipal] /\ \A s \in Subs : inflight[s] = 0
      BY <2>2 DEF Fresh
    <2>5. slots = MaxSlots
      BY DEF Fresh
    <2>6. {waiting[k] : k \in DOMAIN waiting} = Queued
      BY <1>5, <2>3
    <2>7. slots \in Nat /\ slots + Cardinality(Running) = MaxSlots
      BY <1>5, <2>1, <2>2, <2>5
    <2>8. \A s \in Subs : inflight[s] = Cardinality(Holding(s))
      BY <1>5, <2>1, <2>4
    <2>9. \A j, k \in DOMAIN waiting : waiting[j] = waiting[k] => j = k
      BY <2>3
    <2>. QED
      BY <2>3, <2>4, <2>6, <2>7, <2>8, <2>9 DEF SlotInv
  <1>7. SpendInv
    <2>1. Burst \in Nat
      BY GatewayAssumption
    <2>2. \A s \in Subs : bucket[s].last = -1 /\ spent[s] = 0
      BY DEF Fresh
    <2>3. bucket \in [Subs -> [tokens : 0 .. Burst, last : Int]] /\ spent \in [Subs -> Nat]
      BY <2>1 DEF Fresh
    <2>. QED
      BY <2>2, <2>3 DEF SpendInv
  <1>. QED
    BY <1>2, <1>4, <1>6, <1>7

(* The same of the state a crash leaves.                                   *)
LEMMA FreshInvNext ==
    Fresh(req, bucket, inflight, slots, waiting, spent)'
      => (/\ ReqInv /\ SlotInv /\ SpendInv
          /\ \A r \in Reqs : req[r].pc = "idle")'
  <1>1. Fresh(req, bucket, inflight, slots, waiting, spent)
          => (/\ ReqInv /\ SlotInv /\ SpendInv
              /\ \A r \in Reqs : req[r].pc = "idle")
    BY FreshInv
  <1>. QED
    BY <1>1, PTL

(* A crash takes requests and bounds with it, never a record.              *)
LEMMA CrashStep ==
    ASSUME GatewayIInv, Crash
    PROVE  GatewayIInv'
  <1>1. Fresh(req, bucket, inflight, slots, waiting, spent)'
    BY DEF Crash, NoLimits, Fresh
  <1>2. ReqInv' /\ SlotInv' /\ SpendInv' /\ \A r \in Reqs : req'[r].pc = "idle"
    BY <1>1, FreshInvNext
  <1>3. /\ env' = NoEnv /\ control' = InitialControl /\ writeGate' = NoReq
        /\ UNCHANGED <<world, disk, allow, audit, acted, touched, anchors, minted, clock>>
    BY DEF Crash, Surroundings
  <1>4. InitialControl \in Controls
    BY GatewayAssumption DEF Controls
  <1>5. EnvInv'
    BY <1>3, <1>4 DEF GatewayIInv, EnvInv
  <1>6. ChainInv'
    <2>1. ASSUME NEW s \in Subs, NEW op \in Ops
          PROVE  acted'[<<s, op>>] + Pending(s, op)' <= audit'.of[<<s, op>>]
      <3>1. PendingSet(s, op)' \in SUBSET PendingSet(s, op)
        BY <1>2 DEF PendingSet, Http, Gated
      <3>2. Pending(s, op)' <= Pending(s, op) /\ Pending(s, op) \in Nat /\ Pending(s, op)' \in Nat
        BY <3>1, PendingFinite, FS_Subset
      <3>3. <<s, op>> \in Subs \X Events /\ <<s, op>> \in Subs \X Ops
        BY DEF Events
      <3>4. acted[<<s, op>>] + Pending(s, op) <= audit.of[<<s, op>>]
        BY DEF GatewayIInv, ChainInv, ActedIsAudited
      <3>5. audit.of[<<s, op>>] \in Nat /\ acted[<<s, op>>] \in Nat /\ acted' = acted /\ audit' = audit
        BY <1>3, <3>3 DEF GatewayIInv, ChainInv
      <3>. QED
        BY <3>2, <3>4, <3>5
    <2>2. ActedIsAudited'
      BY <2>1 DEF ActedIsAudited
    <2>. QED
      BY <1>3, <2>2 DEF GatewayIInv, ChainInv
  <1>7. GateInv'
    <2>1. \A r \in Reqs : r # NoReq /\ req'[r].pc \notin Gated /\ req'[r].pc # "binding"
      BY <1>2, GatewayAssumption DEF NoReq, Gated
    <2>2. CheckpointsChain'
      BY <1>3 DEF GatewayIInv, GateInv, CheckpointsChain
    <2>. QED
      BY <1>3, <2>1, <2>2 DEF GatewayIInv, GateInv
  <1>. QED
    BY <1>2, <1>5, <1>6, <1>7 DEF GatewayIInv

(* The gateway as it is installed.                                         *)
LEMMA InitSound == GatewayInit => GatewayIInv
  <1> SUFFICES ASSUME GatewayInit PROVE GatewayIInv
    OBVIOUS
  <1>1. Fresh(req, bucket, inflight, slots, waiting, spent)
    BY DEF GatewayInit, Fresh
  <1>2. ReqInv /\ SlotInv /\ SpendInv /\ \A r \in Reqs : req[r].pc = "idle"
    BY <1>1, FreshInv
  <1>3. EnvInv
    <2>1. /\ world \in Worlds /\ env = NoEnv /\ control = InitialControl /\ disk = InitialControl
          /\ allow = world.list /\ minted = {} /\ clock = 0
      BY DEF GatewayInit
    <2>2. InitialControl \in Controls /\ world.list \in Allowlists
      BY <2>1, GatewayAssumption DEF Controls
    <2>. QED
      BY <2>1, <2>2 DEF EnvInv
  <1>4. ChainInv
    <2>1. /\ audit = [len |-> 0, of |-> [k \in Subs \X Events |-> 0]]
          /\ acted = [k \in Subs \X Ops |-> 0] /\ touched = {} /\ world \in Worlds
      BY DEF GatewayInit
    <2>2. audit.len = 0 /\ audit.of = [k \in Subs \X Events |-> 0]
      BY <2>1
    <2>3. world.audit \in Nat
      BY <2>1, GatewayAssumption
    <2>4. ASSUME NEW s \in Subs, NEW op \in Ops
          PROVE  acted[<<s, op>>] + Pending(s, op) <= audit.of[<<s, op>>]
      <3>1. PendingSet(s, op) = {}
        BY <1>2 DEF PendingSet, Http, Gated
      <3>2. Pending(s, op) = 0
        BY <3>1, PendingFinite, FS_EmptySet
      <3>3. acted[<<s, op>>] = 0 /\ audit.of[<<s, op>>] = 0
        BY <2>1, <2>2 DEF Events
      <3>. QED
        BY <3>2, <3>3
    <2>5. ActedIsAudited
      BY <2>4 DEF ActedIsAudited
    <2>6. audit = [len |-> audit.len, of |-> audit.of]
      BY <2>1, <2>2
    <2>7. audit.of \in [Subs \X Events -> Nat] /\ \A k \in Subs \X Events : audit.of[k] = 0
      BY <2>2
    <2>8. acted \in [Subs \X Ops -> Nat]
      BY <2>1
    <2>. QED
      BY <2>1, <2>2, <2>3, <2>5, <2>6, <2>7, <2>8 DEF ChainInv
  <1>5. GateInv
    <2>1. writeGate = NoReq /\ anchors = <<>>
      BY DEF GatewayInit
    <2>2. \A r \in Reqs : r # NoReq /\ req[r].pc \notin Gated /\ req[r].pc # "binding"
      BY <1>2, GatewayAssumption DEF NoReq, Gated
    <2>3. DOMAIN anchors = {} /\ anchors \in Seq([repo : Repos, prev : Prevs])
      BY <2>1
    <2>. QED
      BY <2>1, <2>2, <2>3 DEF GateInv, CheckpointsChain
  <1>. QED
    BY <1>2, <1>3, <1>4, <1>5 DEF GatewayIInv

(* Every step of the gateway keeps the invariant.                          *)
LEMMA StepSound == GatewayIInv /\ [GatewayNext]_vars => GatewayIInv'
  <1> SUFFICES ASSUME GatewayIInv, [GatewayNext]_vars PROVE GatewayIInv'
    OBVIOUS
  <1>1. CASE UNCHANGED vars
    <2>1. Still /\ UNCHANGED <<env, control, disk, allow, clock, minted>>
      BY <1>1 DEF vars, plane, limits, Still
    <2>2. /\ disk' \in Controls /\ allow' \in Allowlists /\ clock' \in Nat /\ clock' >= clock
          /\ \A t \in minted' : t.sub \in Subs /\ t.tenants = <<>>
      BY <2>1 DEF GatewayIInv, EnvInv
    <2>. QED
      BY <2>1, <2>2, StillStep
  <1>2. ASSUME NEW r \in Reqs, Arrive(r) PROVE GatewayIInv'
    BY <1>2, GateStep, ByomGateStep DEF Arrive
  <1>3. ASSUME NEW r \in Reqs, Step(r) PROVE GatewayIInv'
    BY <1>3, JitProvisionStep, AuthorizeStep, ServeStep, AssertStep, CheckpointStartStep,
       CheckpointRefusedStep, CheckpointBindStep, CheckpointStoreStep, ByomLimitsStep,
       ByomStartStep, ByomFinishStep, ByomCallStep DEF Step
  <1>4. ASSUME NEW r \in Reqs, ClientLeaves(r) PROVE GatewayIInv'
    BY <1>4, ClientLeavesStep
  <1>5. ASSUME NEW i \in world.inputs, ConnectToken(i.tok) PROVE GatewayIInv'
    BY <1>5, ConnectTokenStep
  <1>6. CASE Operator
    BY <1>6, StartStep, OperatorStep DEF Operator
  <1>7. CASE Crash
    BY <1>7, CrashStep
  <1>8. CASE Tick
    BY <1>8, TickStep
  <1>. QED
    BY <1>1, <1>2, <1>3, <1>4, <1>5, <1>6, <1>7, <1>8 DEF GatewayNext

-----------------------------------------------------------------------------
(* Theorems.                                                               *)

(* The inductive invariant holds in every behaviour of the gateway.        *)
THEOREM GatewayIInvHolds == GatewaySpec => []GatewayIInv
  <1>1. GatewayInit => GatewayIInv
    BY InitSound
  <1>2. GatewayIInv /\ [GatewayNext]_vars => GatewayIInv'
    BY StepSound
  <1>. QED
    BY <1>1, <1>2, PTL DEF GatewaySpec

(* gate_with_grant and handle_line: no operation is carried out, and none  *)
(* is about to be, without an audit record of its own.                     *)
THEOREM ActedIsAuditedHolds == GatewaySpec => []ActedIsAudited
  <1>1. GatewayIInv => ActedIsAudited
    BY DEF GatewayIInv, ChainInv
  <1>. QED
    BY <1>1, GatewayIInvHolds, PTL

(* attenuate_grant: the authority of a BYOM request is never wider than    *)
(* its membership nor than its token.                                      *)
THEOREM AuthorityIntersectsHolds == GatewaySpec => []AuthorityIntersects
  <1>1. GatewayIInv => AuthorityIntersects
    <2> SUFFICES ASSUME GatewayIInv, NEW r \in Reqs, NEW op \in Ops, NEW t \in Repos,
                        req[r].pc \in {"queued", "running"},
                        Check(req[r].grant, RepoResource(t), op, clock)
                 PROVE  /\ MemberMay(req[r].m, op, t)
                        /\ req[r].in.tok.kind = "connect" => TokenMay(req[r].in.tok, op, t)
      BY DEF AuthorityIntersects
    <2>1. ByomWithin(req[r])
      BY PlaceFacts DEF Byom
    <2>2. clock \in Nat
      BY DEF GatewayIInv, EnvInv
    <2>. QED
      BY <2>1, <2>2 DEF ByomWithin
  <1>. QED
    BY <1>1, GatewayIInvHolds, PTL

(* Types, permits and places, spending and checkpoint chains, as the runs  *)
(* check them.                                                             *)
THEOREM GatewayInvHolds == GatewaySpec => []GatewayInv
  <1>1. ASSUME GatewayIInv PROVE GatewayTypeOK
    <2>1. /\ env = NoEnv \/ [env EXCEPT !.since = 0] \in world.envs
          /\ allow \in Allowlists /\ control \in Controls /\ disk \in Controls
      BY <1>1 DEF GatewayIInv, EnvInv
    <2>2. \A c \in {control, disk} : c.active \in BOOLEAN /\ \A s \in Subs : c.members[s].role \in Roles
      BY <2>1 DEF Controls, Membership
    <2>3. \A r \in Reqs :
            /\ req[r].pc \in Pcs
            /\ req[r].pc # "idle" => Up /\ req[r].in.tok.sub \in Subs
            /\ req[r].left \in 0 .. MaxLines
      BY <1>1 DEF GatewayIInv, ReqInv, ReqOK, InputOK
    <2>4. world.audit \in Nat
      BY <1>1, GatewayAssumption DEF GatewayIInv, EnvInv
    <2>5. audit \in [len : 0 .. world.audit, of : [Subs \X Events -> 0 .. world.audit]]
      <3>1. /\ audit.len \in Nat /\ audit.len <= world.audit
            /\ audit = [len |-> audit.len, of |-> audit.of]
            /\ audit.of \in [Subs \X Events -> Nat]
            /\ \A k \in Subs \X Events : audit.of[k] <= audit.len
        BY <1>1 DEF GatewayIInv, ChainInv
      <3>2. audit.len \in 0 .. world.audit
        BY <2>4, <3>1
      <3>3. \A k \in Subs \X Events : audit.of[k] \in 0 .. world.audit
        BY <2>4, <3>1
      <3>4. audit.of \in [Subs \X Events -> 0 .. world.audit]
        BY <3>1, <3>3
      <3>. QED
        BY <3>1, <3>2, <3>4
    <2>6. acted \in [Subs \X Ops -> 0 .. world.audit]
      <3>1. ASSUME NEW s \in Subs, NEW op \in Ops PROVE acted[<<s, op>>] \in 0 .. world.audit
        <4>1. <<s, op>> \in Subs \X Events /\ <<s, op>> \in Subs \X Ops
          BY DEF Events
        <4>2. acted[<<s, op>>] + Pending(s, op) <= audit.of[<<s, op>>]
          BY <1>1 DEF GatewayIInv, ChainInv, ActedIsAudited
        <4>3. /\ acted[<<s, op>>] \in Nat /\ audit.of[<<s, op>>] \in Nat
              /\ audit.of[<<s, op>>] <= audit.len /\ audit.len <= world.audit /\ audit.len \in Nat
          BY <1>1, <4>1 DEF GatewayIInv, ChainInv
        <4>4. Pending(s, op) \in Nat
          BY PendingFinite
        <4>. QED
          BY <2>4, <4>2, <4>3, <4>4
      <3>2. acted \in [Subs \X Ops -> Nat]
        BY <1>1 DEF GatewayIInv, ChainInv
      <3>3. \A k \in Subs \X Ops : acted[k] \in 0 .. world.audit
        BY <3>1
      <3>. QED
        BY <3>2, <3>3
    <2>7. \A s \in Subs : bucket[s].tokens \in 0 .. Burst /\ bucket[s].last \in -1 .. clock
      <3>1. ASSUME NEW s \in Subs PROVE bucket[s].tokens \in 0 .. Burst /\ bucket[s].last \in -1 .. clock
        <4>1. /\ bucket[s].tokens \in 0 .. Burst /\ bucket[s].last \in Int /\ bucket[s].last >= -1
              /\ bucket[s].last >= 0 => bucket[s].last <= clock
          BY <1>1 DEF GatewayIInv, SpendInv
        <4>2. clock \in Nat
          BY <1>1 DEF GatewayIInv, EnvInv
        <4>. QED
          BY <4>1, <4>2
      <3>. QED
        BY <3>1
    <2>8. inflight \in [Subs -> 0 .. PerPrincipal] /\ writeGate \in Reqs \cup {NoReq}
          /\ touched \subseteq Subs \X Ops \X Repos
      BY <1>1 DEF GatewayIInv, SlotInv, GateInv, ChainInv
    <2>9. slots \in 0 .. MaxSlots
      <3>1. slots \in Nat /\ slots + Cardinality(Running) = MaxSlots
        BY <1>1 DEF GatewayIInv, SlotInv
      <3>2. Cardinality(Running) \in Nat
        BY HoldingFinite
      <3>. QED
        BY <3>1, <3>2, GatewayAssumption
    <2>. QED
      BY <2>1, <2>2, <2>3, <2>5, <2>6, <2>7, <2>8, <2>9 DEF GatewayTypeOK
  <1>2. ASSUME GatewayIInv PROVE SlotsConserved
    <2>1. Running = {r \in Reqs : At(r, "running")} /\ Queued = {r \in Reqs : At(r, "queued")}
      BY DEF Running, Queued, At
    <2>2. \A s : Holding(s) = {r \in Reqs : req[r].pc \in {"queued", "running"} /\ SubOf(r) = s}
      BY DEF Holding, Byom, SubOf
    <2>. QED
      BY <1>2, <2>1, <2>2 DEF GatewayIInv, SlotInv, SlotsConserved
  <1>3. ASSUME GatewayIInv PROVE SpendBounded
    <2> SUFFICES ASSUME NEW s \in Subs, Up
                 PROVE  spent[s] <= Burst + Refill * (clock - env.since)
      BY DEF SpendBounded
    <2>1. /\ Tokens(s) \in 0 .. Burst
          /\ spent[s] + Tokens(s) <= Burst + Refill * (clock - env.since)
          /\ env.since \in Nat /\ clock \in Nat
      BY <1>3, TokensFacts DEF GatewayIInv
    <2>2. spent[s] \in Nat /\ Burst \in Nat /\ Refill \in Nat
      BY <1>3, GatewayAssumption DEF GatewayIInv, SpendInv
    <2>3. Refill * (clock - env.since) \in Int
      BY <2>1, <2>2
    <2>. QED
      BY <2>1, <2>2, <2>3
  <1>4. GatewayIInv => GatewayInv
    BY <1>1, <1>2, <1>3 DEF GatewayInv, GatewayIInv, GateInv
  <1>. QED
    BY <1>4, GatewayIInvHolds, PTL

(* jit_provision: while a process runs, a membership is added and never    *)
(* changed, whoever races with whom.                                       *)
THEOREM ProvisionOnlyAddsHolds == GatewaySpec => ProvisionOnlyAdds
  <1> DEFINE A == \A s \in Subs : Up /\ env'.up /\ control.members[s] # NoMember
                                  => control'.members[s] = control.members[s]
  <1>1. ASSUME GatewayIInv, GatewayNext PROVE A
    <2>1. ASSUME NEW r \in Reqs, JitProvision(r) PROVE A
      <3> DEFINE s == SubOf(r)
                 m == Entry(LoadAllowlist, req[r].in.tok)
      <3>1. control' = control \/ (control' = Provision(s, m) /\ m # NoMember)
        BY <2>1 DEF JitProvision
      <3>2. req[r].pc # "idle"
        BY <2>1 DEF JitProvision, At
      <3>3. s \in Subs
        BY <1>1, <3>2, SubFacts DEF GatewayIInv
      <3>4. m \in Membership /\ EnvInv
        BY <1>1, EntryType DEF GatewayIInv
      <3> HIDE DEF s, m
      <3>. QED
        BY <3>1, <3>3, <3>4, ProvisionFacts
    <2>2. CASE UNCHANGED control
      BY <2>2
    <2>3. CASE ~Up \/ ~env'.up
      BY <2>3
    <2>4. ASSUME NEW r \in Reqs, Arrive(r) PROVE UNCHANGED control
      BY <2>4 DEF Arrive, Gate, ByomGate, plane
    <2>5. ASSUME NEW r \in Reqs, Step(r), ~JitProvision(r) PROVE UNCHANGED control
      BY <2>5 DEF Step, Authorize, Serve, Assert, CheckpointStart, CheckpointRefused, CheckpointBind,
         CheckpointStore, ByomLimits, ByomStart, ByomFinish, ByomCall, plane
    <2>6. ASSUME NEW r \in Reqs, ClientLeaves(r) PROVE UNCHANGED control
      BY <2>6 DEF ClientLeaves, plane
    <2>7. ASSUME NEW i \in world.inputs, ConnectToken(i.tok) PROVE UNCHANGED control
      BY <2>7 DEF ConnectToken, plane
    <2>8. Tick => UNCHANGED control
      BY DEF Tick, plane
    <2>9. Operator => UNCHANGED control \/ ~Up
      BY DEF Operator, Start, OperatorRevokes, OperatorAllows, OperatorSuspends, Untold
    <2>10. Crash => ~env'.up
      BY DEF Crash, NoEnv
    <2> HIDE DEF A
    <2>. QED
      BY <1>1, <2>1, <2>2, <2>3, <2>4, <2>5, <2>6, <2>7, <2>8, <2>9, <2>10 DEF GatewayNext
  <1>2. GatewayIInv /\ [GatewayNext]_vars => [A]_vars
    BY <1>1
  <1>. QED
    BY <1>2, GatewayIInvHolds, PTL DEF GatewaySpec, ProvisionOnlyAdds

(* Request r touches `where`, and the membership of its principal          *)
(* allows that; no other request has a line handled.                       *)
Touches(r, op, where) ==
    /\ touched' = touched \cup {<<SubOf(r), op, t>> : t \in where}
    /\ \A t \in where : MemberMay(control.members[SubOf(r)], op, t)
    /\ \A q \in Reqs \ {r} : req'[q] = req[q]
    /\ \/ req[r].pc # "running"
       \/ \A t \in where : MetaAllows(req'[r].meta, t, op)

(* What a step touches lies within the principal's authority, and a call   *)
(* with a grant of its own within that grant.                              *)
LEMMA TouchStep ==
    ASSUME GatewayIInv, NEW r \in Reqs,
           \/ Serve(r) \/ Assert(r) \/ CheckpointStore(r)
           \/ \E tool \in Tools, t \in Repos, mg \in MetaGrants \cup {NoMeta} : ByomCall(r, tool, t, mg)
    PROVE  UNCHANGED touched \/ \E op \in Ops, where \in SUBSET Repos : Touches(r, op, where)
  <1>1. CASE Serve(r)
    <2>1. req[r].pc = "allowed" /\ req[r].in.route \in ReadRoutes /\ Finish(r)
      BY <1>1 DEF Serve, At
    <2>2. touched' = touched \cup {<<SubOf(r), "read", t>> : t \in ServeWhere(r)}
      BY <1>1 DEF Serve, ServeWhere, Acts
    <2>3. /\ ServeWhere(r) \in SUBSET Repos
          /\ \A t \in ServeWhere(r) : MemberMay(req[r].m, "read", t)
      BY <2>1, ServeWithin
    <2>4. req[r].m = control.members[SubOf(r)] /\ "allowed" # "running"
      BY <2>1 DEF GatewayIInv, ReqInv, Admitted, Http, SubOf
    <2>5. Only(r)
      BY <2>1, FinishFacts DEF GatewayIInv
    <2>6. Touches(r, "read", ServeWhere(r))
      BY <2>1, <2>2, <2>3, <2>4, <2>5 DEF Touches, Only
    <2>. QED
      BY <2>3, <2>6 DEF Ops
  <1>2. CASE Assert(r) \/ CheckpointStore(r)
    <2> DEFINE t == req[r].in.repo
    <2>1. /\ req[r].pc \in {"allowed", "binding"} /\ Finish(r)
          /\ touched' = touched \cup {<<SubOf(r), "write", u>> : u \in {t}}
          /\ (req[r].pc = "allowed" => req[r].in.route = "assert")
      BY <1>2 DEF Assert, CheckpointStore, At, Acts
    <2>2. req[r].pc \in Http /\ req[r].pc # "idle" /\ (req[r].pc = "binding" => req[r].pc \in Gated)
      BY <2>1 DEF Http, Gated
    <2>3. ReqOK(req[r]) /\ InputOK(req[r].in)
      BY <2>2, SubFacts DEF GatewayIInv
    <2>4. req[r].in.route \in {"assert", "checkpoint"}
      BY <2>1, <2>2, <2>3 DEF ReqOK
    <2>5. t \in Repos /\ OpOf(req[r].in) = "write" /\ req[r].in.route # "layout"
      BY <2>3, <2>4 DEF InputOK, OpOf
    <2>6. MemberMay(req[r].m, "write", t)
      BY <2>2, <2>3, <2>5 DEF ReqOK, HttpWithin
    <2>7. req[r].m = control.members[SubOf(r)] /\ req[r].pc # "running"
      BY <2>1, <2>2 DEF GatewayIInv, ReqInv, Admitted, SubOf
    <2>8. Only(r)
      BY <2>1, FinishFacts DEF GatewayIInv
    <2>9. Touches(r, "write", {t})
      BY <2>1, <2>6, <2>7, <2>8 DEF Touches, Only
    <2>. QED
      BY <2>5, <2>9 DEF Ops
  <1>3. ASSUME NEW tool \in Tools, NEW t \in Repos, NEW mg \in MetaGrants \cup {NoMeta},
               ByomCall(r, tool, t, mg), ~UNCHANGED touched
        PROVE  \E op \in Ops, where \in SUBSET Repos : Touches(r, op, where)
    <2> DEFINE op == ToolOp(tool)
               where == CallWhere(r, tool, t, mg)
               meta == IF MetaOk(r, mg) THEN mg ELSE NoMeta
    <2>1. /\ req[r].pc = "running" /\ MetaOk(r, mg) /\ CallAllowed(r, tool, t, mg)
          /\ touched' = touched \cup {<<SubOf(r), op, u>> : u \in where}
      BY <1>3 DEF ByomCall, At, CallAllowed, CallWhere, Acts
    <2>2. Lines(r, req[r].left - 1, meta) /\ meta = mg
      BY <1>3, <2>1 DEF ByomCall, Lines
    <2> HIDE DEF meta
    <2>3. IsReq(req[r]) /\ req[r].m = control.members[SubOf(r)]
      BY <2>1, PlaceFacts DEF Byom
    <2>4. Only(r) /\ req'[r].meta = mg
      BY <2>2, <2>3, LineFacts DEF GatewayIInv
    <2>5. /\ where \in SUBSET Repos
          /\ \A u \in where : MemberMay(req[r].m, op, u) /\ MetaAllows(mg, u, op)
      BY <2>1, CallWithin
    <2>6. op \in Ops
      BY DEF ToolOp, Ops
    <2> HIDE DEF op, where
    <2>7. Touches(r, op, where)
      BY <2>1, <2>3, <2>4, <2>5 DEF Touches, Only
    <2>. QED
      BY <2>5, <2>6, <2>7
  <1>. QED
    BY <1>1, <1>2, <1>3

(* readable_neighbors, can_read: an operation only touches repos that the  *)
(* principal's membership, and a call's own grant, let it touch.           *)
THEOREM TouchesWithinAuthorityHolds == GatewaySpec => TouchesWithinAuthority
  <1> DEFINE A == /\ \A x \in touched' \ touched : MemberMay(control.members[x[1]], x[2], x[3])
                  /\ \A r \in Reqs : At(r, "running") /\ req'[r].left < req[r].left =>
                        \A x \in touched' \ touched : MetaAllows(req'[r].meta, x[3], x[2])
  <1>1. ASSUME UNCHANGED touched PROVE A
    BY <1>1
  <1>2. ASSUME GatewayIInv, NEW r \in Reqs, NEW op \in Ops, NEW where \in SUBSET Repos, Touches(r, op, where)
        PROVE  A
    <2>1. ASSUME NEW x \in touched' \ touched
          PROVE  /\ MemberMay(control.members[x[1]], x[2], x[3])
                 /\ req[r].pc # "running" \/ MetaAllows(req'[r].meta, x[3], x[2])
      <3>1. PICK t \in where : x = <<SubOf(r), op, t>>
        BY <1>2 DEF Touches
      <3>2. x[1] = SubOf(r) /\ x[2] = op /\ x[3] = t
        BY <3>1
      <3>. QED
        BY <1>2, <3>2 DEF Touches
    <2>2. ASSUME NEW q \in Reqs, q # r PROVE ~(req'[q].left < req[q].left)
      <3>1. req'[q] = req[q]
        BY <1>2, <2>2 DEF Touches
      <3>2. req[q].left \in 0 .. MaxLines
        BY <1>2 DEF GatewayIInv, ReqInv, ReqOK
      <3>. QED
        BY <3>1, <3>2
    <2>. QED
      BY <2>1, <2>2 DEF At
  <1>3. ASSUME GatewayIInv, GatewayNext PROVE A
    <2>1. ASSUME NEW r \in Reqs, Arrive(r) PROVE UNCHANGED touched
      BY <2>1 DEF Arrive, Gate, ByomGate, NoWork
    <2>2. ASSUME NEW r \in Reqs, Step(r)
          PROVE  \/ UNCHANGED touched \/ Serve(r) \/ Assert(r) \/ CheckpointStore(r)
                 \/ \E tool \in Tools, t \in Repos, mg \in MetaGrants \cup {NoMeta} : ByomCall(r, tool, t, mg)
      BY <2>2 DEF Step, JitProvision, Authorize, CheckpointStart, CheckpointRefused, CheckpointBind,
         ByomLimits, ByomStart, ByomFinish, NoWork
    <2>3. ASSUME NEW r \in Reqs, ClientLeaves(r) PROVE UNCHANGED touched
      BY <2>3 DEF ClientLeaves
    <2>4. ASSUME NEW i \in world.inputs, ConnectToken(i.tok) PROVE UNCHANGED touched
      BY <2>4 DEF ConnectToken, NoWork
    <2>5. Tick => UNCHANGED touched
      BY DEF Tick, NoWork
    <2>6. Operator => UNCHANGED touched
      BY DEF Operator, Start, OperatorRevokes, OperatorAllows, OperatorSuspends, Untold, NoWork
    <2>7. Crash => UNCHANGED touched
      BY DEF Crash
    <2>8. ASSUME NEW r \in Reqs, Step(r) PROVE A
      <3> HIDE DEF A
      <3>. QED
        BY <1>1, <1>2, <1>3, <2>2, <2>8, TouchStep
    <2> HIDE DEF A
    <2>. QED
      BY <1>1, <1>3, <2>1, <2>3, <2>4, <2>5, <2>6, <2>7, <2>8 DEF GatewayNext
  <1>4. GatewayIInv /\ [GatewayNext]_vars => [A]_vars
    BY <1>3
  <1>. QED
    BY <1>4, GatewayIInvHolds, PTL DEF GatewaySpec, TouchesWithinAuthority

=============================================================================
