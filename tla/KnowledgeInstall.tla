--------------------------- MODULE KnowledgeInstall ---------------------------
(***************************************************************************)
(* What installing a knowledge corpus promises: a store learns, of every   *)
(* tenant, only what belongs to one published edition, forgets a tenant    *)
(* only as a whole, and records an edition only when it holds all of it.   *)
(* How editions are built, shipped, damaged, verified and imported in      *)
(* batches is the business of CorpusRelease, which implements this.        *)
(***************************************************************************)
CONSTANTS
    Tenants,      \* the knowledge tenants
    TenantOf(_),  \* the tenant of an item
    NoEdition

VARIABLES
    published,  \* editions that left the builder: [tenant, items]
    known,      \* the items the store shows
    edition     \* per tenant, the edition recorded as installed

installVars == <<published, known, edition>>

InstallInit ==
    /\ published = {}
    /\ known = {}
    /\ edition = [t \in Tenants |-> NoEdition]

(* An edition names one tenant, and so do its items.                       *)
OfOneTenant(b) == b.tenant \in Tenants /\ \A i \in b.items : TenantOf(i) = b.tenant

Publish ==
    /\ published \subseteq published'
    /\ \A b \in published' \ published : OfOneTenant(b)
    /\ UNCHANGED <<known, edition>>

(* Any part of an edition may arrive by itself.                            *)
Learn ==
    /\ known \subseteq known'
    /\ \E b \in published : known' \ known \subseteq b.items
    /\ UNCHANGED <<published, edition>>

Record ==
    /\ \E b \in published :
         /\ b.items \subseteq known
         /\ edition' = [edition EXCEPT ![b.tenant] = b]
    /\ UNCHANGED <<published, known>>

Forget ==
    /\ \E t \in Tenants :
         /\ known' = {i \in known : TenantOf(i) # t}
         /\ edition' = [edition EXCEPT ![t] = NoEdition]
    /\ UNCHANGED published

InstallNext == Publish \/ Learn \/ Record \/ Forget

InstallSpec == InstallInit /\ [][InstallNext]_installVars
=============================================================================
