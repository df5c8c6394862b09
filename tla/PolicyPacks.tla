----------------------------- MODULE PolicyPacks -----------------------------
(***************************************************************************)
(* The policy packs one runtime holds in memory (internals/policy-packs):  *)
(* the registry of published versions, the pins of the workspaces of a     *)
(* tenant, the proposals to upgrade, and the resolution of the pack under  *)
(* which a request is captured (routes/requests/shared.ts). Between the    *)
(* checks of a publication and its insertion lies a digest that is awaited;*)
(* every other operation runs without a pause.                             *)
(***************************************************************************)
EXTENDS Naturals, FiniteSets

CONSTANTS
  Jurisdictions,   \* codes packs are registered under, "global" among them
  PackNames,       \* names of packs
  PackVersions,    \* versions, ordered as compareSemver orders them
  Launch,          \* the launch catalogue: jurisdiction, name and version
  Workspaces,      \* workspaces of the tenant; the tenant itself is Tenantwide
  Publishers,      \* publications under way at the same time
  Proposals,       \* ids of proposals
  MaxPublished,    \* bound: packs ever offered
  MaxRestarts      \* bound: times the process starts again

ASSUME PacksAssumption ==
  /\ PackVersions \subseteq Nat \ {0} /\ "global" \in Jurisdictions
  /\ \A l \in Launch : l.version \in PackVersions
  /\ MaxPublished \in Nat /\ MaxRestarts \in Nat

VARIABLES
  registry,     \* store: the records by jurisdiction and version
  pins,         \* the version each scope has pinned; NoPin: none
  offered,      \* the record each publisher is to insert
  proposals,    \* the upgrade proposals
  published,    \* bounded counter; tells the contents of two packs apart
  restarts,     \* bounded counter
  evaluated     \* history: records requests were captured under in this life

packVars == <<registry, pins, offered, proposals, published, restarts, evaluated>>

Tenantwide == "tenant"
PinScopes  == Workspaces \cup {Tenantwide}
NoPin      == 0
NoRecord   == [jurisdiction |-> "none", name |-> "none", version |-> 0, content |-> 0]
NoProposal == [status |-> "none", scope |-> Tenantwide, to |-> 0]

LaunchRecords ==
  {[jurisdiction |-> l.jurisdiction, name |-> l.name, version |-> l.version, content |-> 0] :
     l \in Launch}

(* getByVersion: at most one record.                                       *)
ByVersion(j, v) == {r \in registry : r.jurisdiction = j /\ r.version = v}
ByJurisdiction(j) == {r \in registry : r.jurisdiction = j}

(* Everything but the bounds starts anew with the process.                 *)
PacksInit ==
  /\ registry = LaunchRecords
  /\ pins = [s \in PinScopes |-> NoPin]
  /\ offered = [p \in Publishers |-> NoRecord]
  /\ proposals = [i \in Proposals |-> NoProposal]
  /\ published = 0 /\ restarts = 0 /\ evaluated = {}

(* resolveActivePolicyPack: the pin of the workspace, that of the tenant,  *)
(* or the latest version of the jurisdiction - looked up under the         *)
(* jurisdiction of the request, which a pin does not know.                 *)
Resolved(scope, j) ==
  LET pin == IF pins[scope] # NoPin THEN pins[scope] ELSE pins[Tenantwide] IN
  IF pin # NoPin THEN ByVersion(j, pin)
  ELSE {r \in ByJurisdiction(j) : \A q \in ByJurisdiction(j) : q.version <= r.version}
-----------------------------------------------------------------------------
(* publish reads the records and checks the new one against those of its   *)
(* name: its version is later.                                             *)
OfferPack(p) ==
  \E j \in Jurisdictions, n \in PackNames, v \in PackVersions :
    /\ offered[p] = NoRecord /\ published < MaxPublished
    /\ \A r \in ByJurisdiction(j) : r.name = n => r.version < v
    /\ offered' = [offered EXCEPT ![p] =
         [jurisdiction |-> j, name |-> n, version |-> v, content |-> published + 1]]
    /\ published' = published + 1
    /\ UNCHANGED <<registry, pins, proposals, restarts, evaluated>>

(* A mutant: the record replaces one with its key.                         *)
InsertPackAnyway(p) ==
  LET r == offered[p] IN
  /\ r # NoRecord
  /\ registry' = (registry \ ByVersion(r.jurisdiction, r.version)) \cup {r}
  /\ offered' = [offered EXCEPT ![p] = NoRecord]
  /\ UNCHANGED <<pins, proposals, published, restarts, evaluated>>

(* The digest is there: the record is inserted unless its key, which knows *)
(* no name, is taken - PolicyVersionAlreadyExistsError.                    *)
InsertPack(p) ==
  LET r == offered[p] IN
  /\ r # NoRecord
  /\ registry' = IF ByVersion(r.jurisdiction, r.version) = {} THEN registry \cup {r} ELSE registry
  /\ offered' = [offered EXCEPT ![p] = NoRecord]
  /\ UNCHANGED <<pins, proposals, published, restarts, evaluated>>

(* activateCustomPolicyPack pins any version the registry has.             *)
Activate ==
  \E s \in PinScopes, r \in registry :
    /\ pins' = [pins EXCEPT ![s] = r.version]
    /\ UNCHANGED <<registry, offered, proposals, published, restarts, evaluated>>

Deactivate ==
  \E s \in PinScopes :
    /\ pins[s] # NoPin
    /\ pins' = [pins EXCEPT ![s] = NoPin]
    /\ UNCHANGED <<registry, offered, proposals, published, restarts, evaluated>>

(* propose looks both versions up under "global".                          *)
Propose ==
  \E i \in Proposals, s \in PinScopes, from, to \in ByJurisdiction("global") :
    /\ proposals[i] = NoProposal
    /\ proposals' = [proposals EXCEPT ![i] =
         [status |-> "pending_approval", scope |-> s, to |-> to.version]]
    /\ UNCHANGED <<registry, pins, offered, published, restarts, evaluated>>

(* approve asks for the role and not for the status of the proposal.       *)
Approve ==
  \E i \in Proposals :
    /\ proposals[i] # NoProposal
    /\ proposals' = [proposals EXCEPT ![i].status = "approved"]
    /\ UNCHANGED <<registry, pins, offered, published, restarts, evaluated>>

Apply ==
  \E i \in Proposals :
    /\ proposals[i].status = "approved"
    /\ pins' = [pins EXCEPT ![proposals[i].scope] = proposals[i].to]
    /\ proposals' = [proposals EXCEPT ![i].status = "applied"]
    /\ UNCHANGED <<registry, offered, published, restarts, evaluated>>

(* A request is captured; where nothing is resolved the answer is          *)
(* POLICY_JURISDICTION_UNMAPPED and nothing changes.                       *)
CaptureUnder ==
  \E s \in PinScopes, j \in Jurisdictions :
    /\ Resolved(s, j) # {}
    /\ evaluated' = evaluated \cup Resolved(s, j)
    /\ UNCHANGED <<registry, pins, offered, proposals, published, restarts>>

(* The process starts again: the layer is built anew, nothing was stored.  *)
Restart ==
  /\ restarts < MaxRestarts /\ restarts' = restarts + 1
  /\ registry' = LaunchRecords
  /\ pins' = [s \in PinScopes |-> NoPin]
  /\ offered' = [p \in Publishers |-> NoRecord]
  /\ proposals' = [i \in Proposals |-> NoProposal]
  /\ evaluated' = {}
  /\ UNCHANGED published

PacksNext ==
  \/ \E p \in Publishers : OfferPack(p) \/ InsertPack(p)
  \/ Activate \/ Deactivate \/ Propose \/ Approve \/ Apply \/ CaptureUnder \/ Restart

PacksSpec == PacksInit /\ [][PacksNext]_packVars
-----------------------------------------------------------------------------
(* Properties.                                                             *)

(* The registry is immutable: as long as the process lives, the version a  *)
(* request says it was evaluated under is the pack it was evaluated under, *)
(* whatever is published, also under other names at the same time, and a   *)
(* scope never pins a version nobody registered.                           *)
VersionsStand ==
  /\ evaluated \subseteq registry
  /\ \A s \in PinScopes : pins[s] # NoPin => \E r \in registry : r.version = pins[s]

(* dsar-be-1301.mdx:11: POLICY_JURISDICTION_UNMAPPED says that no pack     *)
(* exists for the jurisdiction of the request.                             *)
UnmappedHasNoPack ==
  \A s \in PinScopes, j \in Jurisdictions : Resolved(s, j) = {} => ByJurisdiction(j) = {}
=============================================================================
