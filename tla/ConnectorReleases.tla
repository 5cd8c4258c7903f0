-------------------------- MODULE ConnectorReleases --------------------------
(***************************************************************************)
(* The connector engineer: capability packs compiled from what the account *)
(* brokers deploy, certified, released, superseded and rolled back         *)
(* (connector_engineer.py, pipedream_connect.py, main.py).                 *)
(*                                                                         *)
(* Grain.  A tick drains the requests of its process, then works through   *)
(* the pipedream catalog and commits, then through the nango catalog and   *)
(* commits; every integration is engineered inside its own savepoint.  One *)
(* provider with one nango integration is modelled, and a few pipedream    *)
(* apps, all of which have an executable strategy.                         *)
(***************************************************************************)
EXTENDS Naturals, Sequences, FiniteSets

CONSTANTS
  Configurations, \* planes that have credentials, in the cases checked
  Replicas,    \* processes of the API, each with a connector_engineer_loop
  Defs,        \* what the nango integration may deploy, by definition_hash
  Apps,        \* pipedream apps
  Contracts,   \* what an app may offer, by definition_hash
  Threshold,   \* connector_engineer_canary_failure_threshold
  MaxBatch,    \* connector_engineer_max_integrations_per_scan
  MaxIncidents, \* bound: outages, refusals, crashes, rotations of the signing key
  MaxDeploys,  \* bound: how often the integration is deployed anew
  NoDef, NoReplica

ASSUME ReleaseAssumption ==
  /\ Configurations \subseteq SUBSET {"nango", "pipedream"}
  /\ Threshold \in Nat \ {0} /\ MaxBatch \in Nat \ {0}
  /\ MaxIncidents \in Nat /\ MaxDeploys \in Nat
  /\ NoDef \notin Defs /\ NoReplica \notin Replicas /\ Contracts # {}

VARIABLES
  configured,  \* the planes with credentials; does not change
  fixture,     \* the provider has a dedicated canary account
  deployed,    \* the definition that the integration compiles to
  deploys,     \* how often it was deployed anew
  rel,         \* managed_connector_releases of the provider
  vendor,      \* the contract an app offers
  packs,       \* broker_capability_packs, by version
  pending,     \* _pending_pipedream_certifications of a process
  wake,        \* _pipedream_certification_wakeup of a process
  scan,        \* the tick that leads, and the requests it has drained
  stale,       \* planes whose snapshot is older than the scan interval
  incidents,   \* outages, refusals, crashes and rotations so far
  wanted,      \* history: apps asked for and neither certified, refused nor lost in a crash
  proved,      \* history: definitions that have passed a canary
  failed       \* history: canaries in a row that a definition has failed

releaseVars == <<configured, fixture, deployed, deploys, rel, vendor, packs, pending, wake,
                 scan, stale, incidents, wanted, proved, failed>>
nango == <<fixture, deployed, deploys, rel, proved, failed>>
broker == <<vendor, packs, wanted>>

Stages == {"none", "isolated", "awaiting_canary", "canary", "released", "superseded",
           "quarantined", "rejected", "rolled_back"}

\* bad is consecutive_canary_failures (a count from Threshold on decides the
\* same), due says that the canary's evidence is older than its TTL.
Release == [st : Stages, prev : Defs \cup {NoDef}, bad : 0..Threshold, due : BOOLEAN,
            signed : BOOLEAN]
Pack    == [k : Contracts, st : {"released", "superseded"}, signed : BOOLEAN]

NotCompiled == [st |-> "none", prev |-> NoDef, bad |-> 0, due |-> TRUE, signed |-> TRUE]
NoScan      == [by |-> NoReplica, plane |-> "none", asked |-> {}]

\* released_connectors: what the marketplace and the planner are offered.
Released == {d \in Defs : rel[d].st = "released" /\ rel[d].signed}

\* released_pack: the newest released version whose signature is valid.
ReleasedPack(p) == \E i \in 1..Len(packs[p]) : packs[p][i].st = "released" /\ packs[p][i].signed
-------------------------------------------------------------------------------
\* The nango plane

AllowedTransitions ==
  [none |-> {"isolated"},
   isolated |-> {"awaiting_canary", "canary", "rejected"},
   awaiting_canary |-> {"canary", "rejected"},
   canary |-> {"released", "rejected", "quarantined"},
   released |-> {"superseded", "quarantined", "rolled_back"},
   superseded |-> {"released", "rolled_back"},
   quarantined |-> {"rolled_back", "canary"},
   rejected |-> {"canary"},
   rolled_back |-> {"canary"}]

\* transition_release raises unless this holds.
MayBecome(row, target) == target = row.st \/ target \in AllowedTransitions[row.st]

\* Mutant: the version that is replaced stays released.
PromotedBeside(rows, d) ==
  [rows EXCEPT ![d] = [@ EXCEPT !.st = "released", !.bad = 0, !.due = FALSE]]

\* _promote_release: every other released version gives way.  The last
\* conjunct of a promotion keeps an earlier previous_release_id when nothing
\* gives way.
Promoted(rows, d) ==
  LET current == {e \in Defs \ {d} : rows[e].st = "released"}
  IN [e \in Defs |->
        IF e = d THEN [rows[d] EXCEPT !.st = "released", !.bad = 0, !.due = FALSE,
                         !.prev = IF current = {} THEN @ ELSE CHOOSE c \in current : TRUE]
        ELSE IF e \in current THEN [rows[e] EXCEPT !.st = "superseded"] ELSE rows[e]]

\* _rollback_release: the predecessor comes back if its signature is valid.
\* Its transition raises when it is not superseded; the savepoint then undoes
\* the whole integration, the count of failures included.
RolledBack(rows, d) ==
  LET prev    == rows[d].prev
      left    == [rows EXCEPT ![d].st = IF prev = NoDef THEN "quarantined" ELSE "rolled_back"]
      returns == prev # NoDef /\ rows[prev].signed
  IN IF ~returns THEN left
     ELSE IF MayBecome(rows[prev], "released") THEN [left EXCEPT ![prev].st = "released"]
     ELSE rel

\* Mutant: one failed canary rolls a release back.
FailedCanaryAtOnce(rows, d) ==
  LET counted == [rows EXCEPT ![d].due = FALSE]
  IN IF rel[d].st # "released" THEN [counted EXCEPT ![d].st = "rejected"]
     ELSE RolledBack(counted, d)

\* What a version becomes after a canary that failed.
FailedCanary(rows, d) ==
  LET bad == IF rows[d].bad < Threshold THEN rows[d].bad + 1 ELSE Threshold
      counted == [rows EXCEPT ![d].bad = bad, ![d].due = FALSE]
  IN IF rel[d].st # "released" THEN [counted EXCEPT ![d].st = "rejected"]
     ELSE IF bad >= Threshold THEN RolledBack(counted, d) ELSE counted

\* isolate_definition, sign_release and _stamp_manifest: what a definition that
\* was not seen before is stored as, in one step.
Stamped == [NotCompiled EXCEPT !.st = "isolated"]

Isolated(d) == IF rel[d].st = "none" THEN [rel EXCEPT ![d] = Stamped] ELSE rel

\* canary_release: every operation of a version answers on the canary account;
\* a version whose signature is invalid fails unread.
CanaryRelease(row, passed) == passed /\ row.signed

\* Versions that the engineer looks at again.
Examinable == {"isolated", "awaiting_canary", "released", "rejected", "quarantined",
               "rolled_back"}

\* _engineer_integration.  passed is what the canary account answers.
EngineerIntegration(d, passed) ==
  LET rows == Isolated(d)
      row  == rows[d]
      good == CanaryRelease(row, passed)
  IN IF ~fixture
     THEN /\ rel' = IF row.st = "isolated"
                    THEN [rows EXCEPT ![d].st = "awaiting_canary"] ELSE rows
          /\ UNCHANGED <<proved, failed>>
     ELSE IF row.st \notin Examinable \/ (row.st = "released" /\ ~row.due)
     THEN rel' = rows /\ UNCHANGED <<proved, failed>>
     ELSE /\ rel' = IF ~good THEN FailedCanary(rows, d)
                    ELSE IF row.st = "released" THEN [rows EXCEPT ![d].bad = 0, ![d].due = FALSE]
                    ELSE Promoted(rows, d)
          /\ proved' = IF good THEN proved \cup {d} ELSE proved
          /\ failed' = [failed EXCEPT ![d] =
                          IF good THEN 0 ELSE IF @ < Threshold THEN @ + 1 ELSE @]

\* compile_nango_definition: what the functions of the integration compile to;
\* none when there is nothing that can be certified.
Compiled == deployed

\* engineer_nango_catalog.  Providers and integrations are listed first; an
\* outage ends the plane before anything is stored.
NangoCatalog ==
  /\ scan.plane = "nango"
  /\ scan' = NoScan
  /\ \/ /\ "nango" \in configured /\ Compiled # NoDef
        /\ \E passed \in BOOLEAN : EngineerIntegration(Compiled, passed)
        /\ stale' = stale \ {"nango"}
        /\ UNCHANGED incidents
     \/ /\ "nango" \in configured /\ Compiled = NoDef
        /\ stale' = stale \ {"nango"}
        /\ UNCHANGED <<rel, proved, failed, incidents>>
     \/ /\ "nango" \in configured /\ incidents < MaxIncidents
        /\ incidents' = incidents + 1
        /\ UNCHANGED <<rel, proved, failed, stale>>
     \/ /\ "nango" \notin configured
        /\ UNCHANGED <<rel, proved, failed, stale, incidents>>
  /\ UNCHANGED <<configured, fixture, deployed, deploys, vendor, packs, pending, wake, wanted>>
-------------------------------------------------------------------------------
\* The pipedream plane

\* compile_action_manifest, compile_mcp_manifest: the contract an app compiles to.
Manifest(p) == vendor[p]

\* certify_app: a version with this contract that is still signed is kept as
\* it is; otherwise the released ones are superseded and a new one is added.
Certified(p) ==
  LET same == {i \in 1..Len(packs[p]) : packs[p][i].k = Manifest(p)}
      last == CHOOSE i \in same : \A j \in same : j <= i
  IN IF same # {} /\ packs[p][last].signed THEN packs[p]
     ELSE Append([i \in 1..Len(packs[p]) |-> [packs[p][i] EXCEPT !.st = "superseded"]],
                 [k |-> Manifest(p), st |-> "released", signed |-> TRUE])

\* The requests that a scan takes up before it warms popular apps.
Batches(asked) ==
  LET n == IF Cardinality(asked) < MaxBatch THEN Cardinality(asked) ELSE MaxBatch
  IN {b \in SUBSET Apps : /\ Cardinality(b) <= MaxBatch
                          /\ Cardinality(b \cap asked) = n}

\* queue_pipedream_certification, of the apps of a set.
Queue(r, apps) ==
  /\ pending' = [pending EXCEPT ![r] = @ \cup apps]
  /\ wake' = IF apps = {} THEN wake ELSE [wake EXCEPT ![r] = TRUE]

\* A failed popularity refresh puts the requests back.
ListFails ==
  /\ incidents < MaxIncidents
  /\ Queue(scan.by, scan.asked)
  /\ incidents' = incidents + 1
  /\ UNCHANGED <<packs, wanted, stale>>

\* The batch is certified app by app.  An app that failed for a while, and the
\* requests beyond the batch, go back to the queue of the process; an app that
\* is refused does not.
CertifyBatch ==
  \E batch \in Batches(scan.asked) : \E later, refused \in SUBSET batch :
     /\ later \cap refused = {}
     /\ later \cup refused = {} \/ incidents < MaxIncidents
     /\ packs' = [p \in Apps |-> IF p \in batch \ (later \cup refused)
                                 THEN Certified(p) ELSE packs[p]]
     /\ Queue(scan.by, (scan.asked \ batch) \cup later)
     /\ wanted' = wanted \ (batch \ later)
     /\ incidents' = IF later \cup refused = {} THEN incidents ELSE incidents + 1
     /\ stale' = stale \ {"pipedream"}

\* engineer_pipedream_catalog; the nango plane follows whatever happened.
PipedreamCatalog ==
  /\ scan.plane = "pipedream"
  /\ scan' = [scan EXCEPT !.plane = "nango", !.asked = {}]
  /\ IF "pipedream" \in configured THEN ListFails \/ CertifyBatch
     ELSE UNCHANGED <<packs, pending, wake, wanted, stale, incidents>>
  /\ UNCHANGED <<configured, nango, vendor>>

\* What search_connector_broker_apps lists as connectable.
Connectable(p) == "pipedream" \in configured /\ ReleasedPack(p)

\* search_connector_broker_apps and create_connector_broker_session, at one
\* process: an app without a released pack is queued for certification.
Search(r, p) ==
  /\ "pipedream" \in configured /\ ~Connectable(p)
  /\ p \notin pending[r]
  /\ Queue(r, {p})
  /\ wanted' = wanted \cup {p}
  /\ UNCHANGED <<configured, nango, vendor, packs, scan, stale, incidents>>
-------------------------------------------------------------------------------
\* The loop, and what goes on around it

\* connector_engineer_tick: one process leads; without requests of its own it
\* leaves a catalog alone that is not due.
BeginScan(r, force) ==
  /\ scan.by = NoReplica
  /\ force \/ pending[r] # {} \/ stale # {}
  /\ scan' = [by |-> r, plane |-> "pipedream", asked |-> pending[r]]
  /\ pending' = [pending EXCEPT ![r] = {}]
  /\ UNCHANGED <<configured, nango, broker, stale, incidents>>

\* Mutant: the loop waits for the event alone.
TickOnEvent(r) == wake[r] /\ BeginScan(r, FALSE) /\ wake' = [wake EXCEPT ![r] = FALSE]

\* connector_engineer_loop: a round begins when an app was queued, or when the
\* scan interval has passed.  The event is cleared before the tick.
Tick(r)   == BeginScan(r, FALSE) /\ wake' = [wake EXCEPT ![r] = FALSE]

\* A round that does not lead, or finds nothing due.
IdleTick(r) ==
  /\ wake[r] /\ scan.by # r
  /\ scan.by # NoReplica \/ (pending[r] = {} /\ stale = {})
  /\ wake' = [wake EXCEPT ![r] = FALSE]
  /\ UNCHANGED <<configured, nango, broker, pending, scan, stale, incidents>>

\* scan_connector_engineer_catalog, by an administrator.
ScanNow(r) == BeginScan(r, TRUE) /\ UNCHANGED wake

IntervalPasses ==
  /\ stale # configured
  /\ stale' = configured
  /\ UNCHANGED <<configured, nango, broker, pending, wake, scan, incidents>>

\* _canary_due
CanaryExpires(d) ==
  /\ rel[d].st # "none" /\ ~rel[d].due
  /\ rel' = [rel EXCEPT ![d].due = TRUE]
  /\ UNCHANGED <<configured, fixture, deployed, deploys, proved, failed, broker, pending, wake,
                 scan, stale, incidents>>

\* A process dies with its queue and its scan.
ReplicaDies(r) ==
  LET held == pending[r] \cup (IF scan.by = r THEN scan.asked ELSE {})
  IN /\ incidents < MaxIncidents
     /\ pending' = [pending EXCEPT ![r] = {}]
     /\ wake' = [wake EXCEPT ![r] = FALSE]
     /\ scan' = IF scan.by = r THEN NoScan ELSE scan
     /\ wanted' = wanted \ held
     /\ incidents' = incidents + 1
     /\ UNCHANGED <<configured, nango, vendor, packs, stale>>

\* The operator configures a canary account, or another signing key, and
\* starts the processes anew; neither is done during a scan here.
AddFixture ==
  /\ ~fixture /\ "nango" \in configured
  /\ fixture' = TRUE
  /\ UNCHANGED <<configured, deployed, deploys, rel, proved, failed, broker, pending, wake, scan,
                 stale, incidents>>

RotateKey ==
  /\ incidents < MaxIncidents /\ scan = NoScan
  /\ rel' = [d \in Defs |-> [rel[d] EXCEPT !.signed = rel[d].st = "none"]]
  /\ packs' = [p \in Apps |-> [i \in 1..Len(packs[p]) |->
                                 [packs[p][i] EXCEPT !.signed = FALSE]]]
  /\ incidents' = incidents + 1
  /\ pending' = [r \in Replicas |-> {}] /\ wake' = [r \in Replicas |-> FALSE]
  /\ wanted' = {}
  /\ UNCHANGED <<configured, fixture, deployed, deploys, vendor, proved, failed, scan, stale>>

\* The integration is deployed anew, or an app changes at its vendor.
Deploy(d) ==
  /\ "nango" \in configured /\ d # deployed /\ deploys < MaxDeploys
  /\ deployed' = d /\ deploys' = deploys + 1
  /\ UNCHANGED <<configured, fixture, rel, proved, failed, broker, pending, wake, scan, stale,
                 incidents>>

VendorChanges(p, k) ==
  /\ "pipedream" \in configured /\ vendor[p] # k /\ deploys < MaxDeploys
  /\ vendor' = [vendor EXCEPT ![p] = k] /\ deploys' = deploys + 1
  /\ UNCHANGED <<configured, fixture, deployed, rel, proved, failed, packs, wanted, pending,
                 wake, scan, stale, incidents>>
-------------------------------------------------------------------------------
ReleaseInit ==
  /\ configured \in Configurations
  /\ fixture \in BOOLEAN /\ (fixture => "nango" \in configured)
  /\ deployed \in Defs \cup {NoDef} /\ (deployed # NoDef => "nango" \in configured)
  /\ deploys = 0
  /\ rel = [d \in Defs |-> NotCompiled]
  /\ vendor \in [Apps -> {CHOOSE k \in Contracts : TRUE}]
  /\ packs = [p \in Apps |-> <<>>]
  /\ pending = [r \in Replicas |-> {}] /\ wake = [r \in Replicas |-> FALSE]
  /\ scan = NoScan
  /\ stale = configured
  /\ incidents = 0
  /\ wanted = {} /\ proved = {} /\ failed = [d \in Defs |-> 0]

ReleaseNext ==
  \/ NangoCatalog \/ PipedreamCatalog \/ IntervalPasses \/ AddFixture \/ RotateKey
  \/ \E r \in Replicas : Tick(r) \/ IdleTick(r) \/ ScanNow(r) \/ ReplicaDies(r)
  \/ \E r \in Replicas, p \in Apps : Search(r, p)
  \/ \E d \in Defs : CanaryExpires(d) \/ Deploy(d)
  \/ \E p \in Apps, k \in Contracts : VendorChanges(p, k)

ReleaseSpec == ReleaseInit /\ [][ReleaseNext]_releaseVars

\* A tick ends, and a process whose loop wakes again and again comes to lead:
\* the leader lets go of the lock after every tick.
FairReleases ==
  /\ ReleaseSpec
  /\ WF_releaseVars(PipedreamCatalog) /\ WF_releaseVars(NangoCatalog)
  /\ \A r \in Replicas : SF_releaseVars(Tick(r))
-------------------------------------------------------------------------------
ReleaseTypeOK ==
  /\ configured \subseteq {"nango", "pipedream"} /\ stale \subseteq configured
  /\ fixture \in BOOLEAN
  /\ deployed \in Defs \cup {NoDef} /\ deploys \in 0..MaxDeploys
  /\ rel \in [Defs -> Release]
  /\ vendor \in [Apps -> Contracts]
  /\ \A p \in Apps : \A i \in 1..Len(packs[p]) : packs[p][i] \in Pack
  /\ pending \in [Replicas -> SUBSET Apps] /\ wake \in [Replicas -> BOOLEAN]
  /\ scan \in [by : Replicas \cup {NoReplica}, plane : {"none", "pipedream", "nango"},
               asked : SUBSET Apps]
  /\ incidents \in 0..MaxIncidents
  /\ wanted \subseteq Apps /\ proved \subseteq Defs /\ failed \in [Defs -> 0..Threshold]

\* One version of a connector is released at a time, however versions are
\* promoted, superseded and brought back, and of an app the newest version.
OneRelease ==
  /\ \A d, e \in Defs : rel[d].st = "released" /\ rel[e].st = "released" => d = e
  /\ \A p \in Apps : \A i \in 1..Len(packs[p]) :
       packs[p][i].st = "released" <=> i = Len(packs[p])

\* What is offered has passed a canary of its own, a version that was brought
\* back by a rollback included.
OfferedWasProved == Released \subseteq proved

\* An app that a user has asked for is not forgotten: it waits in the queue of
\* a process, or in the scan that has drained it.
RequestNotLost == wanted \subseteq (UNION {pending[r] : r \in Replicas}) \cup scan.asked

\* The catalog is in order: of each connector one version is offered, it passed a
\* canary, and no request for another connector has been lost.
CatalogInOrder == ReleaseTypeOK /\ OneRelease /\ OfferedWasProved /\ RequestNotLost

\* A released version gives way to one that has passed its canary, or has
\* failed its own as often as the threshold says: a candidate that fails
\* never costs the last good version its place.
LastGoodStays ==
  [][\A d \in Defs : rel[d].st = "released" /\ rel'[d].st # "released" =>
       \/ failed'[d] >= Threshold
       \/ \E e \in Defs \ {d} :
            rel'[e].st = "released" /\ failed'[e] = 0 /\ e \in proved']_releaseVars

\* An app that was asked for is certified or refused, although the process that
\* was asked need not be the one that leads.
RequestedIsCertified == \A p \in Apps : p \in wanted ~> p \notin wanted
===============================================================================
