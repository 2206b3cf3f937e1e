----------------------------- MODULE StoresProofs ------------------------------
(***************************************************************************)
(* Theorems about what the browser persists: the records of deployments,   *)
(* the saved calls and links of several pages, and the list of workspaces. *)
(* They share no state, so each is proved of its own specification.        *)
(***************************************************************************)
EXTENDS Deployments, LocalData, WorkspaceStore, FunctionTheorems, SequenceTheorems,
        FiniteSetTheorems, TLAPS

-----------------------------------------------------------------------------
(* Deployments for any number of runs, networks and polls.  What a record  *)
(* says of a run stays true because nothing touches a run any more once it *)
(* is recorded (ListedAreOver, ConfirmedHold, NodesHold); and a failure is *)
(* logged, or a source registered, with another network only if the run    *)
(* has seen the switch (SwitchSeen).                                       *)
Over == {"publishing", "ended"}

WasmsHold(entries) ==
  /\ entries \in Seq(Entry)
  /\ \A i, j \in DOMAIN entries : entries[i].network = entries[j].network => i = j
  /\ \A i \in DOMAIN entries : \A r \in entries[i].deployed : entries[i].provenance[r] # "none"

Known(r) == runs[r].at \in Over /\ runs[r].kind # "none"

NodesHold ==
  /\ \A r \in verifying : Known(r)
  /\ \A r \in Run : \A i \in DOMAIN wasms :
       wasms[i].provenance[r] # "none" => Known(r) /\ NodeIsTrue(i, r)

ListedAreOver ==
  \A r \in Run : listed[r] # NoDeployNetwork =>
    /\ runs[r].at \in Over /\ listed[r] = runs[r].network
    /\ runs[r].tx = "success" \/ runs[r].kind = "wizard"

ConfirmedHold ==
  \A r \in Run : \A i \in DOMAIN wasms : wasms[i].provenance[r] = "confirmed" =>
    r \in verified \/ (runs[r].at \in Over /\ runs[r].tx = "success")

SwitchSeen ==
  \A r \in Run : runs[r].kind # "none" =>
    /\ runs[r].network \in DeployNetwork
    /\ runs[r].network = activeNetwork \/ runs[r].switched

AwaitingAreBegun == \A r \in Run : AwaitsTx(r) => runs[r].kind # "none"

RecordsHold ==
  ListedAreOver /\ ConfirmedHold /\ NodesHold /\ SwitchSeen /\ AwaitingAreBegun

DeployCore ==
  /\ DeployTypeOK /\ PipelineWaitsForRuns /\ LogNamesItsNetwork /\ RecordsHold

LEMMA RunTypes ==
  /\ NotBegun \in Runs /\ NotBegun.kind = "none"
  /\ Forgotten \in Runs /\ Forgotten.at = "ended" /\ Forgotten.kind = "none"
  /\ \A run \in Runs :
       /\ Kept(run) \in Runs /\ Kept(run).at = "ended"
       /\ Kept(run).network = run.network /\ Kept(run).kind = run.kind
       /\ Kept(run).tx = run.tx /\ Kept(run).switched = run.switched
<1>1. 0 \in 0 .. MaxDeployPolls
  BY DeployAssumption
<1>2. NotBegun \in Runs /\ NotBegun.kind = "none"
  BY <1>1 DEF NotBegun, Runs, DeployNetworks
<1>3. Forgotten \in Runs /\ Forgotten.at = "ended" /\ Forgotten.kind = "none"
  BY <1>2 DEF Forgotten, Runs
<1>4. ASSUME NEW run \in Runs
      PROVE  /\ Kept(run) \in Runs /\ Kept(run).at = "ended"
             /\ Kept(run).network = run.network /\ Kept(run).kind = run.kind
             /\ Kept(run).tx = run.tx /\ Kept(run).switched = run.switched
  BY <1>1 DEF Kept, Runs
<1> QED BY <1>2, <1>3, <1>4

(* The entries of the binary: a new one, and one that is written to.       *)
LEMMA NewEntryTyped ==
  ASSUME NEW n \in DeployNetwork
  PROVE  /\ NewEntry(n) \in Entry /\ NewEntry(n).network = n /\ NewEntry(n).deployed = {}
         /\ \A r \in Run : NewEntry(n).provenance[r] = "none"
BY DEF NewEntry, Entry, DeployNetworks

Associated(e, r, x, n, b) ==
  [e EXCEPT !.provenance[r] = x, !.on[r] = n, !.deployed = {r}, !.pinned = @ \/ b]
Confirmed(e, r, n) == [e EXCEPT !.provenance[r] = "confirmed", !.on[r] = n]

LEMMA ProvenanceWritten ==
  ASSUME NEW e \in Entry, NEW r \in Run, NEW x \in {"inferred", "confirmed"},
         NEW n \in DeployNetwork
  PROVE  LET prov == [e.provenance EXCEPT ![r] = x]
             on   == [e.on EXCEPT ![r] = n]
         IN  /\ prov \in [Run -> {"none", "inferred", "confirmed"}] /\ prov[r] = x
             /\ on \in [Run -> DeployNetworks] /\ on[r] = n
             /\ \A q \in Run \ {r} : prov[q] = e.provenance[q] /\ on[q] = e.on[q]
BY DEF Entry, DeployNetworks

LEMMA EntryAssociated ==
  ASSUME NEW e \in Entry, NEW r \in Run, NEW x \in {"inferred", "confirmed"},
         NEW n \in DeployNetwork, NEW b \in BOOLEAN
  PROVE  LET a == Associated(e, r, x, n, b)
         IN  /\ a \in Entry /\ a.network = e.network /\ a.deployed = {r}
             /\ a.provenance[r] = x /\ a.on[r] = n
             /\ \A q \in Run \ {r} : a.provenance[q] = e.provenance[q] /\ a.on[q] = e.on[q]
<1> DEFINE prov == [e.provenance EXCEPT ![r] = x]
           on == [e.on EXCEPT ![r] = n]
           pinned == e.pinned \/ b
           a == [e EXCEPT !.provenance = prov, !.on = on, !.deployed = {r}, !.pinned = pinned]
<1>1. /\ prov \in [Run -> {"none", "inferred", "confirmed"}] /\ prov[r] = x
      /\ on \in [Run -> DeployNetworks] /\ on[r] = n
      /\ \A q \in Run \ {r} : prov[q] = e.provenance[q] /\ on[q] = e.on[q]
  BY ProvenanceWritten
<1>2. Associated(e, r, x, n, b) = a
  BY DEF Entry, Associated
<1>3. pinned \in BOOLEAN
  OBVIOUS
<1> HIDE DEF prov, on, pinned
<1>4. a \in Entry
  BY <1>1, <1>3 DEF Entry
<1>5. a.network = e.network /\ a.deployed = {r} /\ a.provenance = prov /\ a.on = on
  BY DEF Entry
<1> HIDE DEF a
<1> QED BY <1>1, <1>2, <1>4, <1>5

LEMMA EntryConfirmed ==
  ASSUME NEW e \in Entry, NEW r \in Run, NEW n \in DeployNetwork
  PROVE  LET v == Confirmed(e, r, n)
         IN  /\ v \in Entry /\ v.network = e.network /\ v.deployed = e.deployed
             /\ v.provenance[r] = "confirmed" /\ v.on[r] = n
             /\ \A q \in Run \ {r} : v.provenance[q] = e.provenance[q] /\ v.on[q] = e.on[q]
<1> DEFINE prov == [e.provenance EXCEPT ![r] = "confirmed"]
           on == [e.on EXCEPT ![r] = n]
           v == [e EXCEPT !.provenance = prov, !.on = on]
<1>1. /\ prov \in [Run -> {"none", "inferred", "confirmed"}] /\ prov[r] = "confirmed"
      /\ on \in [Run -> DeployNetworks] /\ on[r] = n
      /\ \A q \in Run \ {r} : prov[q] = e.provenance[q] /\ on[q] = e.on[q]
  BY ProvenanceWritten
<1>2. Confirmed(e, r, n) = v
  BY DEF Entry, Confirmed
<1> HIDE DEF prov, on
<1>3. v \in Entry
  BY <1>1 DEF Entry
<1>4. v.network = e.network /\ v.deployed = e.deployed /\ v.provenance = prov /\ v.on = on
  BY DEF Entry
<1> HIDE DEF v
<1> QED BY <1>1, <1>2, <1>3, <1>4

LEMMA AssociateHolds ==
  ASSUME WasmsHold(wasms), NEW r \in Run, NEW x \in {"inferred", "confirmed"},
         NEW b \in BOOLEAN, Associate(r, x, b)
  PROVE  /\ WasmsHold(wasms') /\ DOMAIN wasms' = DOMAIN wasms
         /\ \A i \in DOMAIN wasms :
              /\ wasms'[i].provenance[r] = x /\ wasms'[i].network = wasms[i].network
              /\ wasms'[i].on[r] = wasms[i].network
              /\ \A q \in Run \ {r} : /\ wasms'[i].provenance[q] = wasms[i].provenance[q]
                                      /\ wasms'[i].on[q] = wasms[i].on[q]
<1> DEFINE a(e) == Associated(e, r, x, e.network, b)
<1>0. \A e \in Entry : e.network \in DeployNetwork
  BY DEF Entry
<1>1. \A e \in Entry : /\ a(e) \in Entry /\ a(e).network = e.network /\ a(e).deployed = {r}
                       /\ a(e).provenance[r] = x /\ a(e).on[r] = e.network
                       /\ \A q \in Run \ {r} : /\ a(e).provenance[q] = e.provenance[q]
                                               /\ a(e).on[q] = e.on[q]
  BY <1>0, EntryAssociated
<1>2. wasms' = [i \in DOMAIN wasms |-> a(wasms[i])]
  BY DEF Associate, Associated
<1> HIDE DEF a
<1>3. \A i \in DOMAIN wasms : wasms[i] \in Entry
  BY DEF WasmsHold
<1>4. DOMAIN wasms = 1 .. Len(wasms) /\ Len(wasms) \in Nat
  BY DEF WasmsHold
<1>5. wasms' \in Seq(Entry) /\ DOMAIN wasms' = DOMAIN wasms
  BY <1>1, <1>2, <1>3, <1>4
<1> QED BY <1>1, <1>2, <1>3, <1>5 DEF WasmsHold

LEMMA ConfirmHolds ==
  ASSUME WasmsHold(wasms), NEW r \in Run, NEW n \in DeployNetwork,
         wasms' = [i \in DOMAIN wasms |-> Confirmed(wasms[i], r, n)]
  PROVE  /\ WasmsHold(wasms') /\ DOMAIN wasms' = DOMAIN wasms
         /\ \A i \in DOMAIN wasms :
              /\ wasms'[i].provenance[r] = "confirmed" /\ wasms'[i].on[r] = n
              /\ wasms'[i].network = wasms[i].network
              /\ \A q \in Run \ {r} : /\ wasms'[i].provenance[q] = wasms[i].provenance[q]
                                      /\ wasms'[i].on[q] = wasms[i].on[q]
<1> DEFINE v(e) == Confirmed(e, r, n)
<1>1. \A e \in Entry : /\ v(e) \in Entry /\ v(e).network = e.network
                       /\ v(e).deployed = e.deployed /\ v(e).provenance[r] = "confirmed"
                       /\ v(e).on[r] = n
                       /\ \A q \in Run \ {r} : /\ v(e).provenance[q] = e.provenance[q]
                                               /\ v(e).on[q] = e.on[q]
  BY EntryConfirmed
<1>2. wasms' = [i \in DOMAIN wasms |-> v(wasms[i])]
  OBVIOUS
<1> HIDE DEF v
<1>3. \A i \in DOMAIN wasms : wasms[i] \in Entry
  BY DEF WasmsHold
<1>4. DOMAIN wasms = 1 .. Len(wasms) /\ Len(wasms) \in Nat
  BY DEF WasmsHold
<1>5. wasms' \in Seq(Entry) /\ DOMAIN wasms' = DOMAIN wasms
  BY <1>1, <1>2, <1>3, <1>4
<1>6. ASSUME NEW i \in DOMAIN wasms', NEW q \in wasms'[i].deployed
      PROVE  wasms'[i].provenance[q] # "none"
  <2>0. wasms'[i] = v(wasms[i]) /\ wasms[i] \in Entry /\ i \in DOMAIN wasms
    BY <1>2, <1>3, <1>5, <1>6
  <2>1. q \in wasms[i].deployed /\ q \in Run
    BY <1>1, <1>6, <2>0 DEF Entry
  <2>2. wasms[i].provenance[q] # "none"
    BY <2>0, <2>1 DEF WasmsHold
  <2> QED BY <1>1, <2>0, <2>1, <2>2
<1>7. \A i \in DOMAIN wasms' : wasms'[i].network = wasms[i].network
  BY <1>1, <1>2, <1>3, <1>5
<1>8. \A i, j \in DOMAIN wasms' : wasms'[i].network = wasms'[j].network => i = j
  BY <1>5, <1>7 DEF WasmsHold
<1>9. \A i \in DOMAIN wasms :
        /\ wasms'[i].provenance[r] = "confirmed" /\ wasms'[i].on[r] = n
        /\ \A q \in Run \ {r} : /\ wasms'[i].provenance[q] = wasms[i].provenance[q]
                                /\ wasms'[i].on[q] = wasms[i].on[q]
  BY <1>1, <1>2, <1>3
<1> QED BY <1>5, <1>6, <1>7, <1>8, <1>9 DEF WasmsHold

LEMMA AddWasmHolds ==
  ASSUME WasmsHold(wasms), NEW n \in DeployNetwork, AddWasm(n)
  PROVE  /\ WasmsHold(wasms')
         /\ \A i \in DOMAIN wasms', r \in Run : wasms'[i].provenance[r] # "none" =>
              \E j \in DOMAIN wasms : wasms'[i] = wasms[j]
<1>1. CASE \E i \in DOMAIN wasms : wasms[i].network = n
  BY <1>1 DEF AddWasm
<1>2. CASE \A i \in DOMAIN wasms : wasms[i].network # n
  <2> DEFINE e == NewEntry(n)
  <2>1. wasms' = <<e>> \o wasms /\ wasms \in Seq(Entry)
    BY <1>2 DEF AddWasm, WasmsHold
  <2>2. /\ e \in Entry /\ e.network = n /\ e.deployed = {}
        /\ \A r \in Run : e.provenance[r] = "none"
    BY NewEntryTyped
  <2> HIDE DEF e
  <2>3. /\ wasms' \in Seq(Entry) /\ Len(wasms') = Len(wasms) + 1 /\ wasms'[1] = e
        /\ \A i \in 2 .. Len(wasms') : wasms'[i] = wasms[i - 1] /\ i - 1 \in DOMAIN wasms
    BY <2>1, <2>2
  <2>4. DOMAIN wasms' = 1 .. Len(wasms') /\ Len(wasms) \in Nat
    BY <2>1, <2>3
  <2>5. \A i, j \in DOMAIN wasms' : wasms'[i].network = wasms'[j].network => i = j
    <3> SUFFICES ASSUME NEW i \in DOMAIN wasms', NEW j \in DOMAIN wasms',
                        wasms'[i].network = wasms'[j].network
                 PROVE  i = j
      OBVIOUS
    <3>1. CASE i = 1 /\ j = 1
      BY <3>1
    <3>2. CASE i # 1 /\ j # 1
      <4>1. i \in 2 .. Len(wasms') /\ j \in 2 .. Len(wasms')
        BY <2>4, <3>2
      <4>2. /\ i - 1 \in DOMAIN wasms /\ j - 1 \in DOMAIN wasms
            /\ wasms[i - 1].network = wasms[j - 1].network
        BY <2>3, <4>1
      <4>3. i - 1 = j - 1
        BY <4>2 DEF WasmsHold
      <4> QED BY <4>1, <4>3
    <3>3. ASSUME NEW k \in 2 .. Len(wasms') PROVE wasms'[k].network # wasms'[1].network
      BY <1>2, <2>2, <2>3
    <3> QED BY <2>4, <3>1, <3>2, <3>3
  <2>6. ASSUME NEW i \in DOMAIN wasms', NEW r \in wasms'[i].deployed
        PROVE  wasms'[i].provenance[r] # "none"
    <3>1. i # 1
      BY <2>2, <2>3, <2>6
    <3>2. wasms'[i] = wasms[i - 1] /\ i - 1 \in DOMAIN wasms
      BY <2>3, <2>4, <3>1
    <3> QED BY <3>2, <2>6 DEF WasmsHold
  <2>7. \A i \in DOMAIN wasms', r \in Run : wasms'[i].provenance[r] # "none" =>
          \E j \in DOMAIN wasms : wasms'[i] = wasms[j]
    <3> SUFFICES ASSUME NEW i \in DOMAIN wasms', NEW r \in Run,
                        wasms'[i].provenance[r] # "none"
                 PROVE  \E j \in DOMAIN wasms : wasms'[i] = wasms[j]
      OBVIOUS
    <3>1. i # 1
      BY <2>2, <2>3
    <3>2. wasms'[i] = wasms[i - 1] /\ i - 1 \in DOMAIN wasms
      BY <2>3, <2>4, <3>1
    <3> QED BY <3>2
  <2> QED BY <2>3, <2>5, <2>6, <2>7 DEF WasmsHold
<1> QED BY <1>1, <1>2

Awaiting == {"preparing", "api", "direct"}

LEMMA CoreTypes ==
  ASSUME DeployCore
  PROVE  /\ runs \in [Run -> Runs] /\ WasmsHold(wasms) /\ listed \in [Run -> DeployNetworks]
         /\ activeNetwork \in DeployNetwork
         /\ \A r \in Run : AwaitsTx(r) <=> runs[r].at \in Awaiting
         /\ \A r \in Run : AwaitsTx(r) =>
              /\ runs[r].kind # "none" /\ runs[r].network \in DeployNetwork
              /\ runs[r].network = activeNetwork \/ runs[r].switched
BY DEF DeployCore, DeployTypeOK, WasmsHold, AwaitsTx, Awaiting, RecordsHold, SwitchSeen,
       AwaitingAreBegun

(* Runs that are known keep what their nodes are compared with.            *)
LEMMA NodesStay ==
  ASSUME NodesHold, UNCHANGED <<wasms, verifying>>,
         \A s \in Run : Known(s) =>
           /\ runs'[s].at \in Over /\ runs'[s].kind = runs[s].kind
           /\ runs'[s].network = runs[s].network /\ runs'[s].switched = runs[s].switched,
         verifying \subseteq Run
  PROVE  NodesHold'
BY DEF NodesHold, NodeIsTrue, Known

(* One run moves: nothing is recorded of it yet, or nothing that is        *)
(* recorded changes.                                                       *)
LEMMA RunMoves ==
  ASSUME DeployCore, NEW r \in Run, NEW q \in Runs, runs' = [runs EXCEPT ![r] = q],
         UNCHANGED <<wasms, listed, sources, activeNetwork>>,
         \/ runs[r].at \notin Over
         \/ /\ q.at \in Over /\ q.network = runs[r].network /\ q.kind = runs[r].kind
            /\ q.tx = runs[r].tx /\ q.switched = runs[r].switched,
         q.kind # "none" =>
           q.network \in DeployNetwork /\ (q.network = activeNetwork \/ q.switched),
         q.at \in Awaiting => q.kind # "none"
  PROVE  /\ runs' \in [Run -> Runs] /\ RecordsHold'
<1>1. /\ runs' \in [Run -> Runs] /\ runs'[r] = q
      /\ \A s \in Run \ {r} : runs'[s] = runs[s]
  BY CoreTypes
<1>2. ListedAreOver'
  BY <1>1 DEF DeployCore, RecordsHold, ListedAreOver
<1>3. ConfirmedHold'
  BY <1>1 DEF DeployCore, RecordsHold, ConfirmedHold, sources
<1>4. SwitchSeen' /\ AwaitingAreBegun'
  BY <1>1 DEF DeployCore, RecordsHold, SwitchSeen, AwaitingAreBegun, AwaitsTx, Awaiting
<1>5. \A s \in Run : Known(s) =>
        /\ runs'[s].at \in Over /\ runs'[s].kind = runs[s].kind
        /\ runs'[s].network = runs[s].network /\ runs'[s].switched = runs[s].switched
  BY <1>1 DEF Known
<1>6. NodesHold'
  BY <1>5, NodesStay DEF DeployCore, DeployTypeOK, RecordsHold, sources
<1> QED BY <1>1, <1>2, <1>3, <1>4, <1>6 DEF RecordsHold

LEMMA PipelineKept ==
  ASSUME DeployCore, NEW r \in Run, NEW q \in Runs, runs' = [runs EXCEPT ![r] = q],
         UNCHANGED <<phase, reloaded>>,
         runs[r].kind = "install" /\ AwaitsTx(r) => q.kind = "install" /\ q.at \in Awaiting,
         runs[r].at = "publishing" => q.at = "publishing"
  PROVE  PipelineWaitsForRuns'
<1>1. runs'[r] = q /\ \A s \in Run \ {r} : runs'[s] = runs[s]
  BY CoreTypes
<1> QED BY <1>1 DEF DeployCore, PipelineWaitsForRuns, AwaitsTx, Awaiting

LEMMA PipelineAdvances ==
  ASSUME NEW p \in {"idle", "instantiate", "done", "error"}, Advance(p)
  PROVE  /\ PipelineWaitsForRuns' /\ reloaded' \in BOOLEAN
         /\ phase' \in {"idle", "install", "instantiate", "publish", "done", "error"}
BY DEF Advance, PipelineWaitsForRuns

(* A run that goes on waiting for its transaction.                         *)
LEMMA AwaitingMoves ==
  ASSUME DeployCore, NEW r \in Run, AwaitsTx(r), NEW q \in Runs,
         q.kind = runs[r].kind, q.network = runs[r].network, q.switched = runs[r].switched,
         q.at \in Awaiting, runs' = [runs EXCEPT ![r] = q],
         UNCHANGED <<wasms, listed, sources, phase, reloaded, lastLog, activeNetwork>>
  PROVE  DeployCore'
<1>1. runs[r].at \in Awaiting /\ runs[r].at \notin Over
  BY CoreTypes DEF Awaiting, Over
<1>2. q.network \in DeployNetwork /\ (q.network = activeNetwork \/ q.switched)
  BY CoreTypes
<1>3. runs' \in [Run -> Runs] /\ RecordsHold'
  BY <1>1, <1>2, CoreTypes, RunMoves
<1>4. PipelineWaitsForRuns'
  BY <1>1, PipelineKept DEF Over
<1>5. DeployTypeOK' /\ LogNamesItsNetwork'
  BY <1>3 DEF DeployCore, DeployTypeOK, LogNamesItsNetwork, sources
<1> QED BY <1>3, <1>4, <1>5 DEF DeployCore

LEMMA GoesHolds ==
  ASSUME DeployCore, NEW r \in Run, AwaitsTx(r), NEW at \in Awaiting,
         NEW tx \in {"unsent", "pending", "success", "failed"},
         NEW n \in 0 .. MaxDeployPolls, Goes(r, at, tx, n),
         UNCHANGED <<wasms, listed, sources, phase, reloaded, lastLog, activeNetwork>>
  PROVE  DeployCore'
<1> DEFINE q == [runs[r] EXCEPT !.at = at, !.tx = tx, !.polls = n]
<1>1. runs[r] \in Runs /\ runs \in [Run -> Runs]
  BY CoreTypes
<1>2. runs' = [runs EXCEPT ![r] = q]
  BY <1>1 DEF Goes, Runs
<1>3. q \in Runs
  BY <1>1 DEF Runs, Awaiting
<1>4. /\ q.kind = runs[r].kind /\ q.network = runs[r].network
      /\ q.switched = runs[r].switched /\ q.at = at
  BY <1>1 DEF Runs
<1> HIDE DEF q
<1> QED BY <1>2, <1>3, <1>4, AwaitingMoves

LEMMA WaitingHolds ==
  ASSUME DeployCore, NEW r \in Run, Submit(r) \/ Included(r) \/ NotFound(r) \/ FallBack(r)
  PROVE  DeployCore'
<1>1. runs[r] \in Runs /\ runs \in [Run -> Runs]
  BY CoreTypes
<1>2. CASE Submit(r)
  <2>1. AwaitsTx(r) /\ 0 \in 0 .. MaxDeployPolls
    BY <1>2, DeployAssumption DEF Submit, AwaitsTx
  <2> QED BY <1>2, <2>1, GoesHolds DEF Submit, Awaiting
<1>3. CASE Included(r)
  <2>1. PICK tx \in {"success", "failed"} : runs' = [runs EXCEPT ![r].tx = tx]
    BY <1>3 DEF Included
  <2> DEFINE q == [runs[r] EXCEPT !.tx = tx]
  <2>2. runs' = [runs EXCEPT ![r] = q] /\ q \in Runs
    BY <1>1, <2>1 DEF Runs
  <2>3. /\ q.kind = runs[r].kind /\ q.network = runs[r].network
        /\ q.switched = runs[r].switched /\ q.at = runs[r].at
    BY <1>1 DEF Runs
  <2>4. AwaitsTx(r) /\ runs[r].at \in Awaiting
    BY <1>3, CoreTypes DEF Included
  <2>5. UNCHANGED <<wasms, listed, sources, phase, reloaded, lastLog, activeNetwork>>
    BY <1>3 DEF Included
  <2> HIDE DEF q
  <2> QED BY <2>2, <2>3, <2>4, <2>5, AwaitingMoves
<1>4. CASE NotFound(r)
  <2>1. /\ AwaitsTx(r) /\ runs[r].at \in Awaiting /\ runs[r].polls + 1 \in 0 .. MaxDeployPolls
        /\ runs[r].tx \in {"unsent", "pending", "success", "failed"}
    BY <1>1, <1>4, DeployAssumption DEF NotFound, AwaitsTx, Awaiting, Runs
  <2> QED BY <1>4, <2>1, GoesHolds DEF NotFound
<1>5. CASE FallBack(r)
  <2>1. /\ AwaitsTx(r) /\ 0 \in 0 .. MaxDeployPolls
        /\ runs[r].tx \in {"unsent", "pending", "success", "failed"}
    BY <1>1, <1>5, DeployAssumption DEF FallBack, AwaitsTx, Runs
  <2> QED BY <1>5, <2>1, GoesHolds DEF FallBack, Awaiting
<1> QED BY <1>2, <1>3, <1>4, <1>5

LEMMA BeginHolds ==
  ASSUME DeployCore, NEW r \in Run, BeginInstall(r) \/ BeginDeploy(r) PROVE DeployCore'
<1>1. PICK kind \in {"install", "deploy", "wizard"} :
        /\ Begin(r, kind)
        /\ \/ kind = "install" /\ Advance("install")
           \/ UNCHANGED <<phase, reloaded>>
  BY DEF BeginInstall, BeginDeploy
<1> DEFINE q == [NotBegun EXCEPT !.kind = kind, !.at = "preparing",
                                 !.network = activeNetwork, !.mine = TRUE]
<1>2. /\ runs[r].at = "none" /\ runs' = [runs EXCEPT ![r] = q]
      /\ UNCHANGED <<wasms, listed, sources, lastLog, activeNetwork>>
  BY <1>1 DEF Begin
<1>3. q \in Runs
  BY RunTypes, CoreTypes DEF Runs, DeployNetworks
<1>4. /\ q.kind = kind /\ q.at = "preparing" /\ q.network = activeNetwork
      /\ q.network \in DeployNetwork
  BY CoreTypes DEF NotBegun
<1> HIDE DEF q
<1>5. runs' \in [Run -> Runs] /\ RecordsHold'
  BY <1>1, <1>2, <1>3, <1>4, RunMoves DEF Over
<1>6. PipelineWaitsForRuns'
  <2>1. CASE kind = "install" /\ Advance("install")
    <3>1. runs'[r] = q
      BY <1>2, CoreTypes
    <3> QED BY <1>4, <2>1, <3>1 DEF Advance, PipelineWaitsForRuns, AwaitsTx
  <2>2. CASE UNCHANGED <<phase, reloaded>>
    <3>1. ~ AwaitsTx(r)
      BY <1>2 DEF AwaitsTx
    <3> QED BY <1>2, <1>3, <2>2, <3>1, PipelineKept
  <2> QED BY <1>1, <2>1, <2>2
<1>7. reloaded' \in BOOLEAN /\
      phase' \in {"idle", "install", "instantiate", "publish", "done", "error"}
  BY <1>1 DEF Advance, DeployCore, DeployTypeOK
<1>8. DeployTypeOK' /\ LogNamesItsNetwork'
  BY <1>2, <1>5, <1>7 DEF DeployCore, DeployTypeOK, LogNamesItsNetwork, sources
<1> QED BY <1>5, <1>6, <1>8 DEF DeployCore

(* A failure is logged with the network of now, a success with its own.    *)
LEMMA LogHolds ==
  ASSUME DeployCore, NEW r \in Run, AwaitsTx(r), NEW status \in {"success", "failed"},
         NEW n, Log(r, status, n),
         n = runs[r].network \/ (status = "failed" /\ n = activeNetwork)
  PROVE  LogNamesItsNetwork' /\ lastLog' \in [status : {"none", "success", "failed"},
                                              switched : BOOLEAN]
<1>1. runs[r].switched \in BOOLEAN
  BY CoreTypes DEF Runs
<1>2. runs[r].network = activeNetwork \/ runs[r].switched
  BY CoreTypes
<1>3. CASE n = runs[r].network
  BY <1>3 DEF Log, LogNamesItsNetwork, NotMisnamed
<1>4. CASE n # runs[r].network
  BY <1>1, <1>2, <1>4 DEF Log, LogNamesItsNetwork
<1> QED BY <1>3, <1>4

LEMMA FailsHolds ==
  ASSUME DeployCore, NEW r \in Run, AwaitsTx(r), Fails(r) PROVE DeployCore'
<1>1. /\ runs' = [runs EXCEPT ![r] = Forgotten]
      /\ UNCHANGED <<wasms, listed, sources, activeNetwork>>
  BY DEF Fails, Stops
<1>2. runs[r].at \in Awaiting /\ runs[r].at \notin Over
  BY CoreTypes DEF Awaiting, Over
<1>3. runs' \in [Run -> Runs] /\ RecordsHold'
  BY <1>1, <1>2, RunTypes, RunMoves DEF Awaiting
<1>4. /\ PipelineWaitsForRuns' /\ reloaded' \in BOOLEAN
      /\ phase' \in {"idle", "install", "instantiate", "publish", "done", "error"}
  <2>1. CASE runs[r].kind = "wizard"
    <3>1. UNCHANGED <<phase, reloaded>>
      BY <2>1 DEF Fails
    <3>2. PipelineWaitsForRuns'
      BY <1>1, <1>2, <2>1, <3>1, RunTypes, PipelineKept DEF Over
    <3> QED BY <3>1, <3>2 DEF DeployCore, DeployTypeOK
  <2>2. CASE runs[r].kind # "wizard"
    BY <2>2, PipelineAdvances DEF Fails
  <2> QED BY <2>1, <2>2
<1>5. LogNamesItsNetwork' /\ lastLog' \in [status : {"none", "success", "failed"},
                                           switched : BOOLEAN]
  <2>1. CASE runs[r].kind = "deploy"
    BY <2>1, LogHolds DEF Fails
  <2>2. CASE runs[r].kind # "deploy"
    BY <2>2 DEF Fails, DeployCore, DeployTypeOK, LogNamesItsNetwork
  <2> QED BY <2>1, <2>2
<1>6. DeployTypeOK'
  BY <1>1, <1>3, <1>4, <1>5 DEF DeployCore, DeployTypeOK, sources
<1> QED BY <1>3, <1>4, <1>5, <1>6 DEF DeployCore

(* A deployment is recorded: the contract is listed, and the entries of    *)
(* the binary are written.                                                 *)
LEMMA Records ==
  ASSUME DeployCore, NEW r \in Run, AwaitsTx(r), NEW x \in {"confirmed", "inferred"},
         NEW b \in BOOLEAN, Associate(r, x, b), ListContract(r),
         NEW q \in Runs, runs' = [runs EXCEPT ![r] = q], UNCHANGED <<sources, activeNetwork>>,
         q.at \in Over, q.network = runs[r].network, q.kind = runs[r].kind,
         q.tx = runs[r].tx, q.switched = runs[r].switched,
         q.tx = "success" \/ (q.kind = "wizard" /\ x = "inferred")
  PROVE  /\ runs' \in [Run -> Runs] /\ WasmsHold(wasms')
         /\ listed' \in [Run -> DeployNetworks]
         /\ RecordsHold'
<1>1. /\ runs' \in [Run -> Runs] /\ runs'[r] = q
      /\ \A s \in Run \ {r} : runs'[s] = runs[s]
  BY CoreTypes
<1>2. /\ listed' \in [Run -> DeployNetworks] /\ listed'[r] = runs[r].network
      /\ \A s \in Run \ {r} : listed'[s] = listed[s]
  BY CoreTypes DEF ListContract, Runs
<1>3. /\ WasmsHold(wasms') /\ DOMAIN wasms' = DOMAIN wasms
      /\ \A i \in DOMAIN wasms :
           /\ wasms'[i].provenance[r] = x /\ wasms'[i].network = wasms[i].network
           /\ wasms'[i].on[r] = wasms[i].network
           /\ \A s \in Run \ {r} : /\ wasms'[i].provenance[s] = wasms[i].provenance[s]
                                   /\ wasms'[i].on[s] = wasms[i].on[s]
  BY CoreTypes, AssociateHolds
<1>4. ListedAreOver'
  BY <1>1, <1>2 DEF DeployCore, RecordsHold, ListedAreOver
<1>5. ConfirmedHold'
  <2> SUFFICES ASSUME NEW s \in Run, NEW i \in DOMAIN wasms',
                      wasms'[i].provenance[s] = "confirmed"
               PROVE  s \in verified' \/ (runs'[s].at \in Over /\ runs'[s].tx = "success")
    BY DEF ConfirmedHold
  <2>1. CASE s = r
    BY <1>1, <1>3, <2>1
  <2>2. CASE s # r
    BY <1>1, <1>3, <2>2 DEF DeployCore, RecordsHold, ConfirmedHold, sources
  <2> QED BY <2>1, <2>2
<1>6. SwitchSeen' /\ AwaitingAreBegun'
  BY <1>1 DEF DeployCore, RecordsHold, SwitchSeen, AwaitingAreBegun, AwaitsTx, Over
<1>7. NodesHold'
  <2>1. q.kind # "none"
    BY CoreTypes
  <2>2. Known(r)' /\ \A s \in Run \ {r} : Known(s) => Known(s)'
    BY <1>1, <2>1 DEF Known
  <2>3. ASSUME NEW s \in Run \ {r}, NEW i \in DOMAIN wasms, wasms'[i].provenance[s] # "none"
        PROVE  Known(s)' /\ NodeIsTrue(i, s)'
    <3>1. Known(s) /\ NodeIsTrue(i, s)
      BY <1>3, <2>3 DEF DeployCore, RecordsHold, NodesHold
    <3>2. runs'[s] = runs[s] /\ wasms'[i].network = wasms[i].network
          /\ wasms'[i].on[s] = wasms[i].on[s]
      BY <1>1, <1>3
    <3> QED BY <2>2, <3>1, <3>2 DEF NodeIsTrue
  <2>4. ASSUME NEW i \in DOMAIN wasms PROVE NodeIsTrue(i, r)'
    BY <1>1, <1>3 DEF NodeIsTrue
  <2>5. \A s \in verifying' : Known(s)'
    BY <2>2 DEF DeployCore, DeployTypeOK, RecordsHold, NodesHold, sources
  <2> QED BY <1>3, <2>2, <2>3, <2>4, <2>5 DEF NodesHold
<1> QED BY <1>1, <1>2, <1>3, <1>4, <1>5, <1>6, <1>7 DEF RecordsHold

LEMMA InstallSucceedsHolds ==
  ASSUME DeployCore, NEW r \in Run, AwaitsTx(r), InstallSucceeds(r) PROVE DeployCore'
<1>1. /\ runs' = [runs EXCEPT ![r] = Forgotten] /\ AddWasm(runs[r].network)
      /\ Advance("instantiate") /\ UNCHANGED <<listed, sources, lastLog, activeNetwork>>
  BY DEF InstallSucceeds, Stops
<1>2. runs[r].at \notin Over /\ runs[r].network \in DeployNetwork
  BY CoreTypes DEF Awaiting, Over
<1>3. /\ runs' \in [Run -> Runs] /\ runs'[r] = Forgotten
      /\ \A s \in Run \ {r} : runs'[s] = runs[s]
  BY <1>1, CoreTypes, RunTypes
<1>4. /\ WasmsHold(wasms')
      /\ \A i \in DOMAIN wasms', s \in Run : wasms'[i].provenance[s] # "none" =>
           \E j \in DOMAIN wasms : wasms'[i] = wasms[j]
  BY <1>1, <1>2, CoreTypes, AddWasmHolds
<1>5. ListedAreOver'
  BY <1>1, <1>2, <1>3 DEF DeployCore, RecordsHold, ListedAreOver
<1>6. ConfirmedHold'
  <2> SUFFICES ASSUME NEW s \in Run, NEW i \in DOMAIN wasms',
                      wasms'[i].provenance[s] = "confirmed"
               PROVE  s \in verified' \/ (runs'[s].at \in Over /\ runs'[s].tx = "success")
    BY DEF ConfirmedHold
  <2>1. s \in verified \/ (runs[s].at \in Over /\ runs[s].tx = "success")
    BY <1>4 DEF DeployCore, RecordsHold, ConfirmedHold
  <2> QED BY <1>1, <1>2, <1>3, <2>1 DEF sources
<1>7. SwitchSeen' /\ AwaitingAreBegun' /\ NodesHold'
  <2>1. SwitchSeen' /\ AwaitingAreBegun'
    BY <1>1, <1>3, RunTypes DEF DeployCore, RecordsHold, SwitchSeen, AwaitingAreBegun, AwaitsTx
  <2>2. \A s \in Run : Known(s) => Known(s)' /\ runs'[s] = runs[s]
    BY <1>2, <1>3 DEF Known
  <2>3. ASSUME NEW s \in Run, NEW i \in DOMAIN wasms', wasms'[i].provenance[s] # "none"
        PROVE  Known(s)' /\ NodeIsTrue(i, s)'
    <3>1. PICK j \in DOMAIN wasms : wasms'[i] = wasms[j]
      BY <1>4, <2>3
    <3>2. Known(s) /\ NodeIsTrue(j, s)
      BY <2>3, <3>1 DEF DeployCore, RecordsHold, NodesHold
    <3> QED BY <2>2, <3>1, <3>2 DEF NodeIsTrue
  <2>4. \A s \in verifying' : Known(s)'
    BY <1>1, <2>2 DEF DeployCore, DeployTypeOK, RecordsHold, NodesHold, sources
  <2> QED BY <2>1, <2>3, <2>4 DEF NodesHold
<1>8. /\ PipelineWaitsForRuns' /\ reloaded' \in BOOLEAN
      /\ phase' \in {"idle", "install", "instantiate", "publish", "done", "error"}
  BY <1>1, PipelineAdvances
<1>9. DeployTypeOK' /\ LogNamesItsNetwork'
  BY <1>1, <1>3, <1>4, <1>8
     DEF DeployCore, DeployTypeOK, WasmsHold, LogNamesItsNetwork, sources
<1> QED BY <1>5, <1>6, <1>7, <1>8, <1>9 DEF DeployCore, RecordsHold

LEMMA DeploySucceedsHolds ==
  ASSUME DeployCore, NEW r \in Run, AwaitsTx(r), runs[r].tx = "success", DeploySucceeds(r)
  PROVE  DeployCore'
<1> DEFINE q == [runs[r] EXCEPT !.at = "publishing", !.polls = 0, !.mine = FALSE]
<1>1. runs[r] \in Runs /\ runs \in [Run -> Runs] /\ 0 \in 0 .. MaxDeployPolls
  BY CoreTypes, DeployAssumption
<1>2. runs' = [runs EXCEPT ![r] = q]
  BY <1>1 DEF DeploySucceeds, Runs
<1>3. q \in Runs
  BY <1>1 DEF Runs
<1>4. /\ q.at = "publishing" /\ q.network = runs[r].network /\ q.kind = runs[r].kind
      /\ q.tx = runs[r].tx /\ q.switched = runs[r].switched
  BY <1>1 DEF Runs
<1> HIDE DEF q
<1>5. PICK x \in {"confirmed", "inferred"} : Associate(r, x, FALSE)
  BY DEF DeploySucceeds
<1>6. /\ ListContract(r) /\ UNCHANGED <<sources, activeNetwork>> /\ Advance("publish")
      /\ Log(r, "success", runs[r].network)
  BY DEF DeploySucceeds
<1>7. /\ runs' \in [Run -> Runs] /\ WasmsHold(wasms') /\ listed' \in [Run -> DeployNetworks]
      /\ RecordsHold'
  BY <1>2, <1>3, <1>4, <1>5, <1>6, Records DEF Over
<1>8. runs'[r] = q
  BY <1>1, <1>2
<1>9. PipelineWaitsForRuns'
  BY <1>4, <1>6, <1>8 DEF Advance, PipelineWaitsForRuns
<1>10. LogNamesItsNetwork' /\ lastLog' \in [status : {"none", "success", "failed"},
                                            switched : BOOLEAN]
  BY <1>6, LogHolds
<1>11. DeployTypeOK'
  BY <1>6, <1>7, <1>10 DEF DeployCore, DeployTypeOK, WasmsHold, Advance, sources
<1> QED BY <1>7, <1>9, <1>10, <1>11 DEF DeployCore

LEMMA WizardRecordsHolds ==
  ASSUME DeployCore, NEW r \in Run, AwaitsTx(r), NEW x \in {"confirmed", "inferred"},
         runs[r].tx = "success" \/ x = "inferred", WizardRecords(r, x)
  PROVE  DeployCore'
<1> DEFINE q == Kept(runs[r])
<1>1. runs[r] \in Runs
  BY CoreTypes
<1>2. /\ q \in Runs /\ q.at = "ended" /\ q.network = runs[r].network
      /\ q.kind = runs[r].kind /\ q.tx = runs[r].tx /\ q.switched = runs[r].switched
  BY <1>1, RunTypes
<1>3. /\ runs' = [runs EXCEPT ![r] = q] /\ runs[r].kind = "wizard"
      /\ Associate(r, x, TRUE) /\ ListContract(r)
      /\ UNCHANGED <<sources, phase, reloaded, lastLog, activeNetwork>>
  BY DEF WizardRecords, Stops
<1> HIDE DEF q
<1>4. /\ runs' \in [Run -> Runs] /\ WasmsHold(wasms') /\ listed' \in [Run -> DeployNetworks]
      /\ RecordsHold'
  BY <1>2, <1>3, Records DEF Over
<1>5. runs[r].at \notin Over
  BY CoreTypes DEF Awaiting, Over
<1>6. PipelineWaitsForRuns'
  BY <1>2, <1>3, <1>5, PipelineKept DEF Over
<1>7. DeployTypeOK' /\ LogNamesItsNetwork'
  BY <1>3, <1>4 DEF DeployCore, DeployTypeOK, WasmsHold, LogNamesItsNetwork, sources
<1> QED BY <1>4, <1>6, <1>7 DEF DeployCore

LEMMA EndsHold ==
  ASSUME DeployCore, NEW r \in Run,
         SubmitFails(r) \/ Found(r) \/ DirectPollFails(r) \/ TimesOut(r)
  PROVE  DeployCore'
<1>1. AwaitsTx(r)
  BY DEF SubmitFails, Found, DirectPollFails, TimesOut, AwaitsTx
<1>2. \/ Fails(r)
      \/ runs[r].tx = "success" /\ Succeeds(r)
      \/ WizardRecords(r, "inferred")
  BY DEF SubmitFails, Found, DirectPollFails, TimesOut
<1> QED
  BY <1>1, <1>2, FailsHolds, InstallSucceedsHolds, DeploySucceedsHolds, WizardRecordsHolds
     DEF Succeeds

LEMMA PublishedHolds ==
  ASSUME DeployCore, NEW r \in Run, Published(r) PROVE DeployCore'
<1> DEFINE q == Kept(runs[r])
<1>1. /\ q \in Runs /\ q.at = "ended" /\ q.network = runs[r].network
      /\ q.kind = runs[r].kind /\ q.tx = runs[r].tx /\ q.switched = runs[r].switched
  BY CoreTypes, RunTypes
<1>2. /\ runs' = [runs EXCEPT ![r] = q] /\ Advance("done")
      /\ UNCHANGED <<wasms, listed, sources, lastLog, activeNetwork>>
  BY DEF Published, Stops
<1> HIDE DEF q
<1>3. runs' \in [Run -> Runs] /\ RecordsHold'
  <2>1. runs[r].kind # "none" =>
          runs[r].network \in DeployNetwork /\ (runs[r].network = activeNetwork \/ runs[r].switched)
    BY DEF DeployCore, RecordsHold, SwitchSeen
  <2>2. runs[r].at = "publishing"
    BY DEF Published
  <2> QED BY <1>1, <1>2, <2>1, <2>2, RunMoves DEF Over, Awaiting
<1>4. /\ PipelineWaitsForRuns' /\ reloaded' \in BOOLEAN
      /\ phase' \in {"idle", "install", "instantiate", "publish", "done", "error"}
  BY <1>2, PipelineAdvances
<1>5. DeployTypeOK' /\ LogNamesItsNetwork'
  BY <1>2, <1>3, <1>4 DEF DeployCore, DeployTypeOK, LogNamesItsNetwork, sources
<1> QED BY <1>3, <1>4, <1>5 DEF DeployCore

LEMMA EndVerifyHolds ==
  ASSUME DeployCore, NEW r \in Run, EndVerify(r) PROVE DeployCore'
<1>1. /\ r \in verifying /\ verifying' = verifying \ {r}
      /\ UNCHANGED <<runs, listed, phase, reloaded, lastLog, activeNetwork>>
      /\ \/ /\ verified' = verified \cup {r}
            /\ wasms' = [i \in DOMAIN wasms |-> Confirmed(wasms[i], r, activeNetwork)]
         \/ UNCHANGED <<verified, wasms>>
  BY DEF EndVerify, Confirmed
<1>2. WasmsHold(wasms') /\ ConfirmedHold' /\ NodesHold' /\ verified' \subseteq Run
  <2>1. CASE /\ verified' = verified \cup {r}
             /\ wasms' = [i \in DOMAIN wasms |-> Confirmed(wasms[i], r, activeNetwork)]
    <3>1. /\ WasmsHold(wasms') /\ DOMAIN wasms' = DOMAIN wasms
          /\ \A i \in DOMAIN wasms :
               /\ wasms'[i].provenance[r] = "confirmed" /\ wasms'[i].on[r] = activeNetwork
               /\ wasms'[i].network = wasms[i].network
               /\ \A q \in Run \ {r} : /\ wasms'[i].provenance[q] = wasms[i].provenance[q]
                                       /\ wasms'[i].on[q] = wasms[i].on[q]
      BY <2>1, CoreTypes, ConfirmHolds
    <3>2. ConfirmedHold' /\ verified' \subseteq Run
      BY <1>1, <2>1, <3>1 DEF DeployCore, DeployTypeOK, RecordsHold, ConfirmedHold
    <3>3. Known(r) /\ (activeNetwork = runs[r].network \/ runs[r].switched)
      BY <1>1 DEF DeployCore, RecordsHold, NodesHold, SwitchSeen, Known
    <3>4. \A q \in Run : Known(q) => Known(q)'
      BY <1>1 DEF Known
    <3>5. ASSUME NEW i \in DOMAIN wasms PROVE NodeIsTrue(i, r)'
      BY <1>1, <3>1, <3>3 DEF NodeIsTrue
    <3>6. ASSUME NEW q \in Run \ {r}, NEW i \in DOMAIN wasms, wasms'[i].provenance[q] # "none"
          PROVE  Known(q)' /\ NodeIsTrue(i, q)'
      <4>1. Known(q) /\ NodeIsTrue(i, q)
        BY <3>1, <3>6 DEF DeployCore, RecordsHold, NodesHold
      <4> QED BY <1>1, <3>1, <3>4, <4>1 DEF NodeIsTrue
    <3>7. \A q \in verifying' : Known(q)'
      BY <1>1, <3>4 DEF DeployCore, DeployTypeOK, RecordsHold, NodesHold
    <3> QED BY <3>1, <3>2, <3>3, <3>4, <3>5, <3>6, <3>7 DEF NodesHold
  <2>2. CASE UNCHANGED <<verified, wasms>>
    <3>1. NodesHold'
      BY <1>1, <2>2 DEF DeployCore, RecordsHold, NodesHold, NodeIsTrue, Known
    <3> QED BY <1>1, <2>2, <3>1, CoreTypes DEF DeployCore, DeployTypeOK, RecordsHold, ConfirmedHold
  <2> QED BY <1>1, <2>1, <2>2
<1>3. DeployTypeOK'
  BY <1>1, <1>2 DEF DeployCore, DeployTypeOK, WasmsHold
<1>4. PipelineWaitsForRuns' /\ LogNamesItsNetwork'
  BY <1>1 DEF DeployCore, PipelineWaitsForRuns, LogNamesItsNetwork, AwaitsTx
<1>5. ListedAreOver' /\ SwitchSeen' /\ AwaitingAreBegun'
  BY <1>1 DEF DeployCore, RecordsHold, ListedAreOver, SwitchSeen, AwaitingAreBegun, AwaitsTx
<1> QED BY <1>2, <1>3, <1>4, <1>5 DEF DeployCore, RecordsHold

(* What is recorded does not depend on the pipeline.                       *)
LEMMA RecordsStay ==
  ASSUME RecordsHold, UNCHANGED <<runs, wasms, listed, sources, activeNetwork>>
  PROVE  RecordsHold'
<1>1. ListedAreOver' /\ ConfirmedHold'
  BY DEF RecordsHold, ListedAreOver, ConfirmedHold, sources
<1>2. SwitchSeen' /\ AwaitingAreBegun'
  BY DEF RecordsHold, SwitchSeen, AwaitingAreBegun, AwaitsTx
<1>3. NodesHold'
  BY DEF RecordsHold, NodesHold, NodeIsTrue, Known, sources
<1> QED BY <1>1, <1>2, <1>3 DEF RecordsHold

LEMMA BeginVerifyHolds ==
  ASSUME DeployCore, NEW i \in DOMAIN wasms, BeginVerify(i) PROVE DeployCore'
<1>1. /\ verifying' = verifying \cup wasms[i].deployed
      /\ UNCHANGED <<runs, wasms, listed, verified, phase, reloaded, lastLog, activeNetwork>>
  BY DEF BeginVerify
<1>2. wasms[i] \in Entry
  BY CoreTypes DEF WasmsHold
<1>3. wasms[i].deployed \subseteq Run
  BY <1>2 DEF Entry
<1>4. NodesHold'
  <2>1. \A r \in wasms[i].deployed : Known(r)
    BY <1>3, CoreTypes DEF WasmsHold, DeployCore, RecordsHold, NodesHold
  <2>2. \A r \in Run : Known(r) => Known(r)'
    BY <1>1 DEF Known
  <2>3. \A r \in verifying' : Known(r)'
    BY <1>1, <1>3, <2>1, <2>2 DEF DeployCore, DeployTypeOK, RecordsHold, NodesHold
  <2>4. \A r \in Run, k \in DOMAIN wasms : NodeIsTrue(k, r) => NodeIsTrue(k, r)'
    BY <1>1 DEF NodeIsTrue
  <2> QED BY <1>1, <2>2, <2>3, <2>4 DEF DeployCore, RecordsHold, NodesHold
<1>5. DeployTypeOK' /\ PipelineWaitsForRuns' /\ LogNamesItsNetwork'
  BY <1>1, <1>3 DEF DeployCore, DeployTypeOK, PipelineWaitsForRuns, LogNamesItsNetwork, AwaitsTx
<1>6. ListedAreOver' /\ ConfirmedHold' /\ SwitchSeen' /\ AwaitingAreBegun'
  BY <1>1 DEF DeployCore, RecordsHold, ListedAreOver, ConfirmedHold, SwitchSeen,
              AwaitingAreBegun, AwaitsTx
<1> QED BY <1>4, <1>5, <1>6 DEF DeployCore, RecordsHold

LEMMA RemoveWasmHolds == DeployCore /\ RemoveWasm => DeployCore'
<1> SUFFICES ASSUME DeployCore, RemoveWasm PROVE DeployCore'
  OBVIOUS
<1>1. /\ wasms' = <<>>
      /\ UNCHANGED <<runs, listed, sources, phase, reloaded, lastLog, activeNetwork>>
  BY DEF RemoveWasm
<1>2. DeployTypeOK' /\ PipelineWaitsForRuns' /\ LogNamesItsNetwork'
  BY <1>1 DEF DeployCore, DeployTypeOK, PipelineWaitsForRuns, LogNamesItsNetwork, AwaitsTx, sources
<1>3. NodesHold'
  BY <1>1 DEF DeployCore, RecordsHold, NodesHold, Known, sources
<1>4. ListedAreOver' /\ ConfirmedHold' /\ SwitchSeen' /\ AwaitingAreBegun'
  BY <1>1 DEF DeployCore, RecordsHold, ListedAreOver, ConfirmedHold, SwitchSeen,
              AwaitingAreBegun, AwaitsTx
<1> QED BY <1>2, <1>3, <1>4 DEF DeployCore, RecordsHold

LEMMA ResetPipelineHolds == DeployCore /\ ResetPipeline => DeployCore'
<1> SUFFICES ASSUME DeployCore, ResetPipeline PROVE DeployCore'
  OBVIOUS
<1>1. /\ Advance("idle")
      /\ UNCHANGED <<runs, wasms, listed, sources, lastLog, activeNetwork>>
  BY DEF ResetPipeline
<1>2. /\ PipelineWaitsForRuns' /\ reloaded' \in BOOLEAN
      /\ phase' \in {"idle", "install", "instantiate", "publish", "done", "error"}
  BY <1>1, PipelineAdvances
<1>3. DeployTypeOK' /\ LogNamesItsNetwork'
  BY <1>1, <1>2 DEF DeployCore, DeployTypeOK, LogNamesItsNetwork, sources
<1> QED BY <1>1, <1>2, <1>3, RecordsStay DEF DeployCore

(* A switch of the network, and a page that is mounted again, leave all    *)
(* that is recorded of a run.                                              *)
LEMMA SwitchNetworkHolds ==
  ASSUME DeployCore, NEW n \in DeployNetwork, SwitchNetwork(n) PROVE DeployCore'
<1>1. /\ activeNetwork' = n
      /\ runs' = [r \in Run |-> [runs[r] EXCEPT !.switched = runs[r].kind # "none"]]
      /\ UNCHANGED <<wasms, listed, sources, phase, reloaded, lastLog>>
  BY DEF SwitchNetwork
<1>2. ASSUME NEW r \in Run
      PROVE  /\ runs'[r] \in Runs /\ runs'[r].at = runs[r].at /\ runs'[r].kind = runs[r].kind
             /\ runs'[r].network = runs[r].network /\ runs'[r].tx = runs[r].tx
             /\ runs[r].kind # "none" => runs'[r].switched
  <2>1. runs[r] \in Runs /\ (runs[r].kind # "none") \in BOOLEAN
    BY CoreTypes
  <2>2. ASSUME NEW b \in BOOLEAN
        PROVE  LET q == [runs[r] EXCEPT !.switched = b]
               IN  /\ q \in Runs /\ q.at = runs[r].at /\ q.kind = runs[r].kind
                   /\ q.network = runs[r].network /\ q.tx = runs[r].tx /\ q.switched = b
    BY <2>1 DEF Runs
  <2>3. runs'[r] = [runs[r] EXCEPT !.switched = runs[r].kind # "none"]
    BY <1>1, <2>1
  <2> QED BY <2>1, <2>2, <2>3
<1>3. runs' \in [Run -> Runs]
  BY <1>1, <1>2
<1>4. DeployTypeOK' /\ LogNamesItsNetwork'
  BY <1>1, <1>3 DEF DeployCore, DeployTypeOK, LogNamesItsNetwork, sources
<1>5. PipelineWaitsForRuns' /\ ListedAreOver' /\ ConfirmedHold'
  <2>1. UNCHANGED <<wasms, listed, verified, phase, reloaded>>
    BY <1>1 DEF sources
  <2>2. PipelineWaitsForRuns'
    BY <1>2, <2>1 DEF DeployCore, PipelineWaitsForRuns, AwaitsTx
  <2>3. ListedAreOver' /\ ConfirmedHold'
    BY <1>2, <2>1 DEF DeployCore, RecordsHold, ListedAreOver, ConfirmedHold
  <2> QED BY <2>2, <2>3
<1>6. SwitchSeen' /\ AwaitingAreBegun'
  <2>1. \A r \in Run : runs[r].kind # "none" => runs[r].network \in DeployNetwork
    BY DEF DeployCore, RecordsHold, SwitchSeen
  <2>2. SwitchSeen'
    BY <1>2, <2>1 DEF SwitchSeen
  <2>3. AwaitingAreBegun'
    BY <1>2 DEF DeployCore, RecordsHold, AwaitingAreBegun, AwaitsTx
  <2> QED BY <2>2, <2>3
<1>7. NodesHold'
  <2>1. \A r \in Run : Known(r) => Known(r)' /\ runs'[r].switched
    BY <1>2 DEF Known
  <2> QED BY <1>1, <2>1 DEF DeployCore, DeployTypeOK, RecordsHold, NodesHold, NodeIsTrue, sources
<1> QED BY <1>4, <1>5, <1>6, <1>7 DEF DeployCore, RecordsHold

LEMMA RemountHolds == DeployCore /\ Remount => DeployCore'
<1> SUFFICES ASSUME DeployCore, Remount PROVE DeployCore'
  OBVIOUS
<1>1. /\ runs' = [r \in Run |-> [runs[r] EXCEPT !.mine = FALSE]]
      /\ UNCHANGED <<wasms, listed, sources, phase, reloaded, lastLog, activeNetwork>>
  BY DEF Remount
<1>2. ASSUME NEW r \in Run
      PROVE  /\ runs'[r] \in Runs /\ runs'[r].at = runs[r].at /\ runs'[r].kind = runs[r].kind
             /\ runs'[r].network = runs[r].network /\ runs'[r].tx = runs[r].tx
             /\ runs'[r].switched = runs[r].switched
  <2>1. runs[r] \in Runs /\ runs'[r] = [runs[r] EXCEPT !.mine = FALSE]
    BY <1>1, CoreTypes
  <2> QED BY <2>1 DEF Runs
<1>3. runs' \in [Run -> Runs]
  BY <1>1, <1>2
<1>4. DeployTypeOK' /\ LogNamesItsNetwork'
  BY <1>1, <1>3 DEF DeployCore, DeployTypeOK, LogNamesItsNetwork, sources
<1>5. PipelineWaitsForRuns' /\ RecordsHold'
  <2>1. UNCHANGED <<wasms, listed, verified, verifying, phase, reloaded, activeNetwork>>
    BY <1>1 DEF sources
  <2>2. PipelineWaitsForRuns'
    BY <1>2, <2>1 DEF DeployCore, PipelineWaitsForRuns, AwaitsTx
  <2>3. SwitchSeen' /\ AwaitingAreBegun'
    BY <1>2, <2>1 DEF DeployCore, RecordsHold, SwitchSeen, AwaitingAreBegun, AwaitsTx
  <2>4. ListedAreOver' /\ ConfirmedHold'
    BY <1>2, <2>1 DEF DeployCore, RecordsHold, ListedAreOver, ConfirmedHold
  <2>5. NodesHold'
    BY <1>2, <2>1, NodesStay DEF DeployCore, DeployTypeOK, RecordsHold, Known
  <2> QED BY <2>2, <2>3, <2>4, <2>5 DEF RecordsHold
<1> QED BY <1>4, <1>5 DEF DeployCore

LEMMA ReloadStudioHolds == DeployCore /\ ReloadStudio => DeployCore'
<1> SUFFICES ASSUME DeployCore, ReloadStudio PROVE DeployCore'
  OBVIOUS
<1>1. /\ reloaded' = TRUE /\ verifying' = {}
      /\ runs' = [r \in Run |-> IF AwaitsTx(r) THEN Forgotten
                                ELSE IF runs[r].at = "publishing" THEN Kept(runs[r])
                                ELSE runs[r]]
      /\ UNCHANGED <<wasms, listed, verified, phase, lastLog, activeNetwork>>
  BY DEF ReloadStudio
<1>2. ASSUME NEW r \in Run
      PROVE  /\ runs'[r] \in Runs /\ runs'[r].at \notin Awaiting
             /\ runs[r].at \in Over => /\ runs'[r].at \in Over
                                       /\ runs'[r].network = runs[r].network
                                       /\ runs'[r].kind = runs[r].kind
                                       /\ runs'[r].tx = runs[r].tx
                                       /\ runs'[r].switched = runs[r].switched
             /\ runs'[r].kind # "none" => /\ runs'[r].kind = runs[r].kind
                                          /\ runs'[r].network = runs[r].network
                                          /\ runs'[r].switched = runs[r].switched
  BY <1>1, CoreTypes, RunTypes DEF Over, Awaiting
<1>3. runs' \in [Run -> Runs]
  BY <1>1, <1>2
<1>4. DeployTypeOK' /\ LogNamesItsNetwork' /\ PipelineWaitsForRuns'
  BY <1>1, <1>3 DEF DeployCore, DeployTypeOK, LogNamesItsNetwork, PipelineWaitsForRuns
<1>5. RecordsHold'
  <2>1. ListedAreOver' /\ ConfirmedHold'
    BY <1>1, <1>2 DEF DeployCore, RecordsHold, ListedAreOver, ConfirmedHold
  <2>2. SwitchSeen' /\ AwaitingAreBegun'
    BY <1>1, <1>2 DEF DeployCore, RecordsHold, SwitchSeen, AwaitingAreBegun, AwaitsTx, Awaiting
  <2>3. NodesHold'
    <3>1. ASSUME NEW r \in Run, Known(r)
          PROVE  Known(r)' /\ runs'[r].network = runs[r].network
                 /\ runs'[r].switched = runs[r].switched
      BY <1>2, <3>1 DEF Known
    <3>2. verifying' = {} /\ wasms' = wasms
      BY <1>1
    <3> QED BY <3>1, <3>2 DEF DeployCore, RecordsHold, NodesHold, NodeIsTrue
  <2> QED BY <2>1, <2>2, <2>3 DEF RecordsHold
<1> QED BY <1>4, <1>5 DEF DeployCore

LEMMA DeployBegins == DeployInit => DeployCore
<1> SUFFICES ASSUME DeployInit PROVE DeployCore
  OBVIOUS
<1>1. runs = [r \in Run |-> NotBegun] /\ runs \in [Run -> Runs]
  BY RunTypes DEF DeployInit
<1>2. \A r \in Run : runs[r].at = "none" /\ runs[r].kind = "none"
  BY <1>1 DEF NotBegun
<1>3. /\ wasms \in Seq(Entry)
      /\ \A i \in DOMAIN wasms : i = 1 /\ wasms[i].deployed = {}
                                 /\ \A r \in Run : wasms[i].provenance[r] = "none"
  <2>1. CASE wasms = <<>>
    BY <2>1
  <2>2. ASSUME NEW n \in DeployNetwork, wasms = <<NewEntry(n)>>
        PROVE  /\ wasms \in Seq(Entry)
               /\ \A i \in DOMAIN wasms : i = 1 /\ wasms[i].deployed = {}
                                          /\ \A r \in Run : wasms[i].provenance[r] = "none"
    BY <2>2, NewEntryTyped
  <2> QED BY <2>1, <2>2 DEF DeployInit
<1>4. DeployTypeOK
  BY <1>1, <1>3 DEF DeployInit, DeployTypeOK, DeployNetworks, NotMisnamed
<1>5. RecordsHold
  BY <1>2, <1>3 DEF DeployInit, RecordsHold, ListedAreOver, ConfirmedHold, NodesHold, SwitchSeen,
                    AwaitingAreBegun, AwaitsTx
<1> QED
  BY <1>4, <1>5 DEF DeployInit, DeployCore, PipelineWaitsForRuns, LogNamesItsNetwork

LEMMA DeploySteps == DeployCore /\ [DeployNext]_deployVars => DeployCore'
<1>1. DeployCore /\ UNCHANGED deployVars => DeployCore'
  BY RecordsStay DEF deployVars, sources, DeployCore, DeployTypeOK, PipelineWaitsForRuns,
                     LogNamesItsNetwork, AwaitsTx
<1>2. DeployCore /\ DeployNext => DeployCore'
  BY BeginHolds, WaitingHolds, EndsHold, PublishedHolds, EndVerifyHolds, BeginVerifyHolds,
     SwitchNetworkHolds, RemoveWasmHolds, ResetPipelineHolds, RemountHolds, ReloadStudioHolds
     DEF DeployNext
<1> QED BY <1>1, <1>2

(* The pipeline waits for a run or a timer that will come, but for a       *)
(* reload; a contract is listed on the network its transaction was sent    *)
(* to, which succeeded unless the wizard gave up; a confirmed contract     *)
(* has a successful transaction or a registered source; its provenance     *)
(* names the network of the transaction, but for entries of the binary on  *)
(* another network and after a switch; and a log entry names another       *)
(* network than its run's only after a switch.                             *)
THEOREM DeploymentsHold == DeploySpec => []DeployInv
<1>1. DeployCore => DeployInv
  BY DEF DeployCore, DeployInv, RecordsAreTrue, RecordsHold, ListedAreOver, ConfirmedHold,
         NodesHold
<1> QED BY DeployBegins, DeploySteps, <1>1, PTL DEF DeploySpec

-----------------------------------------------------------------------------
(* LocalData for any number of pages, calls and workspaces.  A page may    *)
(* write to the storage what another has not seen, so a link must resolve  *)
(* in two places at once: what a page lists is in the storage, too, unless *)
(* it was removed or written over (PagesAreOnDisk).  And a toast counts as *)
(* a copy, since its Undo may add one (OneCopyWithToasts).                 *)
OneCopyWithToasts ==
  \A t \in Tab, c \in SavedCall : page[t].calls[c] + toasts[t][c] > 1 => c \in forked
OneCopyOnDisk == \A c \in SavedCall : disk.calls[c] > 1 => c \in forked

OnlyGivenIds ==
  /\ \A t \in Tab, c \in SavedCall : page[t].calls[c] > 0 \/ toasts[t][c] > 0 => c \in given
  /\ \A t \in Tab, c \in SavedCall : toasts[t][c] > 0 => c \in removed
  /\ \A c \in SavedCall : disk.calls[c] > 0 => c \in given

PageLinksResolve ==
  \A t \in Tab, w \in Place : \A c \in page[t].links[w] :
    page[t].calls[c] > 0 \/ c \in removed \/ "calls" \in stale
DiskLinksResolve ==
  \A w \in Place : \A c \in disk.links[w] :
    disk.calls[c] > 0 \/ c \in removed \/ "calls" \in stale

PagesAreOnDisk ==
  \A t \in Tab, c \in SavedCall : page[t].calls[c] > 0 =>
    disk.calls[c] > 0 \/ c \in removed \/ "calls" \in stale

DataCore ==
  /\ DataTypeOK /\ OneCopyWithToasts /\ OneCopyOnDisk /\ OnlyGivenIds
  /\ PageLinksResolve /\ DiskLinksResolve /\ PagesAreOnDisk /\ ImportSurvives

LEMMA DataFields ==
  ASSUME NEW d \in Data
  PROVE  /\ d.calls \in [SavedCall -> 0 .. MaxCopies] /\ d.places \subseteq Place
         /\ d.links \in [Place -> SUBSET SavedCall]
         /\ \A c \in SavedCall : d.calls[c] \in Nat
         /\ \A w \in Place : d.links[w] \subseteq SavedCall
BY LocalAssumption DEF Data

LEMMA DataMade ==
  ASSUME NEW calls \in [SavedCall -> 0 .. MaxCopies], NEW places \in SUBSET Place,
         NEW links \in [Place -> SUBSET SavedCall], NEW d,
         d = [calls |-> calls, places |-> places, links |-> links]
  PROVE  d \in Data /\ d.calls = calls /\ d.places = places /\ d.links = links
BY DEF Data

LEMMA SetCallsFields ==
  ASSUME DataTypeOK, NEW t \in Tab, NEW calls \in [SavedCall -> 0 .. MaxCopies]
  PROVE  LET d == SetCalls(t, calls)
         IN  d \in Data /\ d.calls = calls /\ d.places = page[t].places /\ d.links = page[t].links
BY DEF SetCalls, DataTypeOK, Data

LEMMA SetPlacesFields ==
  ASSUME NEW d \in Data, NEW w \in Place, NEW S \in SUBSET SavedCall
  PROVE  LET e == SetPlaces(d, w, S)
         IN  /\ e \in Data /\ e.calls = d.calls /\ e.places = d.places \cup {w}
             /\ e.links[w] = S /\ \A v \in Place \ {w} : e.links[v] = d.links[v]
<1> DEFINE links == [d.links EXCEPT ![w] = S]
           places == d.places \cup {w}
           e == [d EXCEPT !.places = places, !.links = links]
<1>1. /\ links \in [Place -> SUBSET SavedCall] /\ links[w] = S
      /\ \A v \in Place \ {w} : links[v] = d.links[v]
  BY DEF Data
<1>2. places \in SUBSET Place
  BY DEF Data
<1>3. SetPlaces(d, w, S) = e
  BY DEF SetPlaces, Data
<1> HIDE DEF links
<1>4. e \in Data /\ e.calls = d.calls /\ e.places = places /\ e.links = links
  BY <1>1, <1>2 DEF Data
<1> HIDE DEF e
<1> QED BY <1>1, <1>3, <1>4

LEMMA SavesWrites ==
  ASSUME DataTypeOK, NEW t \in Tab, NEW new \in Data, NEW stores \in SUBSET {"calls", "places"},
         Saves(t, new, stores)
  PROVE  /\ page' \in [Tab -> Data] /\ page'[t] = new
         /\ \A u \in Tab \ {t} : page'[u] = page[u]
         /\ disk' \in Data
         /\ disk'.calls = (IF "calls" \in stores THEN new.calls ELSE disk.calls)
         /\ disk'.places = (IF "places" \in stores THEN new.places ELSE disk.places)
         /\ disk'.links = (IF "places" \in stores THEN new.links ELSE disk.links)
         /\ stale' \subseteq {"calls", "places"} /\ stale \subseteq stale'
         /\ "calls" \in stores /\ "calls" \notin stale' => disk.calls = page[t].calls
         /\ "places" \in stores /\ "places" \notin stale' => disk.places = page[t].places
<1>1. page' \in [Tab -> Data] /\ page'[t] = new /\ \A u \in Tab \ {t} : page'[u] = page[u]
  BY DEF Saves, DataTypeOK
<1>2. disk \in Data /\ stale \subseteq {"calls", "places"}
  BY DEF DataTypeOK
<1> DEFINE calls == IF "calls" \in stores THEN new.calls ELSE disk.calls
           places == IF "places" \in stores THEN new.places ELSE disk.places
           links == IF "places" \in stores THEN new.links ELSE disk.links
<1>3. /\ calls \in [SavedCall -> 0 .. MaxCopies] /\ places \in SUBSET Place
      /\ links \in [Place -> SUBSET SavedCall]
  BY <1>2, DataFields
<1>4. disk' = [calls |-> calls, places |-> places, links |-> links]
  BY DEF Saves
<1>5. disk' \in Data /\ disk'.calls = calls /\ disk'.places = places /\ disk'.links = links
  <2> HIDE DEF calls, places, links
  <2> QED BY <1>3, <1>4, DataMade
<1>6. /\ stale' \subseteq {"calls", "places"} /\ stale \subseteq stale'
      /\ "calls" \in stores /\ "calls" \notin stale' => disk.calls = page[t].calls
      /\ "places" \in stores /\ "places" \notin stale' =>
           <<disk.places, disk.links>> = <<page[t].places, page[t].links>>
  BY <1>2 DEF Saves
<1> QED BY <1>1, <1>5, <1>6

(* What holds of a page that saves holds of the storage it writes to.      *)
LEMMA SavesHolds ==
  ASSUME DataCore, NEW t \in Tab, NEW new \in Data, NEW stores \in SUBSET {"calls", "places"},
         Saves(t, new, stores), UNCHANGED incoming,
         "calls" \notin stores => new.calls = page[t].calls,
         "places" \notin stores => new.links = page[t].links,
         page[t].places \subseteq new.places,
         removed \subseteq removed', forked \subseteq forked',
         \A c \in SavedCall : page[t].calls[c] > 0 => new.calls[c] > 0 \/ c \in removed',
         \A w \in Place : \A c \in new.links[w] :
           new.calls[c] > 0 \/ c \in removed' \/ "calls" \in stale,
         \A c \in SavedCall : new.calls[c] > 1 => c \in forked'
  PROVE  /\ OneCopyOnDisk' /\ PageLinksResolve' /\ DiskLinksResolve' /\ PagesAreOnDisk'
         /\ ImportSurvives'
<1>1. /\ page' \in [Tab -> Data] /\ page'[t] = new
      /\ \A u \in Tab \ {t} : page'[u] = page[u]
      /\ disk'.calls = (IF "calls" \in stores THEN new.calls ELSE disk.calls)
      /\ disk'.places = (IF "places" \in stores THEN new.places ELSE disk.places)
      /\ disk'.links = (IF "places" \in stores THEN new.links ELSE disk.links)
      /\ stale \subseteq stale'
      /\ "calls" \in stores /\ "calls" \notin stale' => disk.calls = page[t].calls
      /\ "places" \in stores /\ "places" \notin stale' => disk.places = page[t].places
  BY SavesWrites DEF DataCore
<1>2. /\ \A u \in Tab : page[u] \in Data
      /\ disk \in Data
      /\ \A w \in Place : new.links[w] \subseteq SavedCall
  BY DataFields DEF DataCore, DataTypeOK
<1>3. OneCopyOnDisk'
  BY <1>1 DEF DataCore, OneCopyOnDisk
<1>4. PageLinksResolve'
  <2> SUFFICES ASSUME NEW u \in Tab, NEW w \in Place, NEW c \in page'[u].links[w]
               PROVE  page'[u].calls[c] > 0 \/ c \in removed' \/ "calls" \in stale'
    BY DEF PageLinksResolve
  <2>1. CASE u = t
    BY <1>1, <2>1
  <2>2. CASE u # t
    BY <1>1, <2>2 DEF DataCore, PageLinksResolve
  <2> QED BY <2>1, <2>2
(* What was in the storage, or on the page that saves, still is.           *)
<1>5. ASSUME NEW c \in SavedCall, disk.calls[c] > 0
      PROVE  disk'.calls[c] > 0 \/ c \in removed' \/ "calls" \in stale'
  BY <1>1, <1>5
<1>6. ASSUME NEW c \in SavedCall, new.calls[c] > 0
      PROVE  disk'.calls[c] > 0 \/ c \in removed' \/ "calls" \in stale'
  BY <1>1, <1>6 DEF DataCore, PagesAreOnDisk
<1>7. DiskLinksResolve'
  <2> SUFFICES ASSUME NEW w \in Place, NEW c \in disk'.links[w]
               PROVE  disk'.calls[c] > 0 \/ c \in removed' \/ "calls" \in stale'
    BY DEF DiskLinksResolve
  <2>1. CASE "places" \in stores
    BY <1>1, <1>2, <1>6, <2>1
  <2>2. CASE "places" \notin stores
    <3>1. c \in disk.links[w] /\ c \in SavedCall
      BY <1>1, <1>2, <2>2, DataFields
    <3> QED BY <1>1, <1>5, <3>1 DEF DataCore, DiskLinksResolve
  <2> QED BY <2>1, <2>2
<1>8. PagesAreOnDisk'
  <2> SUFFICES ASSUME NEW u \in Tab, NEW c \in SavedCall, page'[u].calls[c] > 0
               PROVE  disk'.calls[c] > 0 \/ c \in removed' \/ "calls" \in stale'
    BY DEF PagesAreOnDisk
  <2>1. CASE u = t
    BY <1>1, <1>6, <2>1
  <2>2. CASE u # t
    BY <1>1, <1>5, <2>2 DEF DataCore, PagesAreOnDisk
  <2> QED BY <2>1, <2>2
<1>9. ImportSurvives'
  BY <1>1 DEF DataCore, ImportSurvives
<1> QED BY <1>3, <1>4, <1>7, <1>8, <1>9

LEMMA ToastTypes ==
  ASSUME DataTypeOK
  PROVE  \A t \in Tab, c \in SavedCall :
           /\ toasts[t] \in [SavedCall -> 0 .. MaxCopies] /\ toasts[t][c] \in 0 .. MaxCopies
           /\ toasts[t][c] \in Nat /\ page[t].calls[c] \in 0 .. MaxCopies
           /\ page[t].calls[c] \in Nat /\ page[t].calls \in [SavedCall -> 0 .. MaxCopies]
           /\ page[t] \in Data
BY DataFields, LocalAssumption DEF DataTypeOK

(* One counter of toasts changes.                                          *)
LEMMA ToastsChange ==
  ASSUME DataTypeOK, NEW t \in Tab, NEW c \in SavedCall, NEW n \in 0 .. MaxCopies,
         toasts' = [toasts EXCEPT ![t] = [toasts[t] EXCEPT ![c] = n]]
  PROVE  /\ toasts' \in [Tab -> [SavedCall -> 0 .. MaxCopies]] /\ toasts'[t][c] = n
         /\ \A e \in SavedCall \ {c} : toasts'[t][e] = toasts[t][e]
         /\ \A u \in Tab \ {t} : toasts'[u] = toasts[u]
<1>1. toasts[t] \in [SavedCall -> 0 .. MaxCopies] /\ toasts \in [Tab -> [SavedCall -> 0 .. MaxCopies]]
  BY DEF DataTypeOK
<1> DEFINE T == [toasts[t] EXCEPT ![c] = n]
<1>2. /\ T \in [SavedCall -> 0 .. MaxCopies] /\ T[c] = n
      /\ \A e \in SavedCall \ {c} : T[e] = toasts[t][e]
  BY <1>1
<1>3. toasts' = [toasts EXCEPT ![t] = T]
  OBVIOUS
<1> HIDE DEF T
<1>4. toasts' \in [Tab -> [SavedCall -> 0 .. MaxCopies]] /\ toasts'[t] = T
      /\ \A u \in Tab \ {t} : toasts'[u] = toasts[u]
  BY <1>1, <1>2, <1>3
<1> QED BY <1>2, <1>4

LEMMA AddCallsHolds ==
  ASSUME DataCore, NEW t \in Tab, NEW S \in SUBSET SavedCall, AddCalls(t, S) PROVE DataCore'
<1> DEFINE calls == [c \in SavedCall |-> IF c \in S THEN 1 ELSE page[t].calls[c]]
           new == SetCalls(t, calls)
<1>1. /\ S \cap given = {} /\ given' = given \cup S /\ Saves(t, new, {"calls"})
      /\ UNCHANGED <<toasts, incoming, removed, forked>>
  BY DEF AddCalls
<1>2. DataTypeOK /\ calls \in [SavedCall -> 0 .. MaxCopies]
  BY ToastTypes, LocalAssumption DEF DataCore
<1>3. \A c \in SavedCall : calls[c] = IF c \in S THEN 1 ELSE page[t].calls[c]
  OBVIOUS
<1> HIDE DEF calls
<1>4. /\ new \in Data /\ new.calls = calls /\ new.places = page[t].places
      /\ new.links = page[t].links
  BY <1>2, SetCallsFields
<1> HIDE DEF new
<1>5. /\ OneCopyOnDisk' /\ PageLinksResolve' /\ DiskLinksResolve' /\ PagesAreOnDisk'
      /\ ImportSurvives'
  <2>1. \A c \in SavedCall : page[t].calls[c] > 0 => new.calls[c] > 0
    BY <1>3, <1>4
  <2>2. \A c \in SavedCall : new.calls[c] > 1 => c \in forked
    <3> SUFFICES ASSUME NEW c \in SavedCall, new.calls[c] > 1 PROVE c \in forked
      OBVIOUS
    <3>1. page[t].calls[c] > 1 /\ page[t].calls[c] \in Nat /\ toasts[t][c] \in Nat
      BY <1>2, <1>3, <1>4, ToastTypes
    <3> QED BY <3>1 DEF DataCore, OneCopyWithToasts
  <2>3. \A w \in Place : \A c \in new.links[w] :
          new.calls[c] > 0 \/ c \in removed \/ "calls" \in stale
    <3> SUFFICES ASSUME NEW w \in Place, NEW c \in new.links[w]
                 PROVE  new.calls[c] > 0 \/ c \in removed \/ "calls" \in stale
      OBVIOUS
    <3>1. c \in SavedCall /\ c \in page[t].links[w]
      BY <1>4, DataFields
    <3> QED BY <2>1, <3>1 DEF DataCore, PageLinksResolve
  <2> QED BY <1>1, <1>4, <2>1, <2>2, <2>3, SavesHolds
<1>6. /\ page' \in [Tab -> Data] /\ page'[t] = new /\ \A u \in Tab \ {t} : page'[u] = page[u]
      /\ disk' \in Data /\ disk'.calls = calls /\ stale' \subseteq {"calls", "places"}
  BY <1>1, <1>2, <1>4, SavesWrites
<1>7. DataTypeOK'
  BY <1>1, <1>6 DEF DataCore, DataTypeOK
<1>8. OneCopyWithToasts' /\ OnlyGivenIds'
  <2>1. ASSUME NEW u \in Tab, NEW c \in SavedCall
        PROVE  /\ page'[u].calls[c] + toasts'[u][c] > 1 => c \in forked'
               /\ page'[u].calls[c] > 0 \/ toasts'[u][c] > 0 => c \in given'
               /\ toasts'[u][c] > 0 => c \in removed'
    <3>1. page[u].calls[c] \in Nat /\ toasts[u][c] \in Nat
      BY <1>2, ToastTypes
    <3>2. CASE u # t \/ c \notin S
      <4>1. page'[u].calls[c] = page[u].calls[c]
        BY <1>3, <1>4, <1>6, <3>2
      <4> QED BY <1>1, <4>1 DEF DataCore, OneCopyWithToasts, OnlyGivenIds
    <3>3. CASE u = t /\ c \in S
      <4>1. page'[u].calls[c] = 1 /\ toasts[u][c] = 0
        BY <1>1, <1>3, <1>4, <1>6, <3>1, <3>3 DEF DataCore, OnlyGivenIds
      <4> QED BY <1>1, <3>3, <4>1
    <3> QED BY <3>2, <3>3
  <2>2. ASSUME NEW c \in SavedCall, disk'.calls[c] > 0 PROVE c \in given'
    BY <1>1, <1>3, <1>6, <2>2 DEF DataCore, OnlyGivenIds
  <2> QED BY <2>1, <2>2 DEF OneCopyWithToasts, OnlyGivenIds
<1> QED BY <1>5, <1>7, <1>8 DEF DataCore

LEMMA RemoveCallHolds ==
  ASSUME DataCore, NEW t \in Tab, NEW c \in SavedCall, RemoveCall(t, c) PROVE DataCore'
<1> DEFINE calls == [page[t].calls EXCEPT ![c] = 0]
           new == SetCalls(t, calls)
<1>1. /\ page[t].calls[c] > 0 /\ toasts[t][c] < MaxCopies /\ Saves(t, new, {"calls"})
      /\ removed' = removed \cup {c} /\ UNCHANGED <<incoming, given, forked>>
  BY DEF RemoveCall
<1>2. /\ DataTypeOK /\ toasts[t][c] \in Nat /\ toasts[t] \in [SavedCall -> 0 .. MaxCopies]
      /\ page[t].calls \in [SavedCall -> 0 .. MaxCopies] /\ page[t].calls[c] \in Nat
  BY ToastTypes DEF DataCore
<1>3. /\ calls \in [SavedCall -> 0 .. MaxCopies] /\ calls[c] = 0
      /\ \A e \in SavedCall \ {c} : calls[e] = page[t].calls[e]
  BY <1>2, LocalAssumption
<1> HIDE DEF calls
<1>4. /\ new \in Data /\ new.calls = calls /\ new.places = page[t].places
      /\ new.links = page[t].links
  BY <1>2, <1>3, SetCallsFields
<1> HIDE DEF new
<1>5. toasts' = [toasts EXCEPT ![t] = [toasts[t] EXCEPT ![c] = toasts[t][c] + 1]]
  BY <1>2 DEF RemoveCall, DataTypeOK
<1>6. toasts[t][c] + 1 \in 0 .. MaxCopies
  BY <1>1, <1>2, LocalAssumption
<1>7. /\ toasts' \in [Tab -> [SavedCall -> 0 .. MaxCopies]]
      /\ toasts'[t][c] = toasts[t][c] + 1
      /\ \A e \in SavedCall \ {c} : toasts'[t][e] = toasts[t][e]
      /\ \A u \in Tab \ {t} : toasts'[u] = toasts[u]
  BY <1>2, <1>5, <1>6, ToastsChange
<1>8. /\ OneCopyOnDisk' /\ PageLinksResolve' /\ DiskLinksResolve' /\ PagesAreOnDisk'
      /\ ImportSurvives'
  <2>1. \A e \in SavedCall : page[t].calls[e] > 0 => new.calls[e] > 0 \/ e \in removed'
    BY <1>1, <1>3, <1>4
  <2>2. \A e \in SavedCall : new.calls[e] > 1 => e \in forked'
    <3> SUFFICES ASSUME NEW e \in SavedCall, new.calls[e] > 1 PROVE e \in forked
      BY <1>1
    <3>1. page[t].calls[e] > 1 /\ page[t].calls[e] \in Nat /\ toasts[t][e] \in Nat
      BY <1>2, <1>3, <1>4, ToastTypes
    <3> QED BY <3>1 DEF DataCore, OneCopyWithToasts
  <2>3. \A w \in Place : \A e \in new.links[w] :
          new.calls[e] > 0 \/ e \in removed' \/ "calls" \in stale
    <3> SUFFICES ASSUME NEW w \in Place, NEW e \in new.links[w]
                 PROVE  new.calls[e] > 0 \/ e \in removed' \/ "calls" \in stale
      OBVIOUS
    <3>1. e \in SavedCall /\ e \in page[t].links[w]
      BY <1>4, DataFields
    <3> QED BY <1>1, <2>1, <3>1 DEF DataCore, PageLinksResolve
  <2> QED BY <1>1, <1>4, <2>1, <2>2, <2>3, SavesHolds
<1>9. /\ page' \in [Tab -> Data] /\ page'[t] = new /\ \A u \in Tab \ {t} : page'[u] = page[u]
      /\ disk' \in Data /\ disk'.calls = calls /\ stale' \subseteq {"calls", "places"}
  BY <1>1, <1>2, <1>4, SavesWrites
<1>10. DataTypeOK'
  BY <1>1, <1>7, <1>9 DEF DataCore, DataTypeOK
<1>11. OneCopyWithToasts' /\ OnlyGivenIds'
  <2>1. ASSUME NEW u \in Tab, NEW e \in SavedCall
        PROVE  /\ page'[u].calls[e] + toasts'[u][e] > 1 => e \in forked'
               /\ page'[u].calls[e] > 0 \/ toasts'[u][e] > 0 => e \in given'
               /\ toasts'[u][e] > 0 => e \in removed'
    <3>1. page[u].calls[e] \in Nat /\ toasts[u][e] \in Nat
      BY <1>2, ToastTypes
    <3>2. CASE u # t \/ e # c
      <4>1. page'[u].calls[e] = page[u].calls[e] /\ toasts'[u][e] = toasts[u][e]
        BY <1>3, <1>4, <1>7, <1>9, <3>2
      <4> QED BY <1>1, <4>1 DEF DataCore, OneCopyWithToasts, OnlyGivenIds
    <3>3. CASE u = t /\ e = c
      <4>1. page'[u].calls[e] = 0 /\ toasts'[u][e] = toasts[u][e] + 1
        BY <1>3, <1>4, <1>7, <1>9, <3>3
      <4> QED BY <1>1, <3>1, <3>3, <4>1 DEF DataCore, OneCopyWithToasts, OnlyGivenIds
    <3> QED BY <3>2, <3>3
  <2>2. ASSUME NEW e \in SavedCall, disk'.calls[e] > 0 PROVE e \in given'
    BY <1>1, <1>3, <1>9, <2>2 DEF DataCore, OnlyGivenIds
  <2> QED BY <2>1, <2>2 DEF OneCopyWithToasts, OnlyGivenIds
<1> QED BY <1>8, <1>10, <1>11 DEF DataCore

LEMMA UndoHolds ==
  ASSUME DataCore, NEW t \in Tab, NEW c \in SavedCall, Undo(t, c) PROVE DataCore'
<1> DEFINE calls == [page[t].calls EXCEPT ![c] = page[t].calls[c] + 1]
           new == SetCalls(t, calls)
<1>1. /\ DataTypeOK /\ toasts[t][c] \in Nat /\ toasts[t] \in [SavedCall -> 0 .. MaxCopies]
      /\ page[t].calls \in [SavedCall -> 0 .. MaxCopies] /\ page[t].calls[c] \in Nat
      /\ toasts[t][c] \in 0 .. MaxCopies
  BY ToastTypes DEF DataCore
<1>2. /\ toasts[t][c] > 0 /\ page[t].calls[c] < MaxCopies /\ Saves(t, new, {"calls"})
      /\ toasts' = ToastGone(t, c) /\ UNCHANGED <<incoming, given, removed, forked>>
  BY <1>1 DEF Undo
<1>3. /\ calls \in [SavedCall -> 0 .. MaxCopies] /\ calls[c] = page[t].calls[c] + 1
      /\ \A e \in SavedCall \ {c} : calls[e] = page[t].calls[e]
  BY <1>1, <1>2, LocalAssumption
<1> HIDE DEF calls
<1>4. /\ new \in Data /\ new.calls = calls /\ new.places = page[t].places
      /\ new.links = page[t].links
  BY <1>1, <1>3, SetCallsFields
<1> HIDE DEF new
<1>5. toasts' = [toasts EXCEPT ![t] = [toasts[t] EXCEPT ![c] = toasts[t][c] - 1]]
  BY <1>1, <1>2 DEF ToastGone, DataTypeOK
<1>6. toasts[t][c] - 1 \in 0 .. MaxCopies
  BY <1>1, <1>2, LocalAssumption
<1>7. /\ toasts' \in [Tab -> [SavedCall -> 0 .. MaxCopies]]
      /\ toasts'[t][c] = toasts[t][c] - 1
      /\ \A e \in SavedCall \ {c} : toasts'[t][e] = toasts[t][e]
      /\ \A u \in Tab \ {t} : toasts'[u] = toasts[u]
  BY <1>1, <1>5, <1>6, ToastsChange
<1>8. /\ OneCopyOnDisk' /\ PageLinksResolve' /\ DiskLinksResolve' /\ PagesAreOnDisk'
      /\ ImportSurvives'
  <2>1. \A e \in SavedCall : page[t].calls[e] > 0 => new.calls[e] > 0
    BY <1>1, <1>3, <1>4
  <2>2. \A e \in SavedCall : new.calls[e] > 1 => e \in forked
    <3> SUFFICES ASSUME NEW e \in SavedCall, new.calls[e] > 1 PROVE e \in forked
      OBVIOUS
    <3>1. page[t].calls[e] \in Nat /\ toasts[t][e] \in Nat
      BY <1>1, ToastTypes
    <3>2. page[t].calls[e] + toasts[t][e] > 1
      BY <1>1, <1>2, <1>3, <1>4, <3>1
    <3> QED BY <3>2 DEF DataCore, OneCopyWithToasts
  <2>3. \A w \in Place : \A e \in new.links[w] :
          new.calls[e] > 0 \/ e \in removed \/ "calls" \in stale
    <3> SUFFICES ASSUME NEW w \in Place, NEW e \in new.links[w]
                 PROVE  new.calls[e] > 0 \/ e \in removed \/ "calls" \in stale
      OBVIOUS
    <3>1. e \in SavedCall /\ e \in page[t].links[w]
      BY <1>4, DataFields
    <3> QED BY <2>1, <3>1 DEF DataCore, PageLinksResolve
  <2> QED BY <1>2, <1>4, <2>1, <2>2, <2>3, SavesHolds
<1>9. /\ page' \in [Tab -> Data] /\ page'[t] = new /\ \A u \in Tab \ {t} : page'[u] = page[u]
      /\ disk' \in Data /\ disk'.calls = calls /\ stale' \subseteq {"calls", "places"}
  BY <1>1, <1>2, <1>4, SavesWrites
<1>10. DataTypeOK'
  BY <1>2, <1>7, <1>9 DEF DataCore, DataTypeOK
<1>11. OneCopyWithToasts' /\ OnlyGivenIds'
  <2>1. ASSUME NEW u \in Tab, NEW e \in SavedCall
        PROVE  /\ page'[u].calls[e] + toasts'[u][e] > 1 => e \in forked'
               /\ page'[u].calls[e] > 0 \/ toasts'[u][e] > 0 => e \in given'
               /\ toasts'[u][e] > 0 => e \in removed'
    <3>1. page[u].calls[e] \in Nat /\ toasts[u][e] \in Nat
      BY <1>1, ToastTypes
    <3>2. CASE u # t \/ e # c
      <4>1. page'[u].calls[e] = page[u].calls[e] /\ toasts'[u][e] = toasts[u][e]
        BY <1>3, <1>4, <1>7, <1>9, <3>2
      <4> QED BY <1>2, <4>1 DEF DataCore, OneCopyWithToasts, OnlyGivenIds
    <3>3. CASE u = t /\ e = c
      <4>1. page'[u].calls[e] = page[u].calls[e] + 1 /\ toasts'[u][e] = toasts[u][e] - 1
        BY <1>3, <1>4, <1>7, <1>9, <3>3
      <4>2. toasts[u][e] > 0
        BY <1>2, <3>3
      <4> QED BY <1>2, <3>1, <4>1, <4>2 DEF DataCore, OneCopyWithToasts, OnlyGivenIds
    <3> QED BY <3>2, <3>3
  <2>2. ASSUME NEW e \in SavedCall, disk'.calls[e] > 0 PROVE e \in given'
    <3>1. CASE e = c
      BY <1>2, <3>1 DEF DataCore, OnlyGivenIds
    <3>2. CASE e # c
      BY <1>2, <1>3, <1>9, <2>2, <3>2 DEF DataCore, OnlyGivenIds
    <3> QED BY <3>1, <3>2
  <2> QED BY <2>1, <2>2 DEF OneCopyWithToasts, OnlyGivenIds
<1> QED BY <1>8, <1>10, <1>11 DEF DataCore

LEMMA ToastExpiresHolds ==
  ASSUME DataCore, NEW t \in Tab, NEW c \in SavedCall, ToastExpires(t, c) PROVE DataCore'
<1>1. /\ DataTypeOK /\ toasts[t][c] \in Nat /\ toasts[t][c] \in 0 .. MaxCopies
  BY ToastTypes DEF DataCore
<1>2. /\ toasts[t][c] > 0
      /\ UNCHANGED <<page, disk, incoming, given, removed, forked, stale>>
      /\ toasts' = [toasts EXCEPT ![t] = [toasts[t] EXCEPT ![c] = toasts[t][c] - 1]]
  BY <1>1 DEF ToastExpires, DataTypeOK
<1>3. toasts[t][c] - 1 \in 0 .. MaxCopies
  BY <1>1, <1>2, LocalAssumption
<1>4. /\ toasts' \in [Tab -> [SavedCall -> 0 .. MaxCopies]]
      /\ toasts'[t][c] = toasts[t][c] - 1
      /\ \A e \in SavedCall \ {c} : toasts'[t][e] = toasts[t][e]
      /\ \A u \in Tab \ {t} : toasts'[u] = toasts[u]
  BY <1>1, <1>2, <1>3, ToastsChange
<1>5. ASSUME NEW u \in Tab, NEW e \in SavedCall
      PROVE  toasts'[u][e] <= toasts[u][e] /\ toasts'[u][e] \in Nat /\ toasts[u][e] \in Nat
             /\ page[u].calls[e] \in Nat
  <2>1. toasts[u][e] \in Nat /\ page[u].calls[e] \in Nat
    BY <1>1, ToastTypes
  <2> QED BY <1>1, <1>2, <1>4, <2>1
<1>6. OneCopyWithToasts' /\ OnlyGivenIds'
  BY <1>2, <1>5 DEF DataCore, OneCopyWithToasts, OnlyGivenIds
<1>7. DataTypeOK'
  BY <1>2, <1>4 DEF DataCore, DataTypeOK
<1>8. /\ OneCopyOnDisk' /\ PageLinksResolve' /\ DiskLinksResolve' /\ PagesAreOnDisk'
      /\ ImportSurvives'
  BY <1>2 DEF DataCore, OneCopyOnDisk, PageLinksResolve, DiskLinksResolve, PagesAreOnDisk,
              ImportSurvives
<1> QED BY <1>6, <1>7, <1>8 DEF DataCore

LEMMA ForkHolds ==
  ASSUME DataCore, NEW t \in Tab, NEW w \in Place, NEW S \in SUBSET SavedCall, Fork(t, w, S)
  PROVE  DataCore'
<1> DEFINE missing == {c \in S : page[t].calls[c] = 0}
           calls == [c \in SavedCall |-> IF c \in missing THEN 1 ELSE page[t].calls[c]]
           new == SetPlaces(SetCalls(t, calls), w, S)
           stores == {"places"} \cup (IF missing = {} THEN {} ELSE {"calls"})
<1>1. /\ given' = given \cup {w} \cup S /\ Saves(t, new, stores)
      /\ forked' = forked \cup {c \in missing : toasts[t][c] > 0}
      /\ UNCHANGED <<toasts, incoming, removed>>
  BY DEF Fork
<1>2. DataTypeOK /\ \A c \in SavedCall : page[t].calls[c] \in Nat /\ toasts[t][c] \in Nat
  BY ToastTypes DEF DataCore
<1>3. calls \in [SavedCall -> 0 .. MaxCopies]
  BY <1>2, ToastTypes, LocalAssumption
<1>4. /\ \A c \in SavedCall : calls[c] = IF c \in missing THEN 1 ELSE page[t].calls[c]
      /\ missing \subseteq SavedCall /\ \A c \in missing : page[t].calls[c] = 0
      /\ \A c \in S : c \in missing \/ page[t].calls[c] # 0
  OBVIOUS
<1>5. missing = {} => calls = page[t].calls
  <2>1. page[t].calls \in [SavedCall -> 0 .. MaxCopies]
    BY <1>2, DataFields DEF DataTypeOK
  <2>2. missing = {} => \A c \in SavedCall : calls[c] = page[t].calls[c]
    BY <1>4
  <2> HIDE DEF missing, calls
  <2> QED BY <1>3, <2>1, <2>2
<1>6. /\ stores \in SUBSET {"calls", "places"} /\ "places" \in stores
      /\ "calls" \notin stores => missing = {}
  OBVIOUS
<1> HIDE DEF calls, missing, stores
<1>7. /\ new \in Data /\ new.calls = calls /\ new.places = page[t].places \cup {w}
      /\ new.links[w] = S /\ \A v \in Place \ {w} : new.links[v] = page[t].links[v]
  <2>1. /\ SetCalls(t, calls) \in Data /\ SetCalls(t, calls).calls = calls
        /\ SetCalls(t, calls).places = page[t].places
        /\ SetCalls(t, calls).links = page[t].links
    BY <1>2, <1>3, SetCallsFields
  <2> QED BY <2>1, SetPlacesFields
<1> HIDE DEF new
<1>8. /\ OneCopyOnDisk' /\ PageLinksResolve' /\ DiskLinksResolve' /\ PagesAreOnDisk'
      /\ ImportSurvives'
  <2>1. \A c \in SavedCall : page[t].calls[c] > 0 => new.calls[c] > 0
    BY <1>4, <1>7
  <2>2. \A c \in SavedCall : new.calls[c] > 1 => c \in forked'
    <3> SUFFICES ASSUME NEW c \in SavedCall, new.calls[c] > 1 PROVE c \in forked
      BY <1>1
    <3>1. page[t].calls[c] > 1 /\ page[t].calls[c] \in Nat /\ toasts[t][c] \in Nat
      BY <1>2, <1>4, <1>7
    <3> QED BY <3>1 DEF DataCore, OneCopyWithToasts
  <2>3. \A v \in Place : \A c \in new.links[v] :
          new.calls[c] > 0 \/ c \in removed' \/ "calls" \in stale
    <3> SUFFICES ASSUME NEW v \in Place, NEW c \in new.links[v]
                 PROVE  new.calls[c] > 0 \/ c \in removed' \/ "calls" \in stale
      OBVIOUS
    <3>1. c \in SavedCall /\ new.calls[c] \in Nat
      BY <1>7, DataFields
    <3>2. CASE v = w
      BY <1>2, <1>4, <1>7, <3>1, <3>2
    <3>3. CASE v # w
      BY <1>1, <1>7, <2>1, <3>1, <3>3 DEF DataCore, PageLinksResolve
    <3> QED BY <3>2, <3>3
  <2>4. "calls" \notin stores => new.calls = page[t].calls
    BY <1>5, <1>6, <1>7
  <2> QED BY <1>1, <1>6, <1>7, <2>1, <2>2, <2>3, <2>4, SavesHolds
<1>9. /\ page' \in [Tab -> Data] /\ page'[t] = new /\ \A u \in Tab \ {t} : page'[u] = page[u]
      /\ disk' \in Data /\ stale' \subseteq {"calls", "places"}
      /\ disk'.calls = calls \/ disk'.calls = disk.calls
  BY <1>1, <1>2, <1>6, <1>7, SavesWrites
<1>10. missing \subseteq S /\ \A c \in missing : toasts[t][c] > 0 => c \in removed
  BY <1>4 DEF DataCore, OnlyGivenIds, missing
<1>11. DataTypeOK'
  <2>1. forked' \subseteq removed'
    BY <1>1, <1>10 DEF DataCore, DataTypeOK
  <2> QED BY <1>1, <1>9, <2>1 DEF DataCore, DataTypeOK
<1>12. OneCopyWithToasts' /\ OnlyGivenIds'
  <2>1. ASSUME NEW u \in Tab, NEW c \in SavedCall
        PROVE  /\ page'[u].calls[c] + toasts'[u][c] > 1 => c \in forked'
               /\ page'[u].calls[c] > 0 \/ toasts'[u][c] > 0 => c \in given'
               /\ toasts'[u][c] > 0 => c \in removed'
    <3>1. page[u].calls[c] \in Nat /\ toasts[u][c] \in Nat
      BY <1>2, ToastTypes
    <3>2. CASE u # t \/ c \notin missing
      <4>1. page'[u].calls[c] = page[u].calls[c]
        BY <1>4, <1>7, <1>9, <3>2
      <4> QED BY <1>1, <4>1 DEF DataCore, OneCopyWithToasts, OnlyGivenIds
    <3>3. CASE u = t /\ c \in missing
      <4>1. page'[u].calls[c] = 1 /\ (toasts[u][c] > 0 => c \in forked') /\ c \in given'
        BY <1>1, <1>4, <1>7, <1>9, <1>10, <3>3
      <4> QED BY <1>1, <3>1, <4>1 DEF DataCore, OnlyGivenIds
    <3> QED BY <3>2, <3>3
  <2>2. ASSUME NEW c \in SavedCall, disk'.calls[c] > 0 PROVE c \in given'
    <3>1. CASE c \in missing
      BY <1>1, <1>10, <3>1
    <3>2. CASE c \notin missing
      BY <1>1, <1>4, <1>9, <2>2, <3>2 DEF DataCore, OnlyGivenIds
    <3> QED BY <3>1, <3>2
  <2> QED BY <2>1, <2>2 DEF OneCopyWithToasts, OnlyGivenIds
<1> QED BY <1>8, <1>11, <1>12 DEF DataCore

LEMMA DuplicateHolds ==
  ASSUME DataCore, NEW t \in Tab, NEW w \in Place, NEW v \in Place, Duplicate(t, w, v)
  PROVE  DataCore'
<1> DEFINE new == SetPlaces(page[t], v, page[t].links[w])
<1>1. /\ given' = given \cup {v} /\ Saves(t, new, {"places"})
      /\ UNCHANGED <<toasts, incoming, removed, forked>>
  BY DEF Duplicate
<1>2. DataTypeOK /\ page[t] \in Data /\ page[t].links[w] \in SUBSET SavedCall
  BY DataFields DEF DataCore, DataTypeOK
<1>3. /\ new \in Data /\ new.calls = page[t].calls /\ new.places = page[t].places \cup {v}
      /\ new.links[v] = page[t].links[w]
      /\ \A x \in Place \ {v} : new.links[x] = page[t].links[x]
  BY <1>2, SetPlacesFields
<1> HIDE DEF new
<1>4. \A c \in SavedCall : page[t].calls[c] \in Nat /\ toasts[t][c] \in Nat
  BY <1>2, ToastTypes
<1>5. /\ OneCopyOnDisk' /\ PageLinksResolve' /\ DiskLinksResolve' /\ PagesAreOnDisk'
      /\ ImportSurvives'
  <2>1. \A c \in SavedCall : new.calls[c] > 1 => c \in forked
    BY <1>3, <1>4 DEF DataCore, OneCopyWithToasts
  <2>2. \A x \in Place : \A c \in new.links[x] :
          new.calls[c] > 0 \/ c \in removed \/ "calls" \in stale
    BY <1>3 DEF DataCore, PageLinksResolve
  <2> QED BY <1>1, <1>3, <2>1, <2>2, SavesHolds
<1>6. /\ page' \in [Tab -> Data] /\ page'[t] = new /\ \A u \in Tab \ {t} : page'[u] = page[u]
      /\ disk' \in Data /\ stale' \subseteq {"calls", "places"} /\ disk'.calls = disk.calls
  BY <1>1, <1>2, <1>3, SavesWrites
<1>7. DataTypeOK'
  BY <1>1, <1>6 DEF DataCore, DataTypeOK
<1>8. \A u \in Tab : page'[u].calls = page[u].calls
  BY <1>3, <1>6
<1>9. OneCopyWithToasts' /\ OnlyGivenIds'
  BY <1>1, <1>6, <1>8 DEF DataCore, OneCopyWithToasts, OnlyGivenIds
<1> QED BY <1>5, <1>7, <1>9 DEF DataCore

LEMMA ImportFileHolds ==
  ASSUME DataCore, NEW t \in Tab, NEW w \in Place, NEW S \in SUBSET SavedCall,
         NEW links \in {S, {}}, NEW n \in 1 .. 4, ImportFile(t, w, S, links, n)
  PROVE  DataCore'
<1> DEFINE calls == [c \in SavedCall |-> IF n >= 2 /\ c \in S THEN 1 ELSE disk.calls[c]]
           places == disk.places \cup (IF n >= 3 THEN {w} ELSE {})
           linked == IF n >= 3 THEN [disk.links EXCEPT ![w] = links] ELSE disk.links
<1>1. /\ disk' = [calls |-> calls, places |-> places, links |-> linked]
      /\ incoming' = IF n = 4 THEN [incoming EXCEPT ![t] = w] ELSE incoming
      /\ given' = given \cup {w} \cup S
      /\ UNCHANGED <<page, toasts, removed, forked, stale>>
  BY DEF ImportFile, Written, AllWritten
<1>2. /\ DataTypeOK /\ disk \in Data /\ disk.calls \in [SavedCall -> 0 .. MaxCopies]
      /\ disk.places \subseteq Place /\ disk.links \in [Place -> SUBSET SavedCall]
      /\ incoming \in [Tab -> Place \cup {NoPlace, Backup}]
  BY DataFields DEF DataCore, DataTypeOK
<1>3. /\ calls \in [SavedCall -> 0 .. MaxCopies] /\ places \in SUBSET Place
      /\ linked \in [Place -> SUBSET SavedCall]
  BY <1>2, LocalAssumption
<1>4. /\ \A c \in SavedCall : calls[c] = IF n >= 2 /\ c \in S THEN 1 ELSE disk.calls[c]
      /\ disk.places \subseteq places /\ (n = 4 => w \in places)
      /\ \A x \in Place : linked[x] = IF n >= 3 /\ x = w THEN links ELSE disk.links[x]
      /\ links \subseteq S
  BY <1>2
<1> HIDE DEF calls, places, linked
<1>5. disk' \in Data /\ disk'.calls = calls /\ disk'.places = places /\ disk'.links = linked
  BY <1>1, <1>3, DataMade
<1>6. \A c \in SavedCall : disk.calls[c] \in Nat /\ (disk.calls[c] > 0 => disk'.calls[c] > 0)
  BY <1>2, <1>4, <1>5, DataFields
<1>7. DataTypeOK'
  <2>1. incoming' \in [Tab -> Place \cup {NoPlace, Backup}]
    BY <1>1, <1>2
  <2> QED BY <1>1, <1>5, <2>1 DEF DataCore, DataTypeOK
<1>8. OneCopyWithToasts' /\ PageLinksResolve'
  BY <1>1 DEF DataCore, OneCopyWithToasts, PageLinksResolve
<1>9. OneCopyOnDisk' /\ OnlyGivenIds' /\ PagesAreOnDisk'
  <2>1. OneCopyOnDisk'
    BY <1>1, <1>4, <1>5 DEF DataCore, OneCopyOnDisk
  <2>2. OnlyGivenIds'
    BY <1>1, <1>4, <1>5 DEF DataCore, OnlyGivenIds
  <2>3. PagesAreOnDisk'
    BY <1>1, <1>6 DEF DataCore, PagesAreOnDisk
  <2> QED BY <2>1, <2>2, <2>3
<1>10. DiskLinksResolve'
  <2> SUFFICES ASSUME NEW x \in Place, NEW c \in disk'.links[x]
               PROVE  disk'.calls[c] > 0 \/ c \in removed \/ "calls" \in stale
    BY <1>1 DEF DiskLinksResolve
  <2>1. CASE n >= 3 /\ x = w
    <3>1. c \in S /\ c \in SavedCall
      BY <1>4, <1>5, <2>1
    <3> QED BY <1>4, <1>5, <2>1, <3>1
  <2>2. CASE ~ (n >= 3 /\ x = w)
    <3>1. c \in disk.links[x] /\ c \in SavedCall
      BY <1>2, <1>4, <1>5, <2>2
    <3> QED BY <1>6, <3>1 DEF DataCore, DiskLinksResolve
  <2> QED BY <2>1, <2>2
<1>11. ImportSurvives'
  <2> SUFFICES ASSUME NEW u \in Tab, incoming'[u] \in Place
               PROVE  incoming'[u] \in disk'.places \/ "places" \in stale
    BY <1>1 DEF ImportSurvives
  <2>1. CASE n = 4 /\ u = t
    BY <1>1, <1>2, <1>4, <1>5, <2>1
  <2>2. CASE ~ (n = 4 /\ u = t)
    <3>1. incoming'[u] = incoming[u]
      BY <1>1, <1>2, <2>2
    <3> QED BY <1>4, <1>5, <3>1 DEF DataCore, ImportSurvives
  <2> QED BY <2>1, <2>2
<1> QED BY <1>7, <1>8, <1>9, <1>10, <1>11 DEF DataCore

(* A full backup: what it leaves out counts as removed.                    *)
LEMMA ImportBackupHolds ==
  ASSUME DataCore, NEW t \in Tab, NEW calls \in [SavedCall -> 0 .. MaxCopies],
         NEW finished \in BOOLEAN, ImportBackup(t, calls, finished)
  PROVE  DataCore'
<1>1. /\ \A c \in SavedCall : calls[c] > 1 => c \in forked
      /\ incoming' = IF finished THEN [incoming EXCEPT ![t] = Backup] ELSE incoming
      /\ UNCHANGED <<page, toasts, forked, stale>>
      /\ disk' = [disk EXCEPT !.calls = calls]
      /\ given' = given \cup {c \in SavedCall : calls[c] > 0}
      /\ removed' = removed \cup {c \in SavedCall : calls[c] = 0 /\ disk.calls[c] > 0}
  BY DEF ImportBackup
<1>2. /\ DataTypeOK /\ disk \in Data /\ incoming \in [Tab -> Place \cup {NoPlace, Backup}]
      /\ \A c \in SavedCall : disk.calls[c] \in Nat /\ calls[c] \in Nat
      /\ \A x \in Place : disk.links[x] \subseteq SavedCall
  BY DataFields, LocalAssumption DEF DataCore, DataTypeOK
<1>3. /\ disk' \in Data /\ disk'.calls = calls
      /\ disk'.places = disk.places /\ disk'.links = disk.links
  BY <1>1, <1>2 DEF Data
<1>4. \A c \in SavedCall :
        /\ disk'.calls[c] > 0 => c \in given'
        /\ disk.calls[c] > 0 => disk'.calls[c] > 0 \/ c \in removed'
  BY <1>1, <1>2, <1>3
<1>5. DataTypeOK'
  <2>1. incoming' \in [Tab -> Place \cup {NoPlace, Backup}]
    BY <1>1, <1>2
  <2> QED BY <1>1, <1>3, <2>1 DEF DataCore, DataTypeOK
<1>6. OneCopyWithToasts' /\ PageLinksResolve' /\ OneCopyOnDisk'
  BY <1>1, <1>3 DEF DataCore, OneCopyWithToasts, PageLinksResolve, OneCopyOnDisk
<1>7. OnlyGivenIds'
  BY <1>1, <1>3, <1>4 DEF DataCore, OnlyGivenIds
<1>8. PagesAreOnDisk' /\ DiskLinksResolve'
  BY <1>1, <1>2, <1>3, <1>4 DEF DataCore, PagesAreOnDisk, DiskLinksResolve
<1>9. ImportSurvives'
  <2>1. \A u \in Tab : incoming'[u] = incoming[u] \/ incoming'[u] = Backup
    BY <1>1, <1>2
  <2> QED BY <1>1, <1>3, <2>1, LocalAssumption DEF DataCore, ImportSurvives
<1> QED BY <1>5, <1>6, <1>7, <1>8, <1>9 DEF DataCore

LEMMA ReloadTabHolds ==
  ASSUME DataCore, NEW t \in Tab, ReloadTab(t) PROVE DataCore'
<1> DEFINE none == [c \in SavedCall |-> 0]
<1>1. /\ page' = [page EXCEPT ![t] = disk] /\ toasts' = [toasts EXCEPT ![t] = none]
      /\ incoming' = [incoming EXCEPT ![t] = NoPlace]
      /\ UNCHANGED <<disk, given, removed, forked, stale>>
  BY DEF ReloadTab
<1>2. /\ none \in [SavedCall -> 0 .. MaxCopies] /\ \A c \in SavedCall : none[c] = 0
  BY LocalAssumption
<1> HIDE DEF none
<1>3. DataTypeOK'
  BY <1>1, <1>2 DEF DataCore, DataTypeOK
<1>4. /\ page'[t] = disk /\ toasts'[t] = none /\ incoming'[t] = NoPlace
      /\ \A u \in Tab \ {t} :
           page'[u] = page[u] /\ toasts'[u] = toasts[u] /\ incoming'[u] = incoming[u]
  BY <1>1 DEF DataCore, DataTypeOK
<1>5. \A c \in SavedCall : disk.calls[c] \in Nat
  BY DataFields DEF DataCore, DataTypeOK
<1>6. OneCopyWithToasts' /\ OnlyGivenIds'
  <2>1. OneCopyWithToasts'
    BY <1>1, <1>2, <1>4, <1>5 DEF DataCore, OneCopyWithToasts, OneCopyOnDisk
  <2>2. OnlyGivenIds'
    BY <1>1, <1>2, <1>4 DEF DataCore, OnlyGivenIds
  <2> QED BY <2>1, <2>2
<1>7. PageLinksResolve' /\ PagesAreOnDisk'
  BY <1>1, <1>4 DEF DataCore, PageLinksResolve, DiskLinksResolve, PagesAreOnDisk
<1>8. OneCopyOnDisk' /\ DiskLinksResolve' /\ ImportSurvives'
  BY <1>1, <1>4, LocalAssumption DEF DataCore, OneCopyOnDisk, DiskLinksResolve, ImportSurvives
<1> QED BY <1>3, <1>6, <1>7, <1>8 DEF DataCore

LEMMA DataBegins == DataInit => DataCore
<1> SUFFICES ASSUME DataInit PROVE DataCore
  OBVIOUS
<1>1. /\ Empty \in Data /\ \A c \in SavedCall : Empty.calls[c] = 0
      /\ \A w \in Place : Empty.links[w] = {}
  BY LocalAssumption DEF Empty, Data
<1>2. /\ disk = Empty /\ \A t \in Tab : page[t] = Empty /\ incoming[t] = NoPlace
      /\ \A t \in Tab, c \in SavedCall : toasts[t][c] = 0
  BY DEF DataInit
<1>3. DataTypeOK
  BY <1>1, LocalAssumption DEF DataInit, DataTypeOK
<1> QED
  BY <1>1, <1>2, <1>3, LocalAssumption
     DEF DataCore, OneCopyWithToasts, OneCopyOnDisk, OnlyGivenIds, PageLinksResolve,
         DiskLinksResolve, PagesAreOnDisk, ImportSurvives

LEMMA DataSteps == DataCore /\ [DataNext]_dataVars => DataCore'
<1>1. DataCore /\ UNCHANGED dataVars => DataCore'
  BY DEF dataVars, DataCore, DataTypeOK, OneCopyWithToasts, OneCopyOnDisk, OnlyGivenIds,
         PageLinksResolve, DiskLinksResolve, PagesAreOnDisk, ImportSurvives
<1>2. DataCore /\ DataNext => DataCore'
  BY AddCallsHolds, RemoveCallHolds, UndoHolds, ToastExpiresHolds, ForkHolds, DuplicateHolds,
     ImportFileHolds, ImportBackupHolds, ReloadTabHolds DEF DataNext
<1> QED BY <1>1, <1>2

(* Whatever the pages of the application do to the storage: an id is       *)
(* listed once unless a fork brought it back before its removal was        *)
(* undone, a link leads to no call only if the call was removed, missing   *)
(* in a backup or written over, and the import of a workspace survives     *)
(* until its reload unless a page that had not seen it writes.             *)
THEOREM LocalDataHolds == DataSpec => []DataInv
<1>1. DataCore => DataInv
  <2> SUFFICES ASSUME DataCore PROVE DataInv
    OBVIOUS
  <2>1. ASSUME NEW d \in DataCopies
        PROVE  /\ \A c \in SavedCall : d.calls[c] > 1 => c \in forked
               /\ \A w \in Place : \A c \in d.links[w] :
                    d.calls[c] > 0 \/ c \in removed \/ "calls" \in stale
    <3>1. CASE d = disk
      BY <3>1 DEF DataCore, OneCopyOnDisk, DiskLinksResolve
    <3>2. ASSUME NEW t \in Tab, d = page[t]
          PROVE  /\ \A c \in SavedCall : d.calls[c] > 1 => c \in forked
                 /\ \A w \in Place : \A c \in d.links[w] :
                      d.calls[c] > 0 \/ c \in removed \/ "calls" \in stale
      <4>1. \A c \in SavedCall : page[t].calls[c] \in Nat /\ toasts[t][c] \in Nat
        BY ToastTypes DEF DataCore
      <4> QED BY <3>2, <4>1 DEF DataCore, OneCopyWithToasts, PageLinksResolve
    <3> QED BY <3>1, <3>2 DEF DataCopies
  <2> QED BY <2>1 DEF DataCore, DataInv, OneCopyUnlessForked, LinksResolveUnlessRemoved
<1> QED BY DataBegins, DataSteps, <1>1, PTL DEF DataSpec

-----------------------------------------------------------------------------
(* WorkspaceStore for any number of workspaces and of what is held of      *)
(* them.  While nothing has gone wrong that ends it, ids are unique and    *)
(* the list is that of kept (IdsAreUnique, IdsAreKept), so that writing a  *)
(* snapshot back changes one workspace; the default workspace is what an   *)
(* archived or a deleted one leaves active, so it must be there            *)
(* (DefaultIsListed).                                                      *)
Doubled == {"undone twice over", "resolved elsewhere"}

IdsAreUnique ==
  mishaps \cap Doubled = {} => \A s, u \in workspaces : s.id = u.id => s = u
DefaultIsListed ==
  mishaps \cap {"default deleted", "resolved elsewhere"} = {} => DefaultId \in Ids
IdsAreKept == ~ Happened("resolved elsewhere") => Ids = kept

StoreCore ==
  /\ StoreTypeOK /\ IsFiniteSet(workspaces)
  /\ IdsAreUnique /\ IdsAreKept /\ DefaultIsListed /\ ActiveIsListed /\ WritesBackItsOwn

Deletion == [target : Snapshot, active : WorkspaceId, later : BOOLEAN]

LEMMA SnapshotTypes ==
  /\ \A w \in WorkspaceId : New(w) \in Snapshot /\ New(w).id = w
  /\ \A s \in Snapshot : s.id \in WorkspaceId
BY DEF New, Snapshot

LEMMA ConflictTypes ==
  ASSUME NEW w \in WorkspaceId, NEW s \in Snapshot
  PROVE  /\ [of |-> w, remote |-> s] # NoConflict
         /\ [of |-> w, remote |-> s] \in [of : WorkspaceId, remote : Snapshot]
         /\ [of |-> w, remote |-> s].of = w /\ [of |-> w, remote |-> s].remote = s
<1>1. NoConflict.of = NoWorkspace
  BY DEF NoConflict
<1> QED BY <1>1, StoreAssumption

LEMMA StoreTypes ==
  ASSUME StoreCore
  PROVE  /\ workspaces \subseteq Snapshot /\ IsFiniteSet(workspaces) /\ Ids \subseteq WorkspaceId
         /\ activeId \in WorkspaceId /\ kept \subseteq WorkspaceId /\ mishaps \subseteq Mishaps
         /\ deletions \in Seq(Deletion) /\ checkpoints \in [WorkspaceId -> Seq(Snapshot)]
         /\ DOMAIN deletions = 1 .. Len(deletions) /\ Len(deletions) \in Nat
         /\ \A i \in DOMAIN deletions : deletions[i] \in Deletion
         /\ \A w \in WorkspaceId : checkpoints[w] \in Seq(Snapshot)
         /\ conflict # NoConflict => /\ conflict.of \in WorkspaceId
                                     /\ conflict.remote \in Snapshot
                                     /\ conflict.remote.id = conflict.of
<1>1. /\ workspaces \subseteq Snapshot /\ IsFiniteSet(workspaces)
      /\ activeId \in WorkspaceId /\ kept \subseteq WorkspaceId /\ mishaps \subseteq Mishaps
      /\ deletions \in Seq(Deletion) /\ checkpoints \in [WorkspaceId -> Seq(Snapshot)]
      /\ conflict # NoConflict => conflict \in [of : WorkspaceId, remote : Snapshot]
      /\ conflict # NoConflict => conflict.remote.id = conflict.of
  BY DEF StoreCore, StoreTypeOK, Deletion, WritesBackItsOwn
<1>2. Ids \subseteq WorkspaceId
  BY <1>1 DEF Ids, Snapshot
<1>3. DOMAIN deletions = 1 .. Len(deletions) /\ Len(deletions) \in Nat
  BY <1>1
<1>4. \A i \in DOMAIN deletions : deletions[i] \in Deletion
  BY <1>1
<1> QED BY <1>1, <1>2, <1>3, <1>4

LEMMA WithoutOne ==
  ASSUME NEW T, NEW seq \in Seq(T), NEW i \in DOMAIN seq
  PROVE  /\ Without1(seq, i) \in Seq(T)
         /\ \A k \in DOMAIN Without1(seq, i) : \E j \in DOMAIN seq : Without1(seq, i)[k] = seq[j]
<1>1. /\ Len(seq) \in Nat /\ i \in 1 .. Len(seq) /\ DOMAIN seq = 1 .. Len(seq)
  OBVIOUS
<1> DEFINE a == SubSeq(seq, 1, i - 1)
           b == SubSeq(seq, i + 1, Len(seq))
<1>2. /\ a \in Seq(T) /\ Len(a) = i - 1 /\ \A k \in 1 .. i - 1 : a[k] = seq[k]
  BY <1>1
<1>3. /\ b \in Seq(T) /\ Len(b) = Len(seq) - i
      /\ \A k \in 1 .. Len(seq) - i : b[k] = seq[i + k]
  BY <1>1
<1>4. Without1(seq, i) = a \o b
  BY DEF Without1
<1> HIDE DEF a, b
<1>5. /\ a \o b \in Seq(T) /\ Len(a \o b) = Len(a) + Len(b)
      /\ \A k \in 1 .. Len(a) + Len(b) :
           (a \o b)[k] = IF k <= Len(a) THEN a[k] ELSE b[k - Len(a)]
  BY <1>2, <1>3, ConcatProperties
<1>6. Len(a) + Len(b) = Len(seq) - 1 /\ Len(seq) - 1 \in Nat
  BY <1>1, <1>2, <1>3
<1>7. ASSUME NEW k \in 1 .. Len(seq) - 1
      PROVE  \E j \in DOMAIN seq : (a \o b)[k] = seq[j]
  <2>1. CASE k <= i - 1
    <3>1. k \in 1 .. i - 1 /\ k \in DOMAIN seq /\ k <= Len(a)
      BY <1>1, <1>2, <2>1
    <3>2. (a \o b)[k] = seq[k]
      BY <1>2, <1>5, <1>6, <3>1
    <3> QED BY <3>1, <3>2
  <2>2. CASE k > i - 1
    <3>1. k - Len(a) \in 1 .. Len(seq) - i /\ i + (k - Len(a)) = k + 1 /\ ~ k <= Len(a)
          /\ k + 1 \in DOMAIN seq
      BY <1>1, <1>2, <2>2
    <3>2. (a \o b)[k] = b[k - Len(a)]
      BY <1>5, <1>6, <3>1
    <3>3. (a \o b)[k] = seq[k + 1]
      BY <1>3, <3>1, <3>2
    <3> QED BY <3>1, <3>3
  <2>3. k <= i - 1 \/ k > i - 1
    BY <1>1
  <2> QED BY <2>1, <2>2, <2>3
<1>8. DOMAIN (a \o b) = 1 .. Len(seq) - 1
  BY <1>5, <1>6
<1> QED BY <1>4, <1>5, <1>7, <1>8

(* What replaces a workspace in a list of unique ids.                      *)
LEMMA Replacing ==
  ASSUME StoreCore, Followed, NEW w \in WorkspaceId, NEW f \in [Snapshot -> Snapshot]
  PROVE  /\ Replaced(w, f) \subseteq Snapshot /\ IsFiniteSet(Replaced(w, f))
         /\ w \notin Ids \/ (\A s \in Snapshot : s.id = w => f[s].id = w) =>
              /\ {s.id : s \in Replaced(w, f)} = Ids
              /\ \A s, u \in Replaced(w, f) : s.id = u.id => s = u
<1>1. \A s, u \in workspaces : s.id = u.id => s = u
  BY DEF StoreCore, IdsAreUnique, Followed, Doubled
<1>2. workspaces \subseteq Snapshot /\ IsFiniteSet(workspaces)
  BY StoreTypes
<1>3. CASE w \notin Ids
  <2>1. Replaced(w, f) = workspaces
    BY <1>3 DEF Replaced, Ids
  <2> QED BY <1>1, <1>2, <2>1 DEF Ids
<1>4. CASE w \in Ids
  <2>1. PICK t \in workspaces : t.id = w
    BY <1>4 DEF Ids
  <2>2. Replaced(w, f) = (workspaces \ {t}) \cup {f[t]}
    BY <1>1, <2>1 DEF Replaced
  <2>3. f[t] \in Snapshot
    BY <1>2
  <2>4. IsFiniteSet(Replaced(w, f)) /\ Replaced(w, f) \subseteq Snapshot
    <3>1. IsFiniteSet(workspaces \ {t})
      BY <1>2, FS_RemoveElement
    <3> QED BY <1>2, <2>2, <2>3, <3>1, FS_AddElement
  <2>5. ASSUME \A s \in Snapshot : s.id = w => f[s].id = w
        PROVE  /\ {s.id : s \in Replaced(w, f)} = Ids
               /\ \A s, u \in Replaced(w, f) : s.id = u.id => s = u
    <3>1. f[t].id = t.id /\ t.id = w
      BY <1>2, <2>1, <2>5
    <3> QED BY <1>1, <2>1, <2>2, <3>1 DEF Ids
  <2> QED BY <1>4, <2>4, <2>5
<1> QED BY <1>3, <1>4

(* The toasts that stay are some of those there were.                      *)
DeletionsLeft ==
  /\ deletions' \in Seq(Deletion)
  /\ \A i \in DOMAIN deletions' : \E j \in DOMAIN deletions : deletions'[i] = deletions[j]

LEMMA NoDeletionLeaves == StoreCore /\ UNCHANGED deletions => DeletionsLeft
BY StoreTypes DEF DeletionsLeft

HeldHolds ==
  /\ checkpoints \in [WorkspaceId -> Seq(Snapshot)]
  /\ \A w \in WorkspaceId : \A i \in DOMAIN checkpoints[w] : checkpoints[w][i].id = w
  /\ conflict \in {NoConflict} \cup [of : WorkspaceId, remote : Snapshot]
  /\ conflict # NoConflict => conflict.remote.id = conflict.of

LEMMA HeldRests ==
  /\ StoreCore => HeldHolds
  /\ StoreCore /\ UNCHANGED <<checkpoints, conflict>> => HeldHolds'
BY DEF StoreCore, StoreTypeOK, WritesBackItsOwn, HeldHolds

(* The ids stay the same.                                                  *)
LEMMA IdsStay ==
  ASSUME StoreCore, Followed, workspaces' \subseteq Snapshot, IsFiniteSet(workspaces'),
         Ids' = Ids, \A s, u \in workspaces' : s.id = u.id => s = u,
         UNCHANGED <<kept, mishaps>>, activeId' \in {activeId, DefaultId} \cup Ids,
         DeletionsLeft, HeldHolds'
  PROVE  StoreCore'
<1>1. StoreTypeOK'
  BY StoreTypes, StoreAssumption DEF StoreTypeOK, DeletionsLeft, Deletion, HeldHolds
<1>2. IdsAreUnique' /\ IdsAreKept' /\ DefaultIsListed'
  BY DEF StoreCore, IdsAreUnique, IdsAreKept, DefaultIsListed, Happened
<1>3. ActiveIsListed'
  BY DEF StoreCore, DefaultIsListed, ActiveIsListed
<1>4. WritesBackItsOwn'
  BY DEF StoreCore, WritesBackItsOwn, HeldHolds, DeletionsLeft
<1> QED BY <1>1, <1>2, <1>3, <1>4 DEF StoreCore

LEMMA WorkspacesStay ==
  ASSUME StoreCore, Followed, UNCHANGED <<workspaces, kept, mishaps>>,
         activeId' \in {activeId, DefaultId} \cup Ids, DeletionsLeft, HeldHolds'
  PROVE  StoreCore'
<1>1. /\ workspaces' \subseteq Snapshot /\ IsFiniteSet(workspaces') /\ Ids' = Ids
      /\ \A s, u \in workspaces' : s.id = u.id => s = u
  BY StoreTypes DEF StoreCore, IdsAreUnique, Followed, Doubled, Ids
<1> QED BY <1>1, IdsStay

LEMMA ReplacementHolds ==
  ASSUME StoreCore, Followed, NEW w \in WorkspaceId, NEW f \in [Snapshot -> Snapshot],
         w \notin Ids \/ \A s \in Snapshot : s.id = w => f[s].id = w,
         workspaces' = Replaced(w, f), UNCHANGED <<kept, mishaps>>,
         activeId' \in {activeId, DefaultId} \cup Ids, DeletionsLeft, HeldHolds'
  PROVE  StoreCore'
<1>1. /\ workspaces' \subseteq Snapshot /\ IsFiniteSet(workspaces')
      /\ {s.id : s \in workspaces'} = Ids
      /\ \A s, u \in workspaces' : s.id = u.id => s = u
  BY Replacing
<1>2. Ids' = Ids
  BY <1>1 DEF Ids
<1> QED BY <1>1, <1>2, IdsStay

(* A workspace is added, or added again by an undo.                        *)
LEMMA AddingHolds ==
  ASSUME StoreCore, Followed, NEW x \in Snapshot, workspaces' = workspaces \cup {x},
         kept' = kept \cup {x.id}, mishaps \subseteq mishaps', mishaps' \subseteq Mishaps,
         mishaps' \subseteq mishaps \cup {"undone twice over", "undone after another"},
         x.id \in Ids => "undone twice over" \in mishaps',
         activeId' \in WorkspaceId,
         mishaps' \cap {"default deleted", "undone after another", "resolved elsewhere"} = {} =>
           activeId' \in Ids \cup {x.id},
         DeletionsLeft, UNCHANGED <<checkpoints, conflict>>
  PROVE  StoreCore'
<1>1. Ids' = Ids \cup {x.id}
  BY DEF Ids
<1>2. workspaces' \subseteq Snapshot /\ IsFiniteSet(workspaces') /\ kept' \subseteq WorkspaceId
  <2>1. IsFiniteSet(workspaces) /\ workspaces \subseteq Snapshot /\ kept \subseteq WorkspaceId
    BY StoreTypes
  <2>2. IsFiniteSet(workspaces \cup {x})
    BY <2>1, FS_AddElement
  <2> QED BY <2>1, <2>2, SnapshotTypes
<1>3. HeldHolds'
  BY HeldRests
<1>4. StoreTypeOK'
  BY <1>2, <1>3 DEF StoreTypeOK, DeletionsLeft, Deletion, HeldHolds
<1>5. IdsAreUnique'
  <2> SUFFICES ASSUME mishaps' \cap Doubled = {}, NEW s \in workspaces', NEW u \in workspaces',
                      s.id = u.id
               PROVE  s = u
    BY DEF IdsAreUnique
  <2>1. x.id \notin Ids /\ \A a, b \in workspaces : a.id = b.id => a = b
    BY DEF StoreCore, IdsAreUnique, Doubled
  <2>2. \A a \in workspaces : a.id # x.id
    BY <2>1 DEF Ids
  <2> QED BY <2>1, <2>2
<1>6. IdsAreKept' /\ DefaultIsListed' /\ ActiveIsListed'
  BY <1>1 DEF StoreCore, IdsAreKept, DefaultIsListed, ActiveIsListed, Happened
<1>7. WritesBackItsOwn'
  <2> SUFFICES ASSUME NEW i \in DOMAIN deletions', ~ deletions'[i].later, mishaps' = {}
               PROVE  deletions'[i].active \in Ids' \cup {deletions'[i].target.id}
    BY <1>3 DEF WritesBackItsOwn, HeldHolds
  <2>1. PICK j \in DOMAIN deletions : deletions'[i] = deletions[j]
    BY DEF DeletionsLeft
  <2> QED BY <1>1, <2>1 DEF StoreCore, WritesBackItsOwn
<1> QED BY <1>2, <1>4, <1>5, <1>6, <1>7 DEF StoreCore

LEMMA CreateHolds ==
  ASSUME StoreCore, Followed, NEW w \in WorkspaceId, Create(w)
  PROVE  StoreCore'
<1>1. /\ workspaces' = workspaces \cup {New(w)} /\ kept' = kept \cup {w} /\ w \notin Ids
      /\ UNCHANGED <<activeId, deletions, checkpoints, conflict, mishaps>>
  BY DEF Create
<1>2. New(w) \in Snapshot /\ New(w).id = w
  BY SnapshotTypes
<1>3. DeletionsLeft
  BY <1>1, NoDeletionLeaves
<1>4. activeId \in WorkspaceId /\ mishaps \subseteq Mishaps
  BY StoreTypes
<1>5. mishaps \cap {"default deleted", "undone after another", "resolved elsewhere"} = {} =>
        activeId \in Ids
  BY DEF StoreCore, ActiveIsListed
<1> QED BY <1>1, <1>2, <1>3, <1>4, <1>5, AddingHolds

LEMMA SetActiveHolds ==
  ASSUME StoreCore, Followed, NEW w \in WorkspaceId, SetActive(w)
  PROVE  StoreCore'
BY WorkspacesStay, NoDeletionLeaves, HeldRests DEF SetActive

LEMMA ArchiveHolds ==
  ASSUME StoreCore, Followed, NEW w \in WorkspaceId, ArchiveOne(w) \/ UnarchiveOne(w)
  PROVE  StoreCore'
<1> DEFINE Marks(b) == [s \in Snapshot |-> [s EXCEPT !.archived = b]]
<1>1. \A b \in BOOLEAN : /\ Marks(b) \in [Snapshot -> Snapshot]
                         /\ \A s \in Snapshot : Marks(b)[s].id = s.id
  BY DEF Snapshot
<1>2. DeletionsLeft /\ HeldHolds'
  BY NoDeletionLeaves, HeldRests DEF ArchiveOne, UnarchiveOne
<1>3. UNCHANGED <<kept, mishaps>> /\ activeId' \in {activeId, DefaultId} \cup Ids
  BY DEF ArchiveOne, UnarchiveOne, Ids
<1>4. \E b \in BOOLEAN : workspaces' = Replaced(w, Marks(b))
  BY DEF ArchiveOne, UnarchiveOne
<1> HIDE DEF Marks
<1>5. PICK b \in BOOLEAN : workspaces' = Replaced(w, Marks(b))
  BY <1>4
<1>6. Marks(b) \in [Snapshot -> Snapshot] /\ \A s \in Snapshot : s.id = w => Marks(b)[s].id = w
  BY <1>1
<1> QED BY <1>2, <1>3, <1>5, <1>6, ReplacementHolds

LEMMA ExpiresHolds ==
  ASSUME StoreCore, Followed, NEW i \in DOMAIN deletions, StoreToastExpires(i)
  PROVE  StoreCore'
<1>1. deletions' = Without1(deletions, i) /\ deletions \in Seq(Deletion)
  BY StoreTypes DEF StoreToastExpires
<1>2. DeletionsLeft
  BY <1>1, WithoutOne DEF DeletionsLeft
<1>3. UNCHANGED <<workspaces, activeId, kept, mishaps>> /\ HeldHolds'
  BY HeldRests DEF StoreToastExpires
<1> QED BY <1>2, <1>3, WorkspacesStay

LEMMA UndoDeleteHolds ==
  ASSUME StoreCore, Followed, NEW i \in DOMAIN deletions, UndoDelete(i)
  PROVE  StoreCore'
<1> DEFINE t == deletions[i]
<1>1. deletions' = Without1(deletions, i) /\ deletions \in Seq(Deletion) /\ t \in Deletion
  BY StoreTypes DEF UndoDelete
<1>2. DeletionsLeft
  BY <1>1, WithoutOne DEF DeletionsLeft
<1>3. t.target \in Snapshot /\ t.active \in WorkspaceId /\ t.later \in BOOLEAN
  BY <1>1 DEF Deletion
<1>4. /\ workspaces' = workspaces \cup {t.target} /\ kept' = kept \cup {t.target.id}
      /\ activeId' = t.active /\ UNCHANGED <<checkpoints, conflict>>
  BY DEF UndoDelete, Undone
<1>5. /\ mishaps \subseteq mishaps'
      /\ mishaps' \subseteq mishaps \cup {"undone twice over", "undone after another"}
      /\ t.target.id \in Ids => "undone twice over" \in mishaps'
      /\ t.later => "undone after another" \in mishaps'
  BY DEF UndoDelete
<1>6. mishaps' \subseteq Mishaps
  BY <1>5, StoreTypes DEF Mishaps
<1>7. ASSUME mishaps' \cap {"default deleted", "undone after another", "resolved elsewhere"} = {}
      PROVE  activeId' \in Ids \cup {t.target.id}
  <2>1. ~ t.later
    BY <1>5, <1>7
  <2>2. mishaps = {}
    BY <1>5, <1>7, StoreTypes DEF Followed, Mishaps
  <2> QED BY <1>4, <2>1, <2>2 DEF StoreCore, WritesBackItsOwn
<1> HIDE DEF t
<1> QED BY <1>2, <1>3, <1>4, <1>5, <1>6, <1>7, AddingHolds

(* The workspace of an id that is listed.                                  *)
LEMMA WorkspaceOfId ==
  ASSUME StoreCore, NEW w \in Ids
  PROVE  WorkspaceOf(w) \in workspaces /\ WorkspaceOf(w) \in Snapshot /\ WorkspaceOf(w).id = w
<1>1. \E s \in workspaces : s.id = w
  BY DEF Ids
<1> QED BY <1>1, StoreTypes DEF WorkspaceOf

LEMMA DeleteHolds ==
  ASSUME StoreCore, Followed, NEW w \in WorkspaceId, Delete(w)
  PROVE  StoreCore'
<1> DEFINE older == [i \in DOMAIN deletions |-> [deletions[i] EXCEPT !.later = TRUE]]
           last == [target |-> WorkspaceOf(w), active |-> activeId, later |-> FALSE]
<1>1. /\ w \in Ids /\ workspaces' = {s \in workspaces : s.id # w} /\ kept' = kept \ {w}
      /\ activeId' = IF activeId = w THEN DefaultId ELSE activeId
      /\ mishaps' = mishaps \cup {m \in {"default deleted"} : w = DefaultId}
      /\ UNCHANGED <<checkpoints, conflict>>
  BY DEF Delete, ActiveAfter
<1>2. deletions' = Append(older, last)
  BY DEF Delete
<1>3. Ids' = Ids \ {w}
  BY <1>1 DEF Ids
<1>4. /\ workspaces \subseteq Snapshot /\ IsFiniteSet(workspaces)
      /\ activeId \in WorkspaceId /\ kept \subseteq WorkspaceId /\ mishaps \subseteq Mishaps
      /\ deletions \in Seq(Deletion) /\ DOMAIN deletions = 1 .. Len(deletions)
      /\ Len(deletions) \in Nat /\ \A i \in DOMAIN deletions : deletions[i] \in Deletion
  BY StoreTypes
<1>5. last \in Deletion /\ last.target.id = w /\ last.active = activeId
  BY <1>1, <1>4, WorkspaceOfId DEF Deletion
<1>6. older \in Seq(Deletion) /\ \A i \in 1 .. Len(older) : older[i].later
  <2>1. \A i \in DOMAIN deletions : [deletions[i] EXCEPT !.later = TRUE] \in Deletion
                                    /\ [deletions[i] EXCEPT !.later = TRUE].later
    BY <1>4 DEF Deletion
  <2>2. older \in [1 .. Len(deletions) -> Deletion]
    BY <1>4, <2>1
  <2>3. older \in Seq(Deletion) /\ Len(older) = Len(deletions)
    BY <1>4, <2>2
  <2> QED BY <1>4, <2>1, <2>3
<1> HIDE DEF older, last
<1>7. /\ deletions' \in Seq(Deletion)
      /\ \A i \in DOMAIN deletions' : deletions'[i].later \/ deletions'[i] = last
  <2>1. /\ Append(older, last) \in Seq(Deletion) /\ Len(Append(older, last)) = Len(older) + 1
        /\ \A i \in 1 .. Len(older) : Append(older, last)[i] = older[i]
        /\ Append(older, last)[Len(older) + 1] = last
    BY <1>5, <1>6
  <2>2. Len(older) \in Nat /\ DOMAIN Append(older, last) = 1 .. Len(older) + 1
    BY <1>6, <2>1
  <2>3. \A i \in DOMAIN Append(older, last) : i \in 1 .. Len(older) \/ i = Len(older) + 1
    BY <2>2
  <2> QED BY <1>2, <1>6, <2>1, <2>3
<1>8. workspaces' \subseteq Snapshot /\ IsFiniteSet(workspaces')
  BY <1>1, <1>4, FS_Subset
<1>9. HeldHolds'
  BY <1>1, HeldRests
<1>10. StoreTypeOK'
  <2>1. mishaps' \subseteq Mishaps
    BY <1>1, <1>4 DEF Mishaps
  <2>2. activeId' \in WorkspaceId /\ kept' \subseteq WorkspaceId
    BY <1>1, <1>4, StoreAssumption
  <2> QED BY <1>7, <1>8, <1>9, <2>1, <2>2 DEF StoreTypeOK, Deletion, HeldHolds
<1>11. IdsAreUnique'
  BY <1>1 DEF StoreCore, IdsAreUnique, Doubled
<1>12. IdsAreKept' /\ DefaultIsListed'
  BY <1>1, <1>3 DEF StoreCore, IdsAreKept, DefaultIsListed, Happened
<1>13. ActiveIsListed'
  BY <1>1, <1>3 DEF StoreCore, ActiveIsListed, DefaultIsListed
<1>14. WritesBackItsOwn'
  <2> SUFFICES ASSUME NEW i \in DOMAIN deletions', ~ deletions'[i].later, mishaps' = {}
               PROVE  deletions'[i].active \in Ids' \cup {deletions'[i].target.id}
    BY <1>9 DEF WritesBackItsOwn, HeldHolds
  <2>1. deletions'[i] = last /\ mishaps = {}
    BY <1>1, <1>7
  <2>2. activeId \in Ids
    BY <2>1 DEF StoreCore, ActiveIsListed
  <2> QED BY <1>3, <1>5, <2>1, <2>2
<1> QED BY <1>8, <1>10, <1>11, <1>12, <1>13, <1>14 DEF StoreCore

(* What one workspace's checkpoints become.                                *)
LEMMA CheckpointsHold ==
  ASSUME StoreCore, Followed, NEW w \in WorkspaceId, NEW saved \in Seq(Snapshot),
         \A i \in DOMAIN saved : saved[i].id = w,
         checkpoints' = [checkpoints EXCEPT ![w] = saved],
         UNCHANGED <<workspaces, activeId, deletions, conflict, kept, mishaps>>
  PROVE  StoreCore'
<1>1. HeldHolds /\ DeletionsLeft
  BY HeldRests, NoDeletionLeaves
<1>2. checkpoints' \in [WorkspaceId -> Seq(Snapshot)]
  BY <1>1 DEF HeldHolds
<1>3. \A v \in WorkspaceId : checkpoints'[v] = IF v = w THEN saved ELSE checkpoints[v]
  BY <1>1 DEF HeldHolds
<1>4. HeldHolds'
  BY <1>1, <1>2, <1>3 DEF HeldHolds
<1> QED BY <1>1, <1>4, WorkspacesStay

LEMMA SaveCheckpointHolds ==
  ASSUME StoreCore, Followed, NEW w \in WorkspaceId, SaveCheckpoint(w)
  PROVE  StoreCore'
<1> DEFINE s == WorkspaceOf(w)
           saved == Append(checkpoints[w], s)
<1>1. /\ w \in Ids /\ checkpoints' = [checkpoints EXCEPT ![w] = saved]
      /\ UNCHANGED <<workspaces, activeId, deletions, conflict, kept, mishaps>>
  BY DEF SaveCheckpoint
<1>2. s \in Snapshot /\ s.id = w
  BY <1>1, WorkspaceOfId
<1>3. checkpoints[w] \in Seq(Snapshot) /\ \A i \in 1 .. Len(checkpoints[w]) : checkpoints[w][i].id = w
  BY StoreTypes DEF StoreCore, WritesBackItsOwn
<1> HIDE DEF s
<1>4. /\ saved \in Seq(Snapshot) /\ Len(saved) = Len(checkpoints[w]) + 1
      /\ \A i \in 1 .. Len(checkpoints[w]) : saved[i] = checkpoints[w][i]
      /\ saved[Len(checkpoints[w]) + 1] = s
  BY <1>2, <1>3
<1>5. \A i \in DOMAIN saved : i \in 1 .. Len(checkpoints[w]) \/ i = Len(checkpoints[w]) + 1
  BY <1>3, <1>4
<1>6. \A i \in DOMAIN saved : saved[i].id = w
  BY <1>2, <1>3, <1>4, <1>5
<1> HIDE DEF saved
<1> QED BY <1>1, <1>4, <1>6, CheckpointsHold

LEMMA DeleteCheckpointHolds ==
  ASSUME StoreCore, Followed, NEW w \in WorkspaceId, NEW i \in DOMAIN checkpoints[w],
         DeleteCheckpoint(w, i)
  PROVE  StoreCore'
<1> DEFINE saved == Without1(checkpoints[w], i)
<1>1. /\ checkpoints' = [checkpoints EXCEPT ![w] = saved]
      /\ UNCHANGED <<workspaces, activeId, deletions, conflict, kept, mishaps>>
  BY DEF DeleteCheckpoint
<1>2. checkpoints[w] \in Seq(Snapshot) /\ \A j \in DOMAIN checkpoints[w] : checkpoints[w][j].id = w
  BY StoreTypes DEF StoreCore, WritesBackItsOwn
<1>3. /\ saved \in Seq(Snapshot)
      /\ \A k \in DOMAIN saved : \E j \in DOMAIN checkpoints[w] : saved[k] = checkpoints[w][j]
  BY <1>2, WithoutOne
<1> HIDE DEF saved
<1>4. \A k \in DOMAIN saved : saved[k].id = w
  BY <1>2, <1>3
<1> QED BY <1>1, <1>3, <1>4, CheckpointsHold

LEMMA RestoreCheckpointHolds ==
  ASSUME StoreCore, Followed, NEW w \in WorkspaceId, NEW i \in DOMAIN checkpoints[w],
         RestoreCheckpoint(w, i)
  PROVE  StoreCore'
<1> DEFINE Comes == [s \in Snapshot |-> checkpoints[w][i]]
<1>1. checkpoints[w][i] \in Snapshot /\ checkpoints[w][i].id = w
  BY StoreTypes DEF StoreCore, WritesBackItsOwn
<1>2. Comes \in [Snapshot -> Snapshot] /\ \A s \in Snapshot : s.id = w => Comes[s].id = w
  BY <1>1
<1>3. workspaces' = Replaced(w, Comes) /\ UNCHANGED <<activeId, kept, mishaps>>
  BY DEF RestoreCheckpoint, Restored
<1>4. DeletionsLeft /\ HeldHolds'
  BY NoDeletionLeaves, HeldRests DEF RestoreCheckpoint
<1> HIDE DEF Comes
<1> QED BY <1>2, <1>3, <1>4, ReplacementHolds

-----------------------------------------------------------------------------
LEMMA LoadWorkspaceHolds ==
  ASSUME StoreCore, Followed, NEW w \in WorkspaceId, LoadWorkspace(w)
  PROVE  StoreCore'
<1> DEFINE Takes == [s \in Snapshot |-> New(w)]
<1>1. New(w) \in Snapshot /\ New(w).id = w
  BY SnapshotTypes
<1>2. /\ workspaces' = IF w \in Ids THEN Replaced(w, Takes) ELSE workspaces \cup {New(w)}
      /\ kept' = kept \cup {w}
      /\ UNCHANGED <<activeId, deletions, checkpoints, conflict, mishaps>>
  BY DEF LoadWorkspace
<1>3. DeletionsLeft /\ HeldHolds'
  BY <1>2, NoDeletionLeaves, HeldRests
<1>4. CASE w \in Ids
  <2>1. Takes \in [Snapshot -> Snapshot] /\ \A s \in Snapshot : s.id = w => Takes[s].id = w
    BY <1>1
  <2>2. UNCHANGED kept
    BY <1>2, <1>4 DEF StoreCore, IdsAreKept, Followed, Happened
  <2>3. workspaces' = Replaced(w, Takes)
    BY <1>2, <1>4
  <2> HIDE DEF Takes
  <2> QED BY <1>2, <1>3, <2>1, <2>2, <2>3, ReplacementHolds
<1>5. CASE w \notin Ids
  <2>1. workspaces' = workspaces \cup {New(w)}
    BY <1>2, <1>5
  <2>2. activeId \in WorkspaceId /\ mishaps \subseteq Mishaps
    BY StoreTypes
  <2>3. mishaps \cap {"default deleted", "undone after another", "resolved elsewhere"} = {} =>
          activeId \in Ids
    BY DEF StoreCore, ActiveIsListed
  <2> QED BY <1>1, <1>2, <1>3, <1>5, <2>1, <2>2, <2>3, AddingHolds
<1> QED BY <1>4, <1>5

LEMMA DetectConflictHolds ==
  ASSUME StoreCore, Followed, NEW w \in WorkspaceId, DetectConflict(w)
  PROVE  StoreCore'
<1>1. /\ conflict' = [of |-> w, remote |-> New(w)]
      /\ UNCHANGED <<workspaces, activeId, deletions, checkpoints, kept, mishaps>>
  BY DEF DetectConflict
<1>2. New(w) \in Snapshot /\ New(w).id = w
  BY SnapshotTypes
<1>3. conflict' \in [of : WorkspaceId, remote : Snapshot] /\ conflict'.remote.id = conflict'.of
  BY <1>1, <1>2, ConflictTypes
<1>4. HeldHolds /\ DeletionsLeft
  BY <1>1, HeldRests, NoDeletionLeaves
<1>5. HeldHolds'
  BY <1>1, <1>3, <1>4 DEF HeldHolds, NoConflict
<1> QED BY <1>1, <1>4, <1>5, WorkspacesStay

LEMMA ConflictEnds ==
  ASSUME StoreCore, UNCHANGED checkpoints, conflict' = NoConflict
  PROVE  HeldHolds'
<1>1. HeldHolds /\ NoConflict' = NoConflict
  BY HeldRests DEF NoConflict
<1> QED BY <1>1 DEF HeldHolds

LEMMA DismissConflictHolds ==
  ASSUME StoreCore, Followed, DismissConflict
  PROVE  StoreCore'
<1>1. /\ conflict' = NoConflict
      /\ UNCHANGED <<workspaces, activeId, deletions, checkpoints, kept, mishaps>>
  BY DEF DismissConflict
<1> QED BY <1>1, ConflictEnds, NoDeletionLeaves, WorkspacesStay

LEMMA ResolveConflictHolds ==
  ASSUME StoreCore, Followed, NEW strategy, ResolveConflict(strategy)
  PROVE  StoreCore'
<1> DEFINE r == conflict.remote
           Resolves == [s \in Snapshot |-> IF strategy = "keep-local" THEN s ELSE r]
           Elsewhere == strategy # "keep-local" /\ activeId \in Ids /\ activeId # r.id
<1>1. /\ conflict # NoConflict /\ conflict' = NoConflict /\ workspaces' = Replaced(activeId, Resolves)
      /\ mishaps' = mishaps \cup {m \in {"resolved elsewhere"} : Elsewhere}
      /\ UNCHANGED <<activeId, deletions, checkpoints, kept>>
  BY DEF ResolveConflict
<1>2. r \in Snapshot /\ activeId \in WorkspaceId /\ mishaps \subseteq Mishaps
  BY <1>1, StoreTypes
<1>3. Resolves \in [Snapshot -> Snapshot]
  BY <1>2
<1>4. HeldHolds' /\ DeletionsLeft
  BY <1>1, ConflictEnds, NoDeletionLeaves
<1>5. CASE ~ Elsewhere
  <2>1. activeId \notin Ids \/ \A s \in Snapshot : s.id = activeId => Resolves[s].id = activeId
    BY <1>5
  <2>2. mishaps' = mishaps
    BY <1>1, <1>5
  <2> HIDE DEF Resolves, Elsewhere
  <2> QED BY <1>1, <1>2, <1>3, <1>4, <2>1, <2>2, ReplacementHolds
<1>6. CASE Elsewhere
  <2>1. workspaces' \subseteq Snapshot /\ IsFiniteSet(workspaces')
    <3> HIDE DEF Resolves
    <3> QED BY <1>1, <1>2, <1>3, Replacing
  <2>2. "resolved elsewhere" \in mishaps' /\ mishaps' \subseteq Mishaps
    BY <1>1, <1>2, <1>6 DEF Mishaps
  <2>3. StoreTypeOK'
    BY <1>1, <1>4, <2>1, <2>2, StoreTypes DEF StoreTypeOK, DeletionsLeft, Deletion, HeldHolds
  <2>4. IdsAreUnique' /\ IdsAreKept' /\ DefaultIsListed' /\ ActiveIsListed'
    BY <2>2 DEF IdsAreUnique, Doubled, IdsAreKept, DefaultIsListed, ActiveIsListed, Happened
  <2>5. WritesBackItsOwn'
    BY <1>4, <2>2 DEF WritesBackItsOwn, HeldHolds
  <2> QED BY <2>1, <2>3, <2>4, <2>5 DEF StoreCore
<1> QED BY <1>5, <1>6

-----------------------------------------------------------------------------
LEMMA StoreBegins == StoreInit => StoreCore
<1> SUFFICES ASSUME StoreInit PROVE StoreCore
  OBVIOUS
<1>1. /\ workspaces = {New(DefaultId)} /\ activeId = DefaultId /\ deletions = <<>>
      /\ checkpoints = [w \in WorkspaceId |-> <<>>] /\ conflict = NoConflict
      /\ kept = {DefaultId} /\ mishaps = {}
  BY DEF StoreInit
<1>2. DefaultId \in WorkspaceId /\ New(DefaultId) \in Snapshot /\ New(DefaultId).id = DefaultId
  BY StoreAssumption, SnapshotTypes
<1>3. Ids = {DefaultId} /\ IsFiniteSet(workspaces)
  <2>1. IsFiniteSet(workspaces)
    BY <1>1, FS_Singleton
  <2> QED BY <1>1, <1>2, <2>1 DEF Ids
<1>4. <<>> \in Seq(Snapshot) /\ <<>> \in Seq(Deletion) /\ DOMAIN <<>> = {}
  OBVIOUS
<1>5. StoreTypeOK
  BY <1>1, <1>2, <1>4 DEF StoreTypeOK, Deletion
<1>6. WritesBackItsOwn
  BY <1>1, <1>4 DEF WritesBackItsOwn
<1>7. IdsAreUnique /\ IdsAreKept /\ DefaultIsListed /\ ActiveIsListed
  BY <1>1, <1>3 DEF IdsAreUnique, IdsAreKept, DefaultIsListed, ActiveIsListed
<1> QED BY <1>3, <1>5, <1>6, <1>7 DEF StoreCore

LEMMA StoreSteps == StoreCore /\ [StoreNext]_listVars => StoreCore'
<1>1. StoreCore /\ UNCHANGED listVars => StoreCore'
  <2> SUFFICES ASSUME StoreCore, UNCHANGED listVars PROVE StoreCore'
    OBVIOUS
  <2>1. UNCHANGED <<workspaces, activeId, deletions, checkpoints, conflict, kept, mishaps>>
    BY DEF listVars
  <2> QED BY <2>1 DEF StoreCore, StoreTypeOK, IdsAreUnique, IdsAreKept, DefaultIsListed,
                      ActiveIsListed, WritesBackItsOwn, Happened, Ids, NoConflict
<1>2. StoreCore /\ StoreNext => StoreCore'
  <2> SUFFICES ASSUME StoreCore, Followed, StoreActions PROVE StoreCore'
    BY DEF StoreNext
  <2>1. ASSUME NEW w \in WorkspaceId,
               \/ SetActive(w) \/ Delete(w) \/ ArchiveOne(w) \/ UnarchiveOne(w)
               \/ SaveCheckpoint(w) \/ Create(w) \/ LoadWorkspace(w) \/ DetectConflict(w)
        PROVE  StoreCore'
    BY <2>1, SetActiveHolds, DeleteHolds, ArchiveHolds, SaveCheckpointHolds, CreateHolds,
       LoadWorkspaceHolds, DetectConflictHolds
  <2>2. ASSUME NEW w \in WorkspaceId, NEW v \in WorkspaceId, DuplicateWorkspace(w, v)
        PROVE  StoreCore'
    BY <2>2, CreateHolds DEF DuplicateWorkspace
  <2>3. ASSUME NEW w \in WorkspaceId, NEW i \in DOMAIN checkpoints[w],
               RestoreCheckpoint(w, i) \/ DeleteCheckpoint(w, i)
        PROVE  StoreCore'
    BY <2>3, RestoreCheckpointHolds, DeleteCheckpointHolds
  <2>4. ASSUME NEW i \in DOMAIN deletions, UndoDelete(i) \/ StoreToastExpires(i)
        PROVE  StoreCore'
    BY <2>4, UndoDeleteHolds, ExpiresHolds
  <2>5. ASSUME NEW s, ResolveConflict(s) PROVE StoreCore'
    BY <2>5, ResolveConflictHolds
  <2> QED BY <2>1, <2>2, <2>3, <2>4, <2>5, DismissConflictHolds DEF StoreActions
<1> QED BY <1>1, <1>2

(* As many ids as workspaces: no id is listed twice.                       *)
LEMMA OneIdEach ==
  ASSUME IsFiniteSet(workspaces), \A s, u \in workspaces : s.id = u.id => s = u
  PROVE  Cardinality(Ids) = Cardinality(workspaces)
<1> DEFINE f == [s \in workspaces |-> s.id]
<1>1. f \in Bijection(workspaces, Ids)
  <2>1. f \in [workspaces -> Ids] /\ \A s \in workspaces : f[s] = s.id
    BY DEF Ids
  <2>2. \A i \in Ids : \E s \in workspaces : f[s] = i
    BY <2>1 DEF Ids
  <2>3. \A s, u \in workspaces : f[s] = f[u] => s = u
    BY <2>1
  <2> HIDE DEF f
  <2> QED BY <2>1, <2>2, <2>3, Fun_IsBij
<1>2. ExistsBijection(workspaces, Ids)
  BY <1>1 DEF ExistsBijection
<1> QED BY <1>2, FS_Bijection

(* Whatever is undone, restored, loaded and resolved late: the list holds  *)
(* every workspace that was added and not deleted, once, and the active    *)
(* one, unless one of the named mishaps happened; and what will be written *)
(* back is of the workspace it is kept for.                                *)
THEOREM WorkspacesHold == StoreSpec => []StoreInv
<1>1. StoreCore => StoreInv
  <2> SUFFICES ASSUME StoreCore PROVE StoreInv
    OBVIOUS
  <2>1. WorkspacesAreKept
    BY OneIdEach DEF StoreCore, WorkspacesAreKept, IdsAreKept, IdsAreUnique, Doubled, Happened
  <2> QED BY <2>1 DEF StoreCore, StoreInv
<1> QED BY StoreBegins, StoreSteps, <1>1, PTL DEF StoreSpec

=============================================================================
