---------------------------- MODULE FilesSafety ----------------------------
(***************************************************************************)
(* Safety of what users and agents work on besides a session, for any      *)
(* number of files, items, requests, commands and processes, and any       *)
(* number of faults: the scenes of MCFiles keep the invariants of their    *)
(* components, and leave the others as they are initially.                 *)
(***************************************************************************)
EXTENDS MCFiles, TLAPS, FiniteSetTheorems, SequenceTheorems

all == <<scene, faults, mirroring, journal, quarantine, sandbox, wiki>>

\* The scene is kept; it goes on, and what belongs to another one stays.
LEMMA OneSceneGoesOn ==
  ASSUME [NextScene]_all
  PROVE  /\ scene' = scene
         /\ (scene = "mirroring" /\ Next) \/ UNCHANGED mirroring
         /\ (scene = "journal" /\ Journal!Next) \/ UNCHANGED journal
         /\ (scene = "quarantine" /\ Quarantine!Next) \/ UNCHANGED quarantine
         /\ (scene = "sandbox" /\ Sandbox!Next) \/ UNCHANGED sandbox
BY DEF NextScene, all

----------------------------------------------------------------------------
(* The sandbox: the invariant is that of SandboxSafety                     *)

\* A cancelled call leaves nothing running in the sandbox, whatever else its
\* users and the runner do (cancel_execution and kill_process against
\* run_command and start_process).
THEOREM CancelledCallsAreOver == SceneSpec => []CancelledDoesNotRun
<1>1. InitScene => Sandbox!Inv  BY Sandbox!Initially DEF InitScene
<1>2. ASSUME Sandbox!Inv, [NextScene]_all PROVE Sandbox!Inv'
  <2>1. CASE Sandbox!Next  BY <1>2, <2>1, Sandbox!Inductive
  <2>2. CASE UNCHANGED sandbox
    <3>1. UNCHANGED Sandbox!shared  BY <2>2 DEF sandbox, Sandbox!shared
    <3>2. QED  BY <1>2, <3>1, Sandbox!QuietStep
  <2>3. QED  BY <1>2, <2>1, <2>2, OneSceneGoesOn
<1>3. Sandbox!Inv => CancelledDoesNotRun
  BY DEF Sandbox!Inv, Sandbox!Safe, Sandbox!Harmless, CancelledDoesNotRun,
         Sandbox!CancelledDoesNotRun
<1>4. QED  BY <1>1, <1>2, <1>3, PTL DEF SceneSpec, all

----------------------------------------------------------------------------
(* The content held back for review                                        *)

\* The requests that have claimed an item, and those that have released it.
Approver == {"reading", "rejecting", "committing", "removing", "projecting", "approving", "resetting"}
Releaser == {"removing", "projecting", "approving"}

Place == {CHOOSE p \in Path : TRUE}

\* An approval holds its claim, the version under which the row became
\* "approving", until it gives the item up; it has released the bytes before
\* it says so.
RequestHolds(c) == LET r == client[c] IN
  /\ r.pc = "idle" <=> r.item = NoItem
  /\ r.pc \in Approver \cup {"claiming"} => r.path \in Place
  /\ r.pc = "storing" => item[r.item].status = "none"
  /\ r.pc \in Approver =>
       item[r.item].status = "approving" /\ item[r.item].version = r.version
  /\ r.pc \in Releaser => r.item \in released

\* An item is stored or approved by one request.
OneHolds(c, d) == client[c].item = client[d].item /\ client[c].pc # "idle" =>
  client[c].pc # "storing" /\ ~(client[c].pc \in Approver /\ client[d].pc \in Approver)

ItemHolds(i) ==
  /\ item[i].status = "none" => item[i].version = 0
  /\ item[i].status = "approving" => item[i].path \in Place
  /\ item[i].status = "approved" => i \in released

\* The worker settles an approval that nobody goes on with, and calls it a
\* success when the bytes were released.
SweepHolds == LET i == sweep.item IN i # NoItem =>
  /\ item[i].status # "none" /\ sweep.version <= item[i].version
  /\ \A c \in Client : client[c].pc \in Approver /\ client[c].item = i =>
       client[c].version # sweep.version
  /\ sweep.committed => i \in released

QuarantineInv ==
  /\ Quarantine!TypeOK
  /\ \A p \in Place : file[p] # NoItem => file[p] \in released
  /\ \A c \in Client : RequestHolds(c)
  /\ \A c, d \in Client : c # d => OneHolds(c, d)
  /\ \A i \in Item : ItemHolds(i)
  /\ SweepHolds

\* The constants of the quarantine.
LEMMA QuarantineAssumed == NoItem \notin Item /\ MaxFaults \in Nat
BY SceneAssumption DEF SceneAssumption, Quarantine!ContentQuarantineAssumption

\* A request goes on, or ends: no row changes, and it claims nothing.
LEMMA RequestGoesOn ==
  ASSUME QuarantineInv, Quarantine!TypeOK', NEW c \in Client, NEW new \in Quarantine!Request,
         client' = [client EXCEPT ![c] = new], item' = item, sweep' = sweep,
         released \subseteq released', \A p \in Place : file'[p] # NoItem => file'[p] \in released',
         new.pc = "idle" <=> new.item = NoItem,
         new.pc \in Approver \cup {"claiming"} => new.path \in Place,
         new.pc = "storing" => /\ item[new.item].status = "none"
                               /\ \A d \in Client : client[d].item # new.item,
         new.pc \in Approver => /\ client[c].pc \in Approver
                                /\ new.item = client[c].item /\ new.version = client[c].version,
         new.pc \in Releaser => new.item \in released',
         \/ new.pc \in {"idle", "storing"} \/ new.item = client[c].item
         \/ item[new.item].status # "none"
  PROVE  QuarantineInv'
<1>1. \A d \in Client : client'[d] = IF d = c THEN new ELSE client[d]
  BY DEF QuarantineInv, Quarantine!TypeOK
<1>2. \A d \in Client : RequestHolds(d)'
  <2> SUFFICES ASSUME NEW d \in Client PROVE RequestHolds(d)'  OBVIOUS
  <2>1. CASE d # c  BY <1>1, <2>1 DEF QuarantineInv, RequestHolds
  <2>2. CASE d = c  BY <1>1, <2>2 DEF QuarantineInv, RequestHolds
  <2>3. QED  BY <2>1, <2>2
<1>3. \A d, e \in Client : d # e => OneHolds(d, e)'
  <2> SUFFICES ASSUME NEW d \in Client, NEW e \in Client, d # e PROVE OneHolds(d, e)'  OBVIOUS
  <2>1. OneHolds(d, e) /\ RequestHolds(d) /\ RequestHolds(e)  BY DEF QuarantineInv
  <2>2. CASE d # c /\ e # c  BY <1>1, <2>1, <2>2 DEF OneHolds
  <2>3. CASE d = c  BY <1>1, <2>1, <2>3 DEF OneHolds, RequestHolds, Approver
  <2>4. CASE e = c  BY <1>1, <2>1, <2>4 DEF OneHolds, RequestHolds, Approver
  <2>5. QED  BY <2>2, <2>3, <2>4
<1>4. \A i \in Item : ItemHolds(i)'  BY DEF QuarantineInv, ItemHolds
<1>5. SweepHolds'
  <2>1. SweepHolds  BY DEF QuarantineInv
  <2>2. \A d \in Client : client'[d].pc \in Approver =>
          /\ client[d].pc \in Approver /\ client'[d].item = client[d].item
          /\ client'[d].version = client[d].version
    BY <1>1
  <2>3. QED  BY <2>1, <2>2 DEF SweepHolds
<1>6. QED  BY <1>2, <1>3, <1>4, <1>5 DEF QuarantineInv

\* A request of which only the point it is at changes keeps what it holds.
LEMMA RequestGoesTo ==
  ASSUME QuarantineInv, NEW c \in Client, client[c].pc # "idle",
         NEW pc \in {"reading", "committing", "removing", "projecting", "approving",
                     "resetting", "rejecting", "discarding"},
         Quarantine!Goto(c, pc), UNCHANGED <<item, sweep, slow>>,
         file' \in [Place -> Item \cup {NoItem}], stored' \subseteq Item, released' \subseteq Item,
         released \subseteq released', \A p \in Place : file'[p] # NoItem => file'[p] \in released',
         faults' \in 0 .. MaxFaults,
         pc \in Approver => client[c].pc \in Approver,
         pc \in Releaser => client[c].item \in released'
  PROVE  QuarantineInv'
<1>1. PICK old \in Quarantine!Request : old = client[c]
  BY DEF QuarantineInv, Quarantine!TypeOK
<1>2. PICK new : new = [old EXCEPT !.pc = pc]  OBVIOUS
<1>3. new \in Quarantine!Request  BY <1>2 DEF Quarantine!Request
<1>4. new.pc = pc /\ new.item = old.item /\ new.version = old.version /\ new.path = old.path
  BY <1>2 DEF Quarantine!Request
<1>5. client' = [client EXCEPT ![c] = new]  BY <1>1, <1>2 DEF Quarantine!Goto
<1>6. Quarantine!TypeOK'
  BY <1>3, <1>5 DEF QuarantineInv, Quarantine!TypeOK, Place
<1>7. RequestHolds(c)  BY DEF QuarantineInv
<1>8. new.pc # "idle" /\ new.item # NoItem  BY <1>1, <1>4, <1>7 DEF RequestHolds
<1>9. new.pc \in Approver \cup {"claiming"} => new.path \in Place
  BY <1>1, <1>4, <1>7 DEF RequestHolds
<1>10. QED  BY <1>1, <1>3, <1>4, <1>5, <1>6, <1>8, <1>9, RequestGoesOn

\* So does one that ends.
LEMMA RequestEnds ==
  ASSUME QuarantineInv, NEW c \in Client,
         Quarantine!Answer(c), UNCHANGED <<item, sweep, slow, file, released>>,
         stored' \subseteq Item, faults' \in 0 .. MaxFaults
  PROVE  QuarantineInv'
<1>1. PICK new : new = Quarantine!Idle  OBVIOUS
<1>2. new \in Quarantine!Request  BY <1>1 DEF Quarantine!Idle, Quarantine!Request
<1>3. new.pc = "idle" /\ new.item = NoItem  BY <1>1 DEF Quarantine!Idle
<1>4. client' = [client EXCEPT ![c] = new]  BY <1>1 DEF Quarantine!Answer
<1>5. Quarantine!TypeOK'  BY <1>2, <1>4 DEF QuarantineInv, Quarantine!TypeOK
<1>6. QED
  BY <1>2, <1>3, <1>4, <1>5, RequestGoesOn DEF QuarantineInv, Approver, Releaser

\* Bytes are put aside for an item nobody has asked about.
LEMMA StoreBytesStep ==
  ASSUME QuarantineInv, NEW c \in Client, NEW i \in Item, Quarantine!StoreBytes(c, i)
  PROVE  QuarantineInv'
<1>1. PICK p \in Place : client' = [client EXCEPT ![c] =
                           [Quarantine!Idle EXCEPT !.pc = "storing", !.item = i, !.path = p]]
  BY DEF Quarantine!StoreBytes, Place
<1>2. PICK new : new = [Quarantine!Idle EXCEPT !.pc = "storing", !.item = i, !.path = p]  OBVIOUS
<1>3. new \in Quarantine!Request  BY <1>2 DEF Quarantine!Idle, Quarantine!Request, Place
<1>4. new.pc = "storing" /\ new.item = i  BY <1>2 DEF Quarantine!Idle
<1>5. client' = [client EXCEPT ![c] = new]  BY <1>1, <1>2
<1>6. /\ UNCHANGED <<item, sweep, file, released, faults, slow>>
      /\ item[i].status = "none" /\ \A d \in Client : client[d].item # i
      /\ stored' = stored \cup {i}
  BY DEF Quarantine!StoreBytes, Quarantine!Busy
<1>7. Quarantine!TypeOK'  BY <1>3, <1>5, <1>6 DEF QuarantineInv, Quarantine!TypeOK
<1>8. i # NoItem  BY QuarantineAssumed
<1>9. QED
  BY <1>3, <1>4, <1>5, <1>6, <1>7, <1>8, RequestGoesOn DEF QuarantineInv, Approver, Releaser

\* An item under review is looked up, to be approved or deleted.
LEMMA LoadSteps ==
  ASSUME QuarantineInv, NEW c \in Client, NEW i \in Item,
         Quarantine!LoadForApproval(c, i) \/ Quarantine!LoadForDeletion(c, i)
  PROVE  QuarantineInv'
<1>1. /\ UNCHANGED <<item, sweep, stored, file, released, faults, slow>>
      /\ item[i].status = "pending"
  BY DEF Quarantine!LoadForApproval, Quarantine!LoadForDeletion
<1>2. item[i].version \in Nat  BY DEF QuarantineInv, Quarantine!TypeOK, Quarantine!Row
<1>3. \E new \in Quarantine!Request :
        /\ client' = [client EXCEPT ![c] = new]
        /\ new.pc \in {"claiming", "deleting"} /\ new.item = i
        /\ new.pc = "claiming" => new.path \in Place
  <2>1. CASE Quarantine!LoadForApproval(c, i)
    <3>1. PICK p \in Place : client' = [client EXCEPT ![c] =
            [pc |-> "claiming", item |-> i, version |-> item[i].version, path |-> p]]
      BY <2>1 DEF Quarantine!LoadForApproval, Place
    <3>2. [pc |-> "claiming", item |-> i, version |-> item[i].version, path |-> p]
            \in Quarantine!Request
      BY <1>2 DEF Quarantine!Request, Place
    <3>3. QED  BY <3>1, <3>2
  <2>2. CASE Quarantine!LoadForDeletion(c, i)
    <3>1. PICK new : new = [Quarantine!Idle EXCEPT !.pc = "deleting", !.item = i,
                                                   !.version = item[i].version]
      OBVIOUS
    <3>2. new \in Quarantine!Request  BY <1>2, <3>1 DEF Quarantine!Idle, Quarantine!Request
    <3>3. new.pc = "deleting" /\ new.item = i  BY <3>1 DEF Quarantine!Idle
    <3>4. client' = [client EXCEPT ![c] = new]  BY <2>2, <3>1 DEF Quarantine!LoadForDeletion
    <3>5. QED  BY <3>2, <3>3, <3>4
  <2>3. QED  BY <2>1, <2>2
<1>4. PICK new \in Quarantine!Request :
        /\ client' = [client EXCEPT ![c] = new]
        /\ new.pc \in {"claiming", "deleting"} /\ new.item = i
        /\ new.pc = "claiming" => new.path \in Place
  BY <1>3
<1>5. Quarantine!TypeOK'  BY <1>1, <1>4 DEF QuarantineInv, Quarantine!TypeOK
<1>6. i # NoItem  BY QuarantineAssumed
<1>7. QED
  BY <1>1, <1>4, <1>5, <1>6, RequestGoesOn DEF QuarantineInv, Approver, Releaser

\* The other steps of a request that change no row.
LEMMA RequestSteps ==
  ASSUME QuarantineInv, NEW c \in Client,
         \/ Quarantine!InspectAgain(c) \/ Quarantine!DiscardBytes(c) \/ Quarantine!CommitBytes(c)
         \/ Quarantine!RemoveStaged(c) \/ Quarantine!ProjectCommit(c)
         \/ Quarantine!ProjectionFails(c) \/ Quarantine!DropRequest(c)
  PROVE  QuarantineInv'
<1> USE DEF Quarantine!At
<1>1. /\ RequestHolds(c) /\ stored \subseteq Item /\ released \subseteq Item
      /\ file \in [Place -> Item \cup {NoItem}] /\ faults \in 0 .. MaxFaults
      /\ \A p \in Place : file[p] # NoItem => file[p] \in released
      /\ client[c].item \in Item \cup {NoItem}
  BY DEF QuarantineInv, Quarantine!TypeOK, Quarantine!Request, Place
<1>2. faults < MaxFaults => faults + 1 \in 0 .. MaxFaults  BY <1>1, QuarantineAssumed
<1>3. CASE Quarantine!InspectAgain(c)
  <2>1. /\ UNCHANGED <<item, stored, file, released, sweep, faults, slow>>
        /\ client[c].pc = "reading"
        /\ Quarantine!Goto(c, "committing") \/ Quarantine!Goto(c, "rejecting")
    BY <1>3 DEF Quarantine!InspectAgain
  <2>2. QED  BY <1>1, <2>1, RequestGoesTo DEF Approver, Releaser
<1>4. CASE Quarantine!DiscardBytes(c)
  BY <1>1, <1>4, RequestEnds DEF Quarantine!DiscardBytes
<1>5. CASE Quarantine!CommitBytes(c)
  <2>1. /\ UNCHANGED <<item, stored, sweep, faults, slow>> /\ client[c].pc = "committing"
        /\ client[c].path \in Place /\ client[c].item # NoItem
    BY <1>1, <1>5 DEF Quarantine!CommitBytes, RequestHolds, Approver
  <2>2. CASE UNCHANGED <<file, released>> /\ Quarantine!Goto(c, "resetting")
    BY <1>1, <2>1, <2>2, RequestGoesTo DEF Approver, Releaser
  <2>3. CASE /\ file' = [file EXCEPT ![client[c].path] = client[c].item]
             /\ released' = released \cup {client[c].item} /\ Quarantine!Goto(c, "removing")
    <3>1. client[c].item \in Item  BY <1>1, <2>1
    <3>2. /\ file' \in [Place -> Item \cup {NoItem}] /\ released' \subseteq Item
          /\ released \subseteq released'
          /\ \A p \in Place : file'[p] # NoItem => file'[p] \in released'
      BY <1>1, <2>1, <2>3, <3>1
    <3>3. client[c].item \in released'  BY <2>3
    <3>4. QED  BY <1>1, <2>1, <2>3, <3>2, <3>3, RequestGoesTo DEF Approver
  <2>4. QED  BY <1>5, <2>2, <2>3 DEF Quarantine!CommitBytes
<1>6. CASE Quarantine!RemoveStaged(c)
  <2>1. /\ UNCHANGED <<item, file, released, sweep, faults, slow>> /\ stored' \subseteq Item
        /\ client[c].pc = "removing" /\ Quarantine!Goto(c, "projecting")
    BY <1>1, <1>6 DEF Quarantine!RemoveStaged
  <2>2. QED  BY <1>1, <2>1, RequestGoesTo DEF Approver, Releaser, RequestHolds
<1>7. CASE Quarantine!ProjectCommit(c)
  <2>1. /\ UNCHANGED <<item, stored, file, released, sweep, faults, slow>>
        /\ client[c].pc = "projecting" /\ Quarantine!Goto(c, "approving")
    BY <1>7 DEF Quarantine!ProjectCommit
  <2>2. QED  BY <1>1, <2>1, RequestGoesTo DEF Approver, Releaser, RequestHolds
<1>8. CASE Quarantine!ProjectionFails(c)
  <2>1. /\ UNCHANGED <<item, stored, file, released, sweep, slow>> /\ faults' \in 0 .. MaxFaults
        /\ client[c].pc = "projecting" /\ Quarantine!Goto(c, "resetting")
    BY <1>2, <1>8 DEF Quarantine!ProjectionFails
  <2>2. QED  BY <1>1, <2>1, RequestGoesTo DEF Approver, Releaser
<1>9. CASE Quarantine!DropRequest(c)
  BY <1>1, <1>2, <1>9, RequestEnds DEF Quarantine!DropRequest
<1>10. QED  BY <1>3, <1>4, <1>5, <1>6, <1>7, <1>8, <1>9

----------------------------------------------------------------------------
\* One row changes, and with it no request but c: nobody else holds the item.
LEMMA RowChanges ==
  ASSUME QuarantineInv, Quarantine!TypeOK', NEW i \in Item, sweep' = sweep \/ sweep'.item = NoItem,
         UNCHANGED <<file, released>>,
         \A k \in Item \ {i} : item'[k] = item[k],
         item[i].version <= item'[i].version, item'[i].status # "none", ItemHolds(i)',
         \A c \in Client : client[c].item = i /\ client'[c] = client[c] =>
           client[c].pc \notin Approver \cup {"storing"},
         \A c \in Client : client'[c] # client[c] =>
           /\ RequestHolds(c)' /\ client'[c].pc # "storing"
           /\ client[c].item = i /\ client'[c].item \in {i, NoItem}
           /\ client'[c].pc \in Approver =>
                client'[c].version = item'[i].version /\ item[i].version < item'[i].version,
         \A c, d \in Client : client'[c] # client[c] /\ client'[d] # client[d] => c = d
  PROVE  QuarantineInv'
<1>1. \A c \in Client : RequestHolds(c)'
  <2> SUFFICES ASSUME NEW c \in Client, client'[c] = client[c] PROVE RequestHolds(c)'  OBVIOUS
  <2>1. RequestHolds(c)  BY DEF QuarantineInv
  <2>2. client[c].pc # "idle" => client[c].item \in Item
    BY <2>1 DEF QuarantineInv, Quarantine!TypeOK, Quarantine!Request, RequestHolds
  <2>3. QED  BY <2>1, <2>2 DEF RequestHolds, Approver
<1>2. \A c, d \in Client : c # d => OneHolds(c, d)'
  <2> SUFFICES ASSUME NEW c \in Client, NEW d \in Client, c # d PROVE OneHolds(c, d)'  OBVIOUS
  <2>1. OneHolds(c, d) /\ RequestHolds(c) /\ RequestHolds(d)  BY DEF QuarantineInv
  <2>2. QED  BY <2>1 DEF OneHolds, RequestHolds, Approver
<1>3. \A k \in Item : ItemHolds(k)'  BY DEF QuarantineInv, ItemHolds
<1>4. SweepHolds'
  <2> SUFFICES ASSUME sweep' = sweep, sweep.item # NoItem PROVE SweepHolds'  BY DEF SweepHolds
  <2>1. SweepHolds /\ sweep.item \in Item /\ sweep.version \in Nat
    BY DEF QuarantineInv, Quarantine!TypeOK, Quarantine!Sweep
  <2>2. \A k \in Item : item[k].version \in Nat /\ item'[k].version \in Nat
    BY DEF QuarantineInv, Quarantine!TypeOK, Quarantine!Row
  <2>3. sweep.version <= item'[sweep.item].version /\ item'[sweep.item].status # "none"
    BY <2>1, <2>2 DEF SweepHolds
  <2>4. ASSUME NEW c \in Client, client'[c].pc \in Approver, client'[c].item = sweep.item
        PROVE  client'[c].version # sweep.version
    <3>1. CASE client'[c] = client[c]  BY <2>1, <2>4, <3>1 DEF SweepHolds
    <3>2. CASE client'[c] # client[c]
      <4>1. sweep.item = i  BY <2>1, <2>4, <3>2, QuarantineAssumed
      <4>2. QED  BY <2>1, <2>2, <2>4, <3>2, <4>1 DEF SweepHolds
    <3>3. QED  BY <3>1, <3>2
  <2>5. QED  BY <2>1, <2>3, <2>4 DEF SweepHolds
<1>5. QED  BY <1>1, <1>2, <1>3, <1>4 DEF QuarantineInv

\* A row gets another status, and the next version.
LEMMA RowIsSet ==
  ASSUME Quarantine!TypeOK, NEW i \in Item,
         NEW status \in {"pending", "approving"} \cup Quarantine!Decided,
         item' = Quarantine!Set(i, status)
  PROVE  /\ item' \in [Item -> Quarantine!Row]
         /\ item'[i].status = status /\ item'[i].path = item[i].path
         /\ item[i].version \in Nat /\ item'[i].version = item[i].version + 1
         /\ item[i].version < item'[i].version
         /\ \A k \in Item \ {i} : item'[k] = item[k]
<1>1. PICK old \in Quarantine!Row : old = item[i]  BY DEF Quarantine!TypeOK
<1>2. PICK new : new = [old EXCEPT !.status = status, !.version = @ + 1]  OBVIOUS
<1>3. old.version \in Nat /\ old.version + 1 \in Nat  BY DEF Quarantine!Row
<1>4. new \in Quarantine!Row  BY <1>2, <1>3 DEF Quarantine!Row, Quarantine!Decided
<1>5. new.status = status /\ new.path = old.path /\ new.version = old.version + 1
  BY <1>2 DEF Quarantine!Row
<1>6. item' = [item EXCEPT ![i] = new]  BY <1>1, <1>2 DEF Quarantine!Set
<1>7. item' \in [Item -> Quarantine!Row] /\ item'[i] = new
  BY <1>4, <1>6 DEF Quarantine!TypeOK
<1>8. \A k \in Item \ {i} : item'[k] = item[k]  BY <1>6 DEF Quarantine!TypeOK
<1>9. old.version < old.version + 1  BY <1>3
<1>10. QED  BY <1>1, <1>3, <1>5, <1>7, <1>8, <1>9

\* The item is on record, or has no room.
LEMMA InsertItemStep ==
  ASSUME QuarantineInv, NEW c \in Client, Quarantine!InsertItem(c) PROVE QuarantineInv'
<1>1. /\ client[c].pc = "storing" /\ RequestHolds(c) /\ item[client[c].item].status = "none"
      /\ client[c].item \in Item /\ client[c].path \in Place \cup {NoPath}
  BY DEF QuarantineInv, Quarantine!TypeOK, Quarantine!Request, Quarantine!InsertItem,
         Quarantine!At, RequestHolds, Place
<1>2. UNCHANGED <<stored, file, released, sweep, faults, slow>>  BY DEF Quarantine!InsertItem
<1>3. CASE item' = item /\ Quarantine!Goto(c, "discarding")
  BY <1>1, <1>2, <1>3, RequestGoesTo
  DEF QuarantineInv, Quarantine!TypeOK, Place, Approver, Releaser
<1>4. CASE /\ item' = [item EXCEPT ![client[c].item] =
                        [status |-> "pending", version |-> 1, path |-> client[c].path]]
           /\ Quarantine!Answer(c)
  <2>1. PICK i \in Item : i = client[c].item  BY <1>1
  <2>2. PICK new : new = [status |-> "pending", version |-> 1, path |-> client[c].path]  OBVIOUS
  <2>3. new \in Quarantine!Row  BY <1>1, <2>2 DEF Quarantine!Row, Place
  <2>4. item' = [item EXCEPT ![i] = new]  BY <1>4, <2>1, <2>2
  <2>5. /\ item' \in [Item -> Quarantine!Row] /\ item'[i] = new
        /\ \A k \in Item \ {i} : item'[k] = item[k]
    BY <2>3, <2>4 DEF QuarantineInv, Quarantine!TypeOK
  <2>6. client' = [client EXCEPT ![c] = Quarantine!Idle]  BY <1>4 DEF Quarantine!Answer
  <2>7. Quarantine!Idle \in Quarantine!Request  BY DEF Quarantine!Idle, Quarantine!Request
  <2>8. Quarantine!TypeOK'
    BY <1>2, <2>5, <2>6, <2>7 DEF QuarantineInv, Quarantine!TypeOK
  <2>9. item[i].version = 0 /\ item'[i].version = 1 /\ item'[i].status = "pending"
    BY <1>1, <2>1, <2>2, <2>5 DEF QuarantineInv, ItemHolds
  <2>10. \A d \in Client : d # c /\ client[d].item = i => client[d].pc \notin Approver \cup {"storing"}
    BY <1>1, <2>1 DEF QuarantineInv, OneHolds, RequestHolds
  <2>11. /\ client'[c].pc = "idle" /\ client'[c].item = NoItem
         /\ \A d \in Client : d # c => client'[d] = client[d]
    BY <2>6 DEF QuarantineInv, Quarantine!TypeOK, Quarantine!Idle
  <2>12. client'[c] # client[c]  BY <1>1, <2>11
  <2>13. QED
    BY <1>2, <2>1, <2>5, <2>8, <2>9, <2>10, <2>11, <2>12, RowChanges
    DEF ItemHolds, RequestHolds, Approver, Releaser
<1>5. QED  BY <1>3, <1>4 DEF Quarantine!InsertItem

\* Nobody else holds an item that is under review, or that one request approves.
LEMMA NobodyElse ==
  ASSUME QuarantineInv, NEW c \in Client, NEW d \in Client, c # d, client[c].item = client[d].item,
         client[c].pc # "idle",
         \/ item[client[c].item].status = "pending" \/ client[c].pc \in Approver
  PROVE  client[d].pc \notin Approver \cup {"storing"}
BY DEF QuarantineInv, OneHolds, RequestHolds, Approver

\* A request claims the item it found under review, unless it is too late.
LEMMA ClaimItemStep ==
  ASSUME QuarantineInv, NEW c \in Client, Quarantine!ClaimItem(c) PROVE QuarantineInv'
<1>1. /\ client[c].pc = "claiming" /\ RequestHolds(c) /\ client[c].item \in Item
      /\ client[c].path \in Place /\ client[c] \in Quarantine!Request
  BY DEF QuarantineInv, Quarantine!TypeOK, Quarantine!Request, Quarantine!ClaimItem,
         Quarantine!At, RequestHolds, Place
<1>2. UNCHANGED <<stored, file, released, sweep, faults, slow>>  BY DEF Quarantine!ClaimItem
<1>3. CASE item' = item /\ Quarantine!Answer(c)
  BY <1>1, <1>2, <1>3, RequestEnds DEF QuarantineInv, Quarantine!TypeOK
<1>4. CASE ~(item' = item /\ Quarantine!Answer(c))
  <2>1. PICK i \in Item : i = client[c].item  BY <1>1
  <2>2. /\ item[i].status = "pending" /\ item[i].version = client[c].version
        /\ item' = [Quarantine!Set(i, "approving") EXCEPT ![i].path = client[c].path]
        /\ client' = [client EXCEPT ![c].pc = "reading", ![c].version = @ + 1]
    BY <1>4, <2>1 DEF Quarantine!ClaimItem, Quarantine!Matches
  <2>3. PICK old \in Quarantine!Row : old = item[i]  BY DEF QuarantineInv, Quarantine!TypeOK
  <2>4. PICK put : put = [old EXCEPT !.status = "approving", !.version = @ + 1,
                                     !.path = client[c].path]
    OBVIOUS
  <2>5. old.version \in Nat /\ old.version + 1 \in Nat /\ old.version < old.version + 1
    BY DEF Quarantine!Row
  <2>6. put \in Quarantine!Row  BY <1>1, <2>4, <2>5 DEF Quarantine!Row, Place
  <2>7. put.status = "approving" /\ put.version = old.version + 1 /\ put.path = client[c].path
    BY <2>4 DEF Quarantine!Row
  <2>8. item' = [item EXCEPT ![i] = put]
    BY <2>2, <2>3, <2>4 DEF Quarantine!Set, QuarantineInv, Quarantine!TypeOK
  <2>9. /\ item' \in [Item -> Quarantine!Row] /\ item'[i] = put
        /\ \A k \in Item \ {i} : item'[k] = item[k]
    BY <2>6, <2>8 DEF QuarantineInv, Quarantine!TypeOK
  <2>10. PICK holder \in Quarantine!Request : holder = client[c]  BY <1>1
  <2>11. PICK new : new = [holder EXCEPT !.pc = "reading", !.version = @ + 1]  OBVIOUS
  <2>12. holder.version + 1 \in Nat  BY <2>2, <2>3, <2>5, <2>10
  <2>13. new \in Quarantine!Request  BY <2>11, <2>12 DEF Quarantine!Request
  <2>14. /\ new.pc = "reading" /\ new.version = holder.version + 1
         /\ new.item = i /\ new.path \in Place
    BY <1>1, <2>1, <2>10, <2>11 DEF Quarantine!Request
  <2>15. client' = [client EXCEPT ![c] = new]  BY <2>2, <2>10, <2>11
  <2>16. client'[c] = new /\ \A d \in Client : d # c => client'[d] = client[d]
    BY <2>15 DEF QuarantineInv, Quarantine!TypeOK
  <2>17. Quarantine!TypeOK'
    BY <1>2, <2>9, <2>13, <2>15 DEF QuarantineInv, Quarantine!TypeOK
  <2>18. \A d \in Client : d # c /\ client[d].item = i => client[d].pc \notin Approver \cup {"storing"}
    BY <1>1, <2>1, <2>2, NobodyElse
  <2>19. item'[i].status = "approving" /\ item'[i].version = new.version /\ item'[i].path \in Place
    BY <1>1, <2>2, <2>3, <2>7, <2>9, <2>10, <2>14
  <2>20. item[i].version < item'[i].version /\ item[i].version <= item'[i].version
    BY <2>3, <2>5, <2>7, <2>9
  <2>21. RequestHolds(c)' /\ client'[c] # client[c]
    BY <1>1, <2>14, <2>16, <2>19, QuarantineAssumed DEF RequestHolds, Approver, Releaser
  <2>22. ItemHolds(i)'  BY <2>19 DEF ItemHolds
  <2>23. \A d \in Client : client'[d] # client[d] => d = c  BY <2>16
  <2>24. QED
    BY <1>2, <2>1, <2>9, <2>14, <2>16, <2>17, <2>18, <2>19, <2>20, <2>21, <2>22, <2>23, RowChanges
<1>5. QED  BY <1>3, <1>4

\* An approval is recorded, given back or refused, and an item is deleted.
LEMMA DecisionSteps ==
  ASSUME QuarantineInv, NEW c \in Client,
         \/ Quarantine!RejectItem(c) \/ Quarantine!MarkApproved(c) \/ Quarantine!ResetApproval(c)
         \/ Quarantine!DeleteItem(c)
  PROVE  QuarantineInv'
<1> USE DEF Quarantine!At
<1>1. /\ RequestHolds(c) /\ client[c] \in Quarantine!Request
      /\ client[c].pc \in {"rejecting", "approving", "resetting", "deleting"}
      /\ UNCHANGED <<stored, file, released, sweep, faults, slow>>
  BY DEF QuarantineInv, Quarantine!TypeOK, Quarantine!RejectItem, Quarantine!MarkApproved,
         Quarantine!ResetApproval, Quarantine!DeleteItem
<1>2. PICK i \in Item : i = client[c].item  BY <1>1 DEF RequestHolds, Quarantine!Request
<1>3. CASE item' = item
  <2>1. Quarantine!Answer(c) \/ Quarantine!Goto(c, "discarding")
    BY DEF Quarantine!RejectItem, Quarantine!MarkApproved,
           Quarantine!ResetApproval, Quarantine!DeleteItem
  <2>2. CASE Quarantine!Answer(c)
    BY <1>1, <1>3, <2>2, RequestEnds DEF QuarantineInv, Quarantine!TypeOK
  <2>3. CASE Quarantine!Goto(c, "discarding")
    BY <1>1, <1>3, <2>3, RequestGoesTo
    DEF QuarantineInv, Quarantine!TypeOK, Place, Approver, Releaser
  <2>4. QED  BY <2>1, <2>2, <2>3
<1>4. CASE item' # item
  <2>1. /\ item[i].status = "pending" \/ client[c].pc \in Approver
        /\ \E status \in {"rejected", "approved", "pending", "deleted"} :
             /\ item' = Quarantine!Set(i, status)
             /\ status = "approved" => client[c].pc = "approving"
    BY <1>1, <1>2, <1>4
    DEF Quarantine!RejectItem, Quarantine!MarkApproved, Quarantine!ResetApproval,
        Quarantine!DeleteItem, Quarantine!Decide, Quarantine!Matches, Approver
  <2>2. PICK status \in {"rejected", "approved", "pending", "deleted"} :
          /\ item' = Quarantine!Set(i, status)
          /\ status = "approved" => client[c].pc = "approving"
    BY <2>1
  <2>3. /\ item' \in [Item -> Quarantine!Row] /\ item'[i].status = status
        /\ item[i].version \in Nat /\ item[i].version < item'[i].version
        /\ \A k \in Item \ {i} : item'[k] = item[k]
    BY <2>2, RowIsSet DEF QuarantineInv, Quarantine!Decided
  <2>4. item'[i].version \in Nat  BY <2>3 DEF Quarantine!Row
  <2>5. item[i].version <= item'[i].version  BY <2>3, <2>4
  <2>6. \E new \in Quarantine!Request :
          /\ client' = [client EXCEPT ![c] = new]
          /\ \/ new.pc = "idle" /\ new.item = NoItem
             \/ new.pc = "discarding" /\ new.item = i
    <3>1. Quarantine!Answer(c) \/ Quarantine!Goto(c, "discarding")
      BY DEF Quarantine!RejectItem, Quarantine!MarkApproved,
             Quarantine!ResetApproval, Quarantine!DeleteItem
    <3>2. CASE Quarantine!Answer(c)
      <4>1. Quarantine!Idle \in Quarantine!Request
        BY DEF Quarantine!Idle, Quarantine!Request
      <4>2. Quarantine!Idle.pc = "idle" /\ Quarantine!Idle.item = NoItem  BY DEF Quarantine!Idle
      <4>3. QED  BY <3>2, <4>1, <4>2 DEF Quarantine!Answer
    <3>3. CASE Quarantine!Goto(c, "discarding")
      <4>1. PICK old \in Quarantine!Request : old = client[c]  BY <1>1
      <4>2. PICK new : new = [old EXCEPT !.pc = "discarding"]  OBVIOUS
      <4>3. new \in Quarantine!Request  BY <4>2 DEF Quarantine!Request
      <4>4. new.pc = "discarding" /\ new.item = i
        BY <1>2, <4>1, <4>2 DEF Quarantine!Request
      <4>5. client' = [client EXCEPT ![c] = new]  BY <3>3, <4>1, <4>2 DEF Quarantine!Goto
      <4>6. QED  BY <4>3, <4>4, <4>5
    <3>4. QED  BY <3>1, <3>2, <3>3
  <2>7. PICK new \in Quarantine!Request :
          /\ client' = [client EXCEPT ![c] = new]
          /\ \/ new.pc = "idle" /\ new.item = NoItem
             \/ new.pc = "discarding" /\ new.item = i
    BY <2>6
  <2>8. client'[c] = new /\ \A d \in Client : d # c => client'[d] = client[d]
    BY <2>7 DEF QuarantineInv, Quarantine!TypeOK
  <2>9. Quarantine!TypeOK'  BY <1>1, <2>3, <2>7 DEF QuarantineInv, Quarantine!TypeOK
  <2>10. ItemHolds(i)'
    BY <1>1, <1>2, <2>2, <2>3 DEF ItemHolds, RequestHolds, Releaser
  <2>11. \A d \in Client : d # c /\ client[d].item = i =>
           client[d].pc \notin Approver \cup {"storing"}
    BY <1>1, <1>2, <2>1, NobodyElse
  <2>12. RequestHolds(c)' /\ client'[c] # client[c]
    BY <1>1, <2>7, <2>8, QuarantineAssumed DEF RequestHolds, Approver, Releaser
  <2>13. \A d \in Client : client'[d] # client[d] => d = c  BY <2>8
  <2>14. item'[i].status # "none"  BY <2>3
  <2>15. QED
    BY <1>1, <1>2, <2>3, <2>5, <2>7, <2>8, <2>9, <2>10, <2>11, <2>12, <2>13, <2>14, RowChanges
    DEF Approver
<1>5. QED  BY <1>3, <1>4

\* The worker expires an item, or settles an approval nobody goes on with.
LEMMA WorkerDecides ==
  ASSUME QuarantineInv,
         Quarantine!SettleApproving \/ \E i \in Item : Quarantine!ExpirePending(i)
  PROVE  QuarantineInv'
<1>1. UNCHANGED <<file, released, client, faults, slow>> /\ stored' \subseteq Item
  BY DEF QuarantineInv, Quarantine!TypeOK, Quarantine!SettleApproving, Quarantine!ExpirePending
<1>2. sweep' = sweep \/ sweep' = Quarantine!NoSweep
  BY DEF Quarantine!SettleApproving, Quarantine!ExpirePending
<1>3. sweep' \in Quarantine!Sweep /\ (sweep' # sweep => sweep'.item = NoItem)
  <2>1. Quarantine!NoSweep \in Quarantine!Sweep
    BY DEF Quarantine!NoSweep, Quarantine!Sweep
  <2>2. Quarantine!NoSweep.item = NoItem  BY DEF Quarantine!NoSweep
  <2>3. sweep \in Quarantine!Sweep  BY DEF QuarantineInv, Quarantine!TypeOK
  <2>4. QED  BY <1>2, <2>1, <2>2, <2>3
<1>4. CASE item' = item
  <2>1. Quarantine!TypeOK'  BY <1>1, <1>3, <1>4 DEF QuarantineInv, Quarantine!TypeOK
  <2>2. SweepHolds'  BY <1>1, <1>3, <1>4 DEF QuarantineInv, SweepHolds
  <2>3. QED  BY <1>1, <1>4, <2>1, <2>2 DEF QuarantineInv, RequestHolds, OneHolds, ItemHolds
<1>5. CASE item' # item
  <2>1. \E i \in Item, status \in {"expired", "approved", "pending"} :
          /\ item' = Quarantine!Set(i, status)
          /\ status = "approved" => i \in released
          /\ \/ item[i].status = "pending"
             \/ /\ item[i].status = "approving" /\ i = sweep.item
                /\ item[i].version = sweep.version
    BY <1>5 DEF QuarantineInv, Quarantine!TypeOK, Quarantine!Sweep, SweepHolds,
                Quarantine!SettleApproving, Quarantine!ExpirePending, Quarantine!Decide,
                Quarantine!Matches
  <2>2. PICK i \in Item, status \in {"expired", "approved", "pending"} :
          /\ item' = Quarantine!Set(i, status)
          /\ status = "approved" => i \in released
          /\ \/ item[i].status = "pending"
             \/ /\ item[i].status = "approving" /\ i = sweep.item
                /\ item[i].version = sweep.version
    BY <2>1
  <2>3. /\ item' \in [Item -> Quarantine!Row] /\ item'[i].status = status
        /\ item[i].version \in Nat /\ item[i].version < item'[i].version
        /\ \A k \in Item \ {i} : item'[k] = item[k]
    BY <2>2, RowIsSet DEF QuarantineInv, Quarantine!Decided
  <2>4. item'[i].version \in Nat  BY <2>3 DEF Quarantine!Row
  <2>5. item[i].version <= item'[i].version  BY <2>3, <2>4
  <2>6. Quarantine!TypeOK'  BY <1>1, <1>3, <2>3 DEF QuarantineInv, Quarantine!TypeOK
  <2>7. ItemHolds(i)'  BY <1>1, <2>2, <2>3 DEF ItemHolds
  <2>8. \A c \in Client : client[c].item = i => client[c].pc \notin Approver \cup {"storing"}
    BY <2>2, QuarantineAssumed DEF QuarantineInv, RequestHolds, SweepHolds, Approver
  <2>9. QED
    BY <1>1, <1>3, <2>2, <2>3, <2>5, <2>6, <2>7, <2>8, RowChanges
<1>6. QED  BY <1>4, <1>5

\* The worker reads an approval without a request, and removes bytes nobody
\* refers to; users move or remove released files.
LEMMA OtherSteps ==
  ASSUME QuarantineInv,
         \/ \E i \in Item : Quarantine!ReadApproving(i) \/ Quarantine!RemoveOrphan(i)
         \/ \E p \in Place : Quarantine!RemoveFile(p)
  PROVE  QuarantineInv'
<1>1. UNCHANGED <<item, released, client, faults>>
  BY DEF Quarantine!ReadApproving, Quarantine!RemoveOrphan, Quarantine!RemoveFile
<1>2. (\A c \in Client : RequestHolds(c)') /\ (\A c, d \in Client : c # d => OneHolds(c, d)')
      /\ \A i \in Item : ItemHolds(i)'
  BY <1>1 DEF QuarantineInv, RequestHolds, OneHolds, ItemHolds
<1>3. CASE \E i \in Item : Quarantine!ReadApproving(i)
  <2>1. PICK i \in Item : Quarantine!ReadApproving(i)  BY <1>3
  <2>2. UNCHANGED <<stored, file, slow>> /\ item[i].status = "approving"
    BY <2>1 DEF QuarantineInv, Quarantine!TypeOK, Quarantine!ReadApproving
  <2>3. \A c \in Client : client[c].item = i => client[c].version # item[i].version
    BY <2>1 DEF QuarantineInv, Quarantine!TypeOK, Quarantine!ReadApproving
  <2>4. PICK committed \in BOOLEAN : committed = (file[item[i].path] = i)  OBVIOUS
  <2>5. sweep' = [item |-> i, version |-> item[i].version, committed |-> committed]
    BY <2>1, <2>4 DEF Quarantine!ReadApproving
  <2>6. item[i].version \in Nat /\ item[i].version <= item[i].version
    BY DEF QuarantineInv, Quarantine!TypeOK, Quarantine!Row
  <2>7. sweep' \in Quarantine!Sweep  BY <2>5, <2>6 DEF Quarantine!Sweep
  <2>8. Quarantine!TypeOK'  BY <1>1, <2>2, <2>7 DEF QuarantineInv, Quarantine!TypeOK
  <2>9. committed => i \in released
    BY <2>2, <2>4, QuarantineAssumed DEF QuarantineInv, ItemHolds
  <2>10. SweepHolds'  BY <1>1, <2>2, <2>3, <2>5, <2>6, <2>9 DEF SweepHolds
  <2>11. QED  BY <1>1, <1>2, <2>2, <2>8, <2>10 DEF QuarantineInv
<1>4. CASE \/ \E i \in Item : Quarantine!RemoveOrphan(i)
           \/ \E p \in Place : Quarantine!RemoveFile(p)
  <2>1. /\ UNCHANGED <<sweep, slow>> /\ stored' \subseteq Item
        /\ file' \in [Place -> Item \cup {NoItem}]
        /\ \A p \in Place : file'[p] \in {file[p], NoItem}
    BY <1>4 DEF QuarantineInv, Quarantine!TypeOK, Quarantine!RemoveOrphan, Quarantine!RemoveFile,
                Place
  <2>2. Quarantine!TypeOK'  BY <1>1, <2>1 DEF QuarantineInv, Quarantine!TypeOK, Place
  <2>3. SweepHolds'  BY <1>1, <2>1 DEF QuarantineInv, SweepHolds
  <2>4. QED  BY <1>1, <1>2, <2>1, <2>2, <2>3 DEF QuarantineInv
<1>5. QED  BY <1>3, <1>4

\* Nothing is held at first.
LEMMA QuarantineInitially ==
  Quarantine!Init /\ faults \in 0 .. MaxFaults => QuarantineInv
<1> SUFFICES ASSUME Quarantine!Init, faults \in 0 .. MaxFaults PROVE QuarantineInv  OBVIOUS
<1>1. Quarantine!Idle \in Quarantine!Request  BY DEF Quarantine!Idle, Quarantine!Request
<1>2. Quarantine!NoSweep \in Quarantine!Sweep  BY DEF Quarantine!NoSweep, Quarantine!Sweep
<1>3. [status |-> "none", version |-> 0, path |-> NoPath] \in Quarantine!Row
  BY DEF Quarantine!Row
<1>4. Quarantine!TypeOK
  BY <1>1, <1>2, <1>3 DEF Quarantine!Init, Quarantine!TypeOK
<1>5. QED
  BY <1>4 DEF Quarantine!Init, QuarantineInv, RequestHolds, OneHolds, ItemHolds, SweepHolds,
              Quarantine!Idle, Quarantine!NoSweep, Approver, Releaser, Place

\* What users and inspections do keeps the invariant.
LEMMA QuarantineInductive == QuarantineInv /\ Quarantine!Next => QuarantineInv'
<1> SUFFICES ASSUME QuarantineInv, Quarantine!Next PROVE QuarantineInv'  OBVIOUS
<1>1. ASSUME NEW c \in Client, Quarantine!RequestStep(c) PROVE QuarantineInv'
  BY <1>1, RequestSteps, InsertItemStep, ClaimItemStep, DecisionSteps DEF Quarantine!RequestStep
<1>2. ASSUME NEW c \in Client, Quarantine!ProjectionFails(c) \/ Quarantine!DropRequest(c)
      PROVE  QuarantineInv'
  BY <1>2, RequestSteps
<1>3. ASSUME NEW c \in Client, NEW i \in Item,
             \/ Quarantine!StoreBytes(c, i) \/ Quarantine!LoadForApproval(c, i)
             \/ Quarantine!LoadForDeletion(c, i)
      PROVE  QuarantineInv'
  BY <1>3, StoreBytesStep, LoadSteps
<1>4. CASE Quarantine!SettleApproving  BY <1>4, WorkerDecides
<1>5. ASSUME NEW i \in Item,
             Quarantine!ExpirePending(i) \/ Quarantine!ReadApproving(i) \/ Quarantine!RemoveOrphan(i)
      PROVE  QuarantineInv'
  BY <1>5, WorkerDecides, OtherSteps
<1>6. ASSUME NEW p \in Place, Quarantine!RemoveFile(p) PROVE QuarantineInv'
  BY <1>6, OtherSteps
<1>7. QED  BY <1>1, <1>2, <1>3, <1>4, <1>5, <1>6 DEF Quarantine!Next, Place

\* Nothing of the quarantine moves.
LEMMA QuarantineStutters ==
  ASSUME QuarantineInv, UNCHANGED <<quarantine, faults>> PROVE QuarantineInv'
<1>1. UNCHANGED <<item, stored, file, released, client, sweep, slow, faults>>  BY DEF quarantine
<1>2. Quarantine!TypeOK'  BY <1>1 DEF QuarantineInv, Quarantine!TypeOK
<1>3. SweepHolds'  BY <1>1 DEF QuarantineInv, SweepHolds
<1>4. QED
  BY <1>1, <1>2, <1>3 DEF QuarantineInv, RequestHolds, OneHolds, ItemHolds

\* Where the bytes of an item come to lie in the Drive, it is being approved;
\* where it becomes approved, its bytes were released.
LEMMA ReleaseStep ==
  ASSUME QuarantineInv, Quarantine!Next, NEW i \in Item
  PROVE  /\ (\E p \in Place : file'[p] = i /\ file[p] # i) => item[i].status = "approving"
         /\ item'[i].status = "approved" => i \in released
<1>1. \/ UNCHANGED released /\ \A p \in Place : file'[p] # file[p] => file'[p] = NoItem
      \/ \E c \in Client : Quarantine!CommitBytes(c)
  <2>1. CASE \E p \in Place : Quarantine!RemoveFile(p)
    BY <2>1 DEF Quarantine!RemoveFile, QuarantineInv, Quarantine!TypeOK, Place
  <2>2. CASE UNCHANGED <<file, released>>  BY <2>2
  <2>3. \/ UNCHANGED <<file, released>> \/ \E p \in Place : Quarantine!RemoveFile(p)
        \/ \E c \in Client : Quarantine!CommitBytes(c)
    BY DEF Quarantine!Next, Quarantine!RequestStep, Quarantine!StoreBytes,
           Quarantine!LoadForApproval, Quarantine!LoadForDeletion, Quarantine!InspectAgain,
           Quarantine!DiscardBytes, Quarantine!RemoveStaged, Quarantine!ProjectCommit,
           Quarantine!ProjectionFails, Quarantine!DropRequest, Quarantine!InsertItem,
           Quarantine!ClaimItem, Quarantine!RejectItem, Quarantine!MarkApproved,
           Quarantine!ResetApproval, Quarantine!DeleteItem, Quarantine!ExpirePending,
           Quarantine!ReadApproving, Quarantine!RemoveOrphan, Quarantine!SettleApproving, Place
  <2>4. QED  BY <2>1, <2>2, <2>3
<1>2. CASE UNCHANGED released /\ \A p \in Place : file'[p] # file[p] => file'[p] = NoItem
  <2>1. ItemHolds(i)'  BY QuarantineInductive DEF QuarantineInv
  <2>2. QED  BY <1>2, <2>1, QuarantineAssumed DEF ItemHolds
<1>3. CASE \E c \in Client : Quarantine!CommitBytes(c)
  <2>1. PICK c \in Client : Quarantine!CommitBytes(c)  BY <1>3
  <2>2. /\ RequestHolds(c) /\ ItemHolds(i) /\ client[c].pc = "committing" /\ item' = item
        /\ \A p \in Place : file'[p] \in {file[p], client[c].item}
    BY <2>1 DEF QuarantineInv, Quarantine!CommitBytes, Quarantine!At, Quarantine!TypeOK, Place
  <2>3. QED  BY <2>2 DEF RequestHolds, ItemHolds, Approver
<1>4. QED  BY <1>1, <1>2, <1>3

\* Bytes held back reach the Drive only while their item is being approved, and
\* an item is recorded as approved only when its bytes did, whatever requests
\* are dropped and whatever the worker settles or expires meanwhile
\* (ContentQuarantineService::approve, reconcile_approving), as long as no
\* approval takes longer than the grace period of the worker.
THEOREM ReleasesAreReviewed == SceneSpec => ReleaseIsReviewed
<1> DEFINE I == scene = "quarantine" => QuarantineInv
           Reviewed == \A i \in Item :
             /\ (\E p \in Place : file'[p] = i /\ file[p] # i) => item[i].status = "approving"
             /\ item'[i].status = "approved" => i \in released
           Blank == scene # "quarantine" =>
             /\ \A i \in Item : item[i].status # "approved"
<1>1. InitScene => I /\ Blank
  <2>1. InitScene => Quarantine!Init /\ faults \in 0 .. MaxFaults
    BY QuarantineAssumed DEF InitScene, Init
  <2>2. Quarantine!Init => \A i \in Item : item[i].status # "approved"  BY DEF Quarantine!Init
  <2>3. QED  BY <2>1, <2>2, QuarantineInitially
<1>2. I /\ Blank /\ [NextScene]_all => I' /\ Blank' /\ [Reviewed]_(Quarantine!vars)
  <2> SUFFICES ASSUME I, Blank, [NextScene]_all
               PROVE  I' /\ Blank' /\ [Reviewed]_(Quarantine!vars)
    OBVIOUS
  <2>1. scene' = scene /\ ((scene = "quarantine" /\ Quarantine!Next) \/ UNCHANGED quarantine)
    BY OneSceneGoesOn
  <2>2. CASE scene = "quarantine"
    <3>1. Quarantine!Next \/ UNCHANGED <<quarantine, faults>>  BY <2>2 DEF NextScene, all
    <3>2. QuarantineInv'
      BY <2>2, <3>1, QuarantineInductive, QuarantineStutters
    <3>3. Quarantine!Next => Reviewed  BY <2>2, ReleaseStep
    <3>4. UNCHANGED <<quarantine, faults>> => UNCHANGED Quarantine!vars
      BY DEF quarantine, Quarantine!vars
    <3>5. QED  BY <2>1, <2>2, <3>1, <3>2, <3>3, <3>4
  <2>3. CASE scene # "quarantine"
    <3>1. UNCHANGED <<item, file, released>>  BY <2>1, <2>3 DEF quarantine
    <3>2. QED  BY <2>1, <2>3, <3>1
  <2>4. QED  BY <2>2, <2>3
<1>3. QED  BY <1>1, <1>2, PTL DEF SceneSpec, all, ReleaseIsReviewed, Quarantine!ReleaseIsReviewed, Place

----------------------------------------------------------------------------
(* The journal of file operations                                          *)

\* The constants of the journal: the worker and a request are not at the same
\* row in this scene.
LEMMA JournalAssumed ==
  /\ IsFiniteSet(Op) /\ NoOp \notin Op /\ NoPath \notin Path /\ Path \cap Op = {}
  /\ MaxResources \in Nat /\ MaxFaults \in Nat /\ MaxRetries \in Nat
BY SceneAssumption DEF SceneAssumption, Journal!ResourceJournalAssumption

Open == {"prepared", "filesystem_committed", "reconciling"}

\* The bytes of o are not at its path, or were taken from there.
Gone(o) == Taken(op[o].path) \/ disk[op[o].path] # o

\* A row names a file that has an identity.  A write under way is not settled
\* yet, and before its bytes are written they are nowhere; neither are those of
\* a conflict.
RowHolds(o) ==
  /\ op[o].kind = "none" => op[o].state = "none" /\ request[o] = "none"
  /\ op[o].kind # "none" => op[o].resource \in 1 .. resources /\ op[o].path \in Path
  /\ op[o].kind = "move" => op[o].dest \in Path
  /\ op[o].kind \in {"restore", "purge"} =>
       op[o].entry \in Op /\ entry[op[o].entry].status # "none"
  /\ op[o].expected # o
  /\ op[o].state = "conflict" => op[o].kind = "content_write" /\ Gone(o)
  /\ request[o] # "none" => op[o].state # "completed"
  /\ request[o] # "none" /\ op[o].kind = "content_write" =>
       op[o].state \in {"prepared", "filesystem_committed"}
  /\ request[o] = "changing" /\ op[o].kind = "content_write" => disk[op[o].path] # o

\* Bytes are where the write put them, or a lifecycle operation took them.
BytesHold(p) == disk[p] # NoOp =>
  op[disk[p]].kind = "content_write" /\ (p = op[disk[p]].path \/ Taken(op[disk[p]].path))

EntryHolds(e) == entry[e].status # "none" =>
  entry[e].resource \in 1 .. resources /\ entry[e].path \in Path

\* The Drive's locks.
LockHolds(o, x) == request[o] # "none" /\ request[x] # "none" =>
  op[o].kind = "content_write" /\ op[x].kind = "content_write" /\ op[o].path # op[x].path

\* The worker is at an open row whose request is over.
WorkerHolds == worker.pc # "idle" =>
  /\ worker.op \in Op /\ request[worker.op] = "none" /\ op[worker.op].state \in Open
  /\ worker.pc = "conflicting" => op[worker.op].kind = "content_write" /\ Gone(worker.op)

\* The writes that counted for the revision of i.
Counted(i) ==
  {o \in Op : op[o].kind = "content_write" /\ op[o].state = "completed" /\ op[o].resource = i}

\* Identities are numbered as they are made.
KnownHolds == \A i \in Journal!Resource : resource[i].state # "none" => i <= resources

JournalInv ==
  /\ Journal!TypeOK /\ KnownHolds
  /\ \A o \in Op : RowHolds(o)
  /\ \A p \in Journal!Place : BytesHold(p)
  /\ \A e \in Op : EntryHolds(e)
  /\ \A o, x \in Op : o # x => LockHolds(o, x)
  /\ WorkerHolds
  /\ \A i \in Journal!Resource : resource[i].revision = Cardinality(Counted(i))

\* The disk changes, or requests end: the rows stay.
LEMMA DiskStep ==
  ASSUME JournalInv, Journal!TypeOK', UNCHANGED <<resource, resources, op, entry>>,
         \A x \in Op : request'[x] # "none" => request[x] # "none",
         \A x \in Op : request'[x] = "changing" /\ op[x].kind = "content_write" =>
           disk'[op[x].path] # x,
         \A x \in Op : op[x].state = "conflict" /\ Gone(x) =>
           Taken(op[x].path) \/ disk'[op[x].path] # x,
         \A p \in Journal!Place : disk'[p] # NoOp =>
           op[disk'[p]].kind = "content_write"
             /\ (p = op[disk'[p]].path \/ Taken(op[disk'[p]].path)),
         worker'.pc # "idle" =>
           /\ worker'.op \in Op /\ request'[worker'.op] = "none" /\ op[worker'.op].state \in Open
           /\ worker'.pc = "conflicting" => op[worker'.op].kind = "content_write"
                /\ (Taken(op[worker'.op].path) \/ disk'[op[worker'.op].path] # worker'.op)
  PROVE  JournalInv'
<1>1. \A p : Taken(p)' <=> Taken(p)  BY DEF Taken
<1>2. ASSUME NEW o \in Op PROVE RowHolds(o)'
  BY <1>1 DEF JournalInv, RowHolds, Gone
<1>3. ASSUME NEW p \in Journal!Place PROVE BytesHold(p)'
  BY <1>1 DEF BytesHold
<1>4. \A e \in Op : EntryHolds(e)'  BY DEF JournalInv, EntryHolds
<1>5. ASSUME NEW o \in Op, NEW x \in Op, o # x PROVE LockHolds(o, x)'
  BY <1>5 DEF JournalInv, LockHolds
<1>6. WorkerHolds'  BY <1>1 DEF WorkerHolds, Gone
<1>7. \A i \in Journal!Resource : (resource[i].revision = Cardinality(Counted(i)))'
  BY DEF JournalInv, Counted
<1>8. QED  BY <1>2, <1>3, <1>4, <1>5, <1>6, <1>7 DEF JournalInv, KnownHolds

\* A row goes on to another state, and its request with it or not at all.
LEMMA RowStep ==
  ASSUME JournalInv, Journal!TypeOK', UNCHANGED <<disk, resources>>,
         NEW o \in Op, NEW new, op' = [op EXCEPT ![o] = new], op[o].kind # "none",
         new.kind = op[o].kind, new.path = op[o].path, new.resource = op[o].resource,
         new.expected = op[o].expected, new.entry = op[o].entry,
         new.kind = "move" => new.dest = op[o].dest,
         NEW req, request' = [request EXCEPT ![o] = req],
         req # "none" => request[o] # "none",
         req = "changing" => request[o] = "changing",
         req # "none" => new.state # "completed",
         req # "none" /\ op[o].kind = "content_write" =>
           new.state \in {"prepared", "filesystem_committed"},
         new.state = "conflict" => op[o].kind = "content_write" /\ Gone(o),
         KnownHolds', \A e \in Op : EntryHolds(e)',
         \A e \in Op : entry[e].status # "none" => entry'[e].status # "none",
         worker'.pc # "idle" =>
           \/ worker' = worker /\ request[o] # "none"
           \/ /\ worker'.op = o /\ req = "none" /\ new.state \in Open
              /\ worker'.pc # "conflicting",
         \A i \in Journal!Resource : (resource[i].revision = Cardinality(Counted(i)))'
  PROVE  JournalInv'
<1>1. \A x \in Op : op'[x] = IF x = o THEN new ELSE op[x]  BY DEF JournalInv, Journal!TypeOK
<1>2. \A x \in Op : request'[x] = IF x = o THEN req ELSE request[x]
  BY DEF JournalInv, Journal!TypeOK
<1>3. \A p : Taken(p)' <=> Taken(p)  BY <1>1 DEF Taken
<1>4. ASSUME NEW x \in Op PROVE Gone(x)' <=> Gone(x)
  BY <1>1, <1>3 DEF Gone
<1>5. ASSUME NEW x \in Op PROVE RowHolds(x)'
  <2>1. RowHolds(x)  BY DEF JournalInv
  <2>2. CASE x = o  BY <2>1, <2>2, <1>1, <1>2, <1>4 DEF RowHolds
  <2>3. CASE x # o  BY <2>1, <2>3, <1>1, <1>2, <1>4 DEF RowHolds
  <2>4. QED  BY <2>2, <2>3
<1>6. ASSUME NEW p \in Journal!Place PROVE BytesHold(p)'
  <2> SUFFICES ASSUME disk[p] # NoOp PROVE BytesHold(p)'  BY DEF BytesHold
  <2>1. disk[p] \in Op  BY DEF JournalInv, Journal!TypeOK
  <2>2. QED  BY <2>1, <1>1, <1>3 DEF JournalInv, BytesHold
<1>7. ASSUME NEW x \in Op, NEW y \in Op, x # y PROVE LockHolds(x, y)'
  <2>1. LockHolds(x, y)  BY <1>7 DEF JournalInv
  <2>2. QED  BY <2>1, <1>1, <1>2 DEF LockHolds
<1>8. WorkerHolds'
  <2> SUFFICES ASSUME worker'.pc # "idle" PROVE WorkerHolds'  BY DEF WorkerHolds
  <2>1. CASE worker' = worker /\ request[o] # "none"
    <3>1. WorkerHolds /\ worker.op \in Op /\ worker.op # o
      BY <2>1 DEF JournalInv, WorkerHolds
    <3>2. op'[worker.op] = op[worker.op] /\ request'[worker.op] = request[worker.op]
      BY <3>1, <1>1, <1>2
    <3>3. Gone(worker.op)' <=> Gone(worker.op)
      BY <2>1, <3>1, <3>2, <1>3 DEF Gone
    <3>4. QED  BY <2>1, <3>1, <3>2, <3>3 DEF WorkerHolds
  <2>2. CASE /\ worker'.op = o /\ req = "none" /\ new.state \in Open
             /\ worker'.pc # "conflicting"
    BY <2>2, <1>1, <1>2 DEF WorkerHolds
  <2>3. QED  BY <2>1, <2>2
<1>9. QED  BY <1>5, <1>6, <1>7, <1>8 DEF JournalInv

\* A row of the journal stays one whatever state it goes on to.
LEMMA OpRowChanges ==
  ASSUME NEW r \in Journal!OpRow
  PROVE  /\ \A s \in {"prepared", "filesystem_committed", "completed", "conflict",
                      "reconciling", "compensation_required"} :
              /\ [r EXCEPT !.state = s] \in Journal!OpRow
              /\ [r EXCEPT !.state = s, !.committed = TRUE] \in Journal!OpRow
         /\ \A q \in Path : [r EXCEPT !.dest = q] \in Journal!OpRow
         /\ [r EXCEPT !.attempts = r.attempts + 1] \in Journal!OpRow
<1>1. ASSUME NEW s \in {"prepared", "filesystem_committed", "completed", "conflict",
                        "reconciling", "compensation_required"}
      PROVE  [r EXCEPT !.state = s] \in Journal!OpRow
  BY DEF Journal!OpRow
<1>2. ASSUME NEW x \in Journal!OpRow PROVE [x EXCEPT !.committed = TRUE] \in Journal!OpRow
  BY DEF Journal!OpRow
<1>3. ASSUME NEW q \in Path PROVE [r EXCEPT !.dest = q] \in Journal!OpRow
  BY DEF Journal!OpRow
<1>4. [r EXCEPT !.attempts = r.attempts + 1] \in Journal!OpRow
  <2>1. r.attempts + 1 \in Nat  BY DEF Journal!OpRow
  <2>2. QED  BY <2>1 DEF Journal!OpRow
<1>5. ASSUME NEW s PROVE [r EXCEPT !.state = s, !.committed = TRUE]
                           = [[r EXCEPT !.state = s] EXCEPT !.committed = TRUE]
  BY DEF Journal!OpRow
<1>6. QED  BY <1>1, <1>2, <1>3, <1>4, <1>5

\* As long as no row completes, the revisions stand.
LEMMA CountStands ==
  ASSUME JournalInv,
         \A o \in Op : /\ op'[o].kind = "content_write" /\ op'[o].state = "completed"
                         <=> op[o].kind = "content_write" /\ op[o].state = "completed"
                       /\ op[o].kind = "content_write" /\ op[o].state = "completed" =>
                            op'[o].resource = op[o].resource,
         \A i \in Journal!Resource : resource'[i].revision = resource[i].revision
  PROVE  \A i \in Journal!Resource : (resource[i].revision = Cardinality(Counted(i)))'
<1> SUFFICES ASSUME NEW i \in Journal!Resource
             PROVE  (resource[i].revision = Cardinality(Counted(i)))'
  OBVIOUS
<1>1. Counted(i)' = Counted(i)  BY DEF Counted
<1>2. QED  BY <1>1 DEF JournalInv

\* The entries stand.
LEMMA EntriesStand ==
  ASSUME JournalInv, Journal!TypeOK', entry' = entry, resources <= resources'
  PROVE  \A e \in Op : EntryHolds(e)'
<1>1. resources \in Nat /\ resources' \in Nat
  BY JournalAssumed DEF JournalInv, Journal!TypeOK
<1>2. QED  BY <1>1 DEF JournalInv, EntryHolds

\* What lies at a place is the bytes of a write.
LEMMA BytesAre ==
  ASSUME JournalInv, NEW p \in Journal!Place, disk[p] # NoOp
  PROVE  /\ disk[p] \in Op /\ op[disk[p]].kind = "content_write"
         /\ p = op[disk[p]].path \/ Taken(op[disk[p]].path)
BY DEF JournalInv, Journal!TypeOK, BytesHold

\* A request that changes the disk has it for itself, but for the writes to other
\* paths; the worker is elsewhere.
LEMMA RequestAlone ==
  ASSUME JournalInv, NEW o \in Op, request[o] # "none"
  PROVE  /\ op[o].kind # "none" /\ op[o].path \in Path /\ op[o] \in Journal!OpRow
         /\ worker.pc # "idle" => worker.op \in Op \ {o} /\ request[worker.op] = "none"
         /\ \A x \in Op : x # o /\ request[x] # "none" =>
              op[o].kind = "content_write" /\ op[x].kind = "content_write"
                /\ op[x].path # op[o].path
BY DEF JournalInv, Journal!TypeOK, RowHolds, WorkerHolds, LockHolds

LEMMA ReplaceFileStep ==
  ASSUME JournalInv, NEW o \in Op, Journal!ReplaceFile(o)
  PROVE  JournalInv'
<1> USE RequestAlone DEF Journal!ReplaceFile
<1>1. /\ op[o].path \in Path /\ op[o].path \in Journal!Place
      /\ op[o].kind = "content_write"
  BY DEF Journal!Place
<1>2. \A p \in Journal!Place : disk'[p] = IF p = op[o].path THEN o ELSE disk[p]
  BY <1>1 DEF JournalInv, Journal!TypeOK
<1>3. \A x \in Op : request'[x] = IF x = o THEN "marking" ELSE request[x]
  BY DEF JournalInv, Journal!TypeOK
<1>4. Journal!TypeOK'  BY <1>1 DEF JournalInv, Journal!TypeOK
<1>5. \A x \in Op : op[x].path \in Path \/ op[x].kind = "none"
  BY DEF JournalInv, RowHolds
<1>6. \A x \in Op : x # o /\ op[x].kind # "none" /\ disk[op[x].path] # x => disk'[op[x].path] # x
  BY <1>2, <1>5 DEF Journal!Place
<1>7. \A x \in Op : request'[x] = "changing" /\ op[x].kind = "content_write" => disk'[op[x].path] # x
  BY <1>3, <1>6 DEF JournalInv, RowHolds
<1>8. \A x \in Op : op[x].state = "conflict" /\ Gone(x) => Taken(op[x].path) \/ disk'[op[x].path] # x
  <2> SUFFICES ASSUME NEW x \in Op, op[x].state = "conflict", Gone(x)
               PROVE  Taken(op[x].path) \/ disk'[op[x].path] # x
    OBVIOUS
  <2>1. RowHolds(x)  BY DEF JournalInv
  <2>2. x # o  BY <2>1, <1>1 DEF RowHolds
  <2>3. op[x].kind # "none"  BY <2>1 DEF RowHolds
  <2>4. QED  BY <2>2, <2>3, <1>6 DEF Gone
<1>9. ASSUME NEW p \in Journal!Place, disk'[p] # NoOp
      PROVE  op[disk'[p]].kind = "content_write"
               /\ (p = op[disk'[p]].path \/ Taken(op[disk'[p]].path))
  <2>1. CASE p = op[o].path  BY <2>1, <1>1, <1>2
  <2>2. CASE p # op[o].path  BY <2>2, <1>2, <1>9, BytesAre
  <2>3. QED  BY <2>1, <2>2
<1>10. worker'.pc # "idle" =>
         /\ worker'.op \in Op /\ request'[worker'.op] = "none" /\ op[worker'.op].state \in Open
         /\ worker'.pc = "conflicting" => op[worker'.op].kind = "content_write"
              /\ (Taken(op[worker'.op].path) \/ disk'[op[worker'.op].path] # worker'.op)
  <2> SUFFICES ASSUME worker.pc # "idle"
               PROVE  /\ worker.op \in Op /\ request'[worker.op] = "none"
                      /\ op[worker.op].state \in Open
                      /\ worker.pc = "conflicting" => op[worker.op].kind = "content_write"
                           /\ (Taken(op[worker.op].path) \/ disk'[op[worker.op].path] # worker.op)
    OBVIOUS
  <2>1. worker.op \in Op \ {o} /\ request'[worker.op] = "none"  BY <1>3
  <2>2. WorkerHolds  BY DEF JournalInv
  <2>3. QED  BY <2>1, <2>2, <1>6 DEF WorkerHolds, Gone
<1>11. QED
  <2>1. UNCHANGED <<resource, resources, op, entry>>  OBVIOUS
  <2>2. \A x \in Op : request'[x] # "none" => request[x] # "none"  BY <1>3
  <2>3. QED  BY ONLY DiskStep, JournalInv, <1>4, <1>7, <1>8, <1>9, <1>10, <2>1, <2>2

\* A lifecycle operation takes what lies at its source to another place, or from
\* the Drive.
LEMMA TakeStep ==
  ASSUME JournalInv, Journal!TypeOK', UNCHANGED <<resource, resources, op, entry>>,
         \A x \in Op : request'[x] # "none" => request[x] # "none",
         \A x \in Op : request'[x] = "changing" /\ op[x].kind = "content_write" =>
           disk'[op[x].path] # x,
         NEW from, \A p \in Journal!Place :
           disk'[p] # NoOp => disk'[p] = disk[p] \/ disk'[p] = disk[from],
         from \in Op \/ (from \in Path /\ Taken(from)),
         worker'.pc # "idle" =>
           /\ worker'.op \in Op /\ request'[worker'.op] = "none" /\ op[worker'.op].state \in Open
           /\ worker'.pc = "conflicting" => worker' = worker
  PROVE  JournalInv'
<1>1. from \in Journal!Place  BY DEF Journal!Place
<1>2. disk[from] # NoOp => disk[from] \in Op /\ op[disk[from]].kind = "content_write"
                             /\ Taken(op[disk[from]].path)
  <2> SUFFICES ASSUME disk[from] # NoOp
               PROVE  disk[from] \in Op /\ op[disk[from]].kind = "content_write"
                        /\ Taken(op[disk[from]].path)
    OBVIOUS
  <2>1. /\ disk[from] \in Op /\ op[disk[from]].kind = "content_write"
        /\ from = op[disk[from]].path \/ Taken(op[disk[from]].path)
    BY <1>1, BytesAre
  <2>2. op[disk[from]].path \in Path  BY <2>1 DEF JournalInv, RowHolds
  <2>3. QED  BY <2>1, <2>2, JournalAssumed
<1>3. \A x \in Op : op[x].path \in Path \/ op[x].kind = "none"
  BY DEF JournalInv, RowHolds
<1>4. ASSUME NEW x \in Op, op[x].kind # "none", Gone(x)
      PROVE  Taken(op[x].path) \/ disk'[op[x].path] # x
  <2>1. op[x].path \in Journal!Place  BY <1>3, <1>4 DEF Journal!Place
  <2>2. x # NoOp  BY JournalAssumed
  <2>3. QED  BY <1>2, <1>4, <2>1, <2>2 DEF Gone
<1>6. \A x \in Op : op[x].state = "conflict" /\ Gone(x) =>
        Taken(op[x].path) \/ disk'[op[x].path] # x
  BY <1>4 DEF JournalInv, RowHolds
<1>7. ASSUME NEW p \in Journal!Place, disk'[p] # NoOp
      PROVE  op[disk'[p]].kind = "content_write"
               /\ (p = op[disk'[p]].path \/ Taken(op[disk'[p]].path))
  BY <1>2, <1>7, BytesAre
<1>8. worker'.pc = "conflicting" => op[worker'.op].kind = "content_write"
        /\ (Taken(op[worker'.op].path) \/ disk'[op[worker'.op].path] # worker'.op)
  BY <1>4 DEF JournalInv, WorkerHolds
<1>9. QED  BY DiskStep, <1>6, <1>7, <1>8

\* A request ends where it is, and with it those of others after a crash.
LEMMA RequestEndsStep ==
  ASSUME JournalInv, UNCHANGED <<disk, resource, resources, op, entry>>,
         budget' = budget \/ Journal!Fault,
         (\E o \in Op : request' = [request EXCEPT ![o] = "none"])
           \/ request' = [o \in Op |-> "none"],
         worker' = worker \/ worker' = Journal!Resting
  PROVE  JournalInv'
<1>1. \A x \in Op : request'[x] \in {"none", request[x]}
  BY DEF JournalInv, Journal!TypeOK
<1>2. Journal!TypeOK'
  <2>1. request' \in [Op -> {"none", "changing", "marking", "projecting", "failing"}]
    BY DEF JournalInv, Journal!TypeOK
  <2>2. worker' \in Journal!Worker
    BY DEF JournalInv, Journal!TypeOK, Journal!Resting, Journal!Worker
  <2>3. budget' \in [faults : 0 .. MaxFaults, slow : 0 .. 0, retries : 0 .. MaxRetries]
    BY JournalAssumed DEF JournalInv, Journal!TypeOK, Journal!Fault
  <2>4. QED  BY <2>1, <2>2, <2>3 DEF JournalInv, Journal!TypeOK
<1>3. \A x \in Op : request'[x] # "none" => request[x] = request'[x]  BY <1>1
<1>4. worker'.pc # "idle" => worker' = worker /\ WorkerHolds
  BY DEF JournalInv, Journal!Resting
<1>5. ASSUME NEW p \in Journal!Place, disk'[p] # NoOp
      PROVE  op[disk'[p]].kind = "content_write"
               /\ (p = op[disk'[p]].path \/ Taken(op[disk'[p]].path))
  BY <1>5, BytesAre
<1>6. \A x \in Op : request'[x] = "changing" /\ op[x].kind = "content_write" => disk'[op[x].path] # x
  BY <1>3 DEF JournalInv, RowHolds
<1>7. worker'.pc # "idle" =>
        /\ worker'.op \in Op /\ request'[worker'.op] = "none" /\ op[worker'.op].state \in Open
        /\ worker'.pc = "conflicting" => op[worker'.op].kind = "content_write"
             /\ (Taken(op[worker'.op].path) \/ disk'[op[worker'.op].path] # worker'.op)
  BY <1>1, <1>4 DEF WorkerHolds, Gone
<1>8. \A x \in Op : Gone(x) => Taken(op[x].path) \/ disk'[op[x].path] # x  BY DEF Gone
<1>9. QED  BY <1>2, <1>3, <1>5, <1>6, <1>7, <1>8, DiskStep

LEMMA RenameStep ==
  ASSUME JournalInv, NEW o \in Op, request[o] = "changing", op[o].kind # "content_write",
         NEW from \in Journal!Place, NEW to \in Journal!Place, Journal!Rename(from, to),
         from \in Op \/ (op[o].kind \in {"move", "trash"} /\ from = op[o].path),
         request' = [request EXCEPT ![o] = "marking"],
         UNCHANGED <<resource, resources, op, entry, worker, budget>>
  PROVE  JournalInv'
<1>1. \A p \in Journal!Place : disk'[p] # NoOp => disk'[p] = disk[p] \/ disk'[p] = disk[from]
  BY DEF JournalInv, Journal!TypeOK, Journal!Rename
<1>2. \A x \in Op : request'[x] = IF x = o THEN "marking" ELSE request[x]
  BY DEF JournalInv, Journal!TypeOK
<1>3. Journal!TypeOK'  BY DEF JournalInv, Journal!TypeOK, Journal!Rename
<1>4. from \in Op \/ (from \in Path /\ Taken(from))
  BY RequestAlone DEF Taken
<1>5. \A x \in Op : request'[x] = "changing" => x = o
  BY <1>2, RequestAlone
<1>6. worker'.pc # "idle" =>
        worker'.op \in Op /\ request'[worker'.op] = "none" /\ op[worker'.op].state \in Open
  BY <1>2, RequestAlone DEF JournalInv, WorkerHolds
<1>7. QED  BY <1>1, <1>2, <1>3, <1>4, <1>5, <1>6, TakeStep

\* The other steps of a request under the lock.
LEMMA LifecycleSteps ==
  ASSUME JournalInv, NEW o \in Op,
         \/ Journal!RenameMoved(o) \/ Journal!RenameTrashed(o)
         \/ Journal!RenameRestored(o) \/ Journal!RemovePurged(o)
  PROVE  JournalInv'
<1> USE DEF Journal!Place
<1>1. RowHolds(o) /\ op[o] \in Journal!OpRow  BY DEF JournalInv, Journal!TypeOK
<1>2. CASE Journal!RenameMoved(o)
  BY <1>1, <1>2, RenameStep DEF Journal!RenameMoved, RowHolds
<1>3. CASE Journal!RenameTrashed(o)
  BY <1>1, <1>3, RenameStep DEF Journal!RenameTrashed, RowHolds
<1>4. CASE Journal!RenameRestored(o)
  <2>1. op[o].entry \in Op /\ op[o].dest \in Path
    BY <1>1, <1>4 DEF Journal!RenameRestored, RowHolds, Journal!OpRow
  <2>2. CASE Journal!Exists(op[o].entry)
    BY <2>1, <2>2, <1>4, RenameStep DEF Journal!RenameRestored
  <2>3. CASE ~Journal!Exists(op[o].entry)
    <3>1. request' = [request EXCEPT ![o] = "none"] /\ disk' = disk
          /\ UNCHANGED <<resource, resources, op, entry, worker, budget>>
      BY <2>3, <1>4 DEF Journal!RenameRestored
    <3>2. QED  BY <3>1, RequestEndsStep
  <2>4. QED  BY <2>2, <2>3
<1>5. CASE Journal!RemovePurged(o)
  <2>1. op[o].entry \in Op  BY <1>1, <1>5 DEF Journal!RemovePurged, RowHolds
  <2>2. disk' = [disk EXCEPT ![op[o].entry] = NoOp] /\ request[o] = "changing"
        /\ request' = [request EXCEPT ![o] = "marking"] /\ op[o].kind = "purge"
        /\ UNCHANGED <<resource, resources, op, entry, worker, budget>>
    BY <1>5 DEF Journal!RemovePurged
  <2>3. \A x \in Op : request'[x] = IF x = o THEN "marking" ELSE request[x]
    BY <2>2 DEF JournalInv, Journal!TypeOK
  <2>4. Journal!TypeOK'  BY <2>1, <2>2 DEF JournalInv, Journal!TypeOK
  <2>5. \A p \in Journal!Place : disk'[p] # NoOp => disk'[p] = disk[p]
    BY <2>2 DEF JournalInv, Journal!TypeOK
  <2>6. \A x \in Op : request'[x] = "changing" => x = o
    BY <2>2, <2>3, RequestAlone
  <2>7. worker'.pc # "idle" =>
          worker'.op \in Op /\ request'[worker'.op] = "none" /\ op[worker'.op].state \in Open
    BY <2>2, <2>3, RequestAlone DEF JournalInv, WorkerHolds
  <2>8. QED  BY <2>1, <2>2, <2>3, <2>4, <2>5, <2>6, <2>7, TakeStep
<1>6. QED  BY <1>2, <1>3, <1>4, <1>5

LEMMA ResourceRowChanges ==
  ASSUME NEW r \in Journal!ResourceRow, NEW s \in {"active", "trashed", "purged"},
         NEW p \in Path \cup {NoPath}, NEW n \in Op
  PROVE  /\ [r EXCEPT !.state = s, !.path = p, !.revision = r.revision + 1, !.newest = n]
              \in Journal!ResourceRow
         /\ [r EXCEPT !.state = s, !.path = p, !.lifecycle = r.lifecycle + 1]
              \in Journal!ResourceRow
<1>1. r.revision + 1 \in Nat /\ r.lifecycle + 1 \in Nat  BY DEF Journal!ResourceRow
<1>2. [r EXCEPT !.state = s, !.path = p, !.revision = r.revision + 1, !.newest = n]
        \in Journal!ResourceRow
  BY <1>1 DEF Journal!ResourceRow
<1>3. [r EXCEPT !.state = s, !.path = p, !.lifecycle = r.lifecycle + 1] \in Journal!ResourceRow
  BY <1>1 DEF Journal!ResourceRow
<1>4. QED  BY <1>2, <1>3

\* A revision is projected, or the lifecycle of a file: its row is completed.
LEMMA ProjectedRow ==
  ASSUME JournalInv, NEW o \in Op, op[o].kind # "none", Journal!Projected(o)
  PROVE  /\ op' = [op EXCEPT ![o] = [op[o] EXCEPT !.state = "completed", !.committed = TRUE]]
         /\ op' \in [Op -> Journal!OpRow]
         /\ resource' \in [Journal!Resource -> Journal!ResourceRow]
         /\ entry' \in [Op -> Journal!EntryRow]
         /\ \A i \in Journal!Resource : resource'[i].revision =
              IF op[o].kind = "content_write" /\ i = op[o].resource
              THEN resource[i].revision + 1 ELSE resource[i].revision
         /\ \A i \in Journal!Resource : resource'[i].state # "none" => i <= resources
         /\ \A e \in Op :
              /\ entry[e].status # "none" => entry'[e].status # "none"
              /\ entry'[e].status # "none" =>
                   entry'[e].resource \in 1 .. resources /\ entry'[e].path \in Path
<1> DEFINE i == op[o].resource  rec == op[o]
<1>1. rec \in Journal!OpRow /\ RowHolds(o) /\ resources \in 0 .. MaxResources
  BY DEF JournalInv, Journal!TypeOK
<1>2. i \in Journal!Resource /\ i \in 1 .. resources /\ rec.path \in Path
  BY <1>1, JournalAssumed DEF RowHolds, Journal!Resource
<1>3. rec.kind \in {"content_write", "move", "restore", "trash", "purge"}
  BY <1>1 DEF Journal!OpRow
<1>4. op' = [op EXCEPT ![o] = [op[o] EXCEPT !.state = "completed", !.committed = TRUE]]
  BY DEF Journal!Projected, Journal!Completed
<1>5. op' \in [Op -> Journal!OpRow]
  <2>1. [op[o] EXCEPT !.state = "completed", !.committed = TRUE] \in Journal!OpRow
    BY <1>1, OpRowChanges
  <2>2. QED  BY <2>1, <1>4 DEF JournalInv, Journal!TypeOK
<1>6. resource' \in [Journal!Resource -> Journal!ResourceRow]
      /\ \A j \in Journal!Resource : resource'[j].revision =
              IF op[o].kind = "content_write" /\ j = op[o].resource
              THEN resource[j].revision + 1 ELSE resource[j].revision
  <2>1. resource \in [Journal!Resource -> Journal!ResourceRow]
    BY DEF JournalInv, Journal!TypeOK
  <2>2. resource[i] \in Journal!ResourceRow  BY <2>1, <1>2
  <2>3. PICK new \in Journal!ResourceRow :
          /\ resource' = [resource EXCEPT ![i] = new]
          /\ new.revision = IF rec.kind = "content_write" THEN resource[i].revision + 1
                            ELSE resource[i].revision
    <3>1. CASE rec.kind = "content_write"
      <4> DEFINE new == [resource[i] EXCEPT !.state = "active", !.path = rec.path,
                                            !.revision = resource[i].revision + 1, !.newest = o]
      <4>1. new \in Journal!ResourceRow  BY <2>2, <1>2, ResourceRowChanges
      <4>2. new.revision = resource[i].revision + 1  BY <2>2 DEF Journal!ResourceRow
      <4>3. resource' = [resource EXCEPT ![i] = new]  BY <3>1 DEF Journal!Projected
      <4>4. QED  BY <3>1, <4>1, <4>2, <4>3
    <3>2. CASE rec.kind # "content_write"
      <4> DEFINE goal == [move |-> "active", restore |-> "active",
                          trash |-> "trashed", purge |-> "purged"]
                 path == IF goal[rec.kind] = "active" THEN rec.dest ELSE NoPath
                 new == [resource[i] EXCEPT !.state = goal[rec.kind], !.path = path,
                                            !.lifecycle = resource[i].lifecycle + 1]
      <4>1. goal[rec.kind] \in {"active", "trashed", "purged"}
        BY <1>3, <3>2
      <4>2. path \in Path \cup {NoPath}  BY <1>1 DEF Journal!OpRow
      <4>3. resource' = [resource EXCEPT ![i] = new]  BY <3>2 DEF Journal!Projected
      <4>4. \A s, p : [resource[i] EXCEPT !.state = s, !.path = p,
                        !.lifecycle = resource[i].lifecycle + 1].revision = resource[i].revision
        BY <2>2 DEF Journal!ResourceRow
      <4>5. new \in Journal!ResourceRow /\ new.revision = resource[i].revision
        <5> HIDE DEF goal, path
        <5>1. QED  BY <2>2, <4>1, <4>2, <4>4, ResourceRowChanges
      <4>6. QED  BY <3>2, <4>3, <4>5
    <3>3. QED  BY <3>1, <3>2
  <2>4. QED  BY <2>1, <2>3, <1>2
<1>9. \A j \in Journal!Resource : resource'[j].state # "none" => j <= resources
  <2>1. \A j \in Journal!Resource : j # i => resource'[j] = resource[j]
    BY DEF Journal!Projected, JournalInv, Journal!TypeOK
  <2>2. i <= resources  BY <1>1, <1>2, JournalAssumed
  <2>3. QED  BY <2>1, <2>2 DEF JournalInv, KnownHolds
<1>7. entry' \in [Op -> Journal!EntryRow]
      /\ \A e \in Op :
           /\ entry[e].status # "none" => entry'[e].status # "none"
           /\ entry'[e].status # "none" =>
                entry'[e].resource \in 1 .. resources /\ entry'[e].path \in Path
  <2>1. entry \in [Op -> Journal!EntryRow] /\ \A e \in Op : EntryHolds(e)
    BY DEF JournalInv, Journal!TypeOK
  <2>2. CASE entry' = entry  BY <2>1, <2>2 DEF EntryHolds
  <2>3. CASE entry' = [entry EXCEPT ![o] = [status |-> "trashed", resource |-> i, path |-> rec.path]]
    <3>1. [status |-> "trashed", resource |-> i, path |-> rec.path] \in Journal!EntryRow
      BY <1>1, <1>2 DEF Journal!EntryRow, Journal!OpRow
    <3>2. QED  BY <2>1, <2>3, <3>1, <1>2 DEF EntryHolds
  <2>4. ASSUME NEW s \in {"restored", "purged"}, rec.kind \in {"restore", "purge"},
               entry' = [entry EXCEPT ![rec.entry].status = s]
        PROVE  entry' \in [Op -> Journal!EntryRow]
               /\ \A e \in Op :
                    /\ entry[e].status # "none" => entry'[e].status # "none"
                    /\ entry'[e].status # "none" =>
                         entry'[e].resource \in 1 .. resources /\ entry'[e].path \in Path
    <3>1. rec.entry \in Op /\ entry[rec.entry].status # "none"
      BY <1>1, <2>4 DEF RowHolds
    <3>2. PICK new \in Journal!EntryRow :
            /\ entry' = [entry EXCEPT ![rec.entry] = new] /\ new.status = s
            /\ new.resource = entry[rec.entry].resource /\ new.path = entry[rec.entry].path
      <4>1. [entry[rec.entry] EXCEPT !.status = s] \in Journal!EntryRow
        BY <2>1, <2>4, <3>1 DEF Journal!EntryRow
      <4>2. QED  BY <2>1, <2>4, <3>1, <4>1 DEF Journal!EntryRow
    <3>3. \A e \in Op : entry'[e] = IF e = rec.entry THEN new ELSE entry[e]
      BY <2>1, <3>1, <3>2
    <3>4. entry' \in [Op -> Journal!EntryRow]  BY <2>1, <3>1, <3>2
    <3>5. QED  BY <2>1, <2>4, <3>1, <3>2, <3>3, <3>4 DEF EntryHolds
  <2>5. QED  BY <1>3, <2>2, <2>3, <2>4 DEF Journal!Projected
<1>8. QED  BY <1>4, <1>5, <1>6, <1>7, <1>9

\* An open row that is projected counts once for the revision of its file.
LEMMA ProjectedCounts ==
  ASSUME JournalInv, Journal!TypeOK', NEW o \in Op, op[o].kind # "none",
         op[o].state # "completed", Journal!Projected(o)
  PROVE  \A i \in Journal!Resource : (resource[i].revision = Cardinality(Counted(i)))'
<1> SUFFICES ASSUME NEW i \in Journal!Resource
             PROVE  (resource[i].revision = Cardinality(Counted(i)))'
  OBVIOUS
<1> DEFINE new == [op[o] EXCEPT !.state = "completed", !.committed = TRUE]
<1>1. op[o] \in Journal!OpRow /\ op \in [Op -> Journal!OpRow]  BY DEF JournalInv, Journal!TypeOK
<1>2. new.kind = op[o].kind /\ new.resource = op[o].resource /\ new.state = "completed"
  BY <1>1 DEF Journal!OpRow
<1>3. \A x \in Op : op'[x] = IF x = o THEN new ELSE op[x]  BY <1>1, ProjectedRow
<1>4. resource'[i].revision = IF op[o].kind = "content_write" /\ i = op[o].resource
                              THEN resource[i].revision + 1 ELSE resource[i].revision
  BY ProjectedRow
<1>5. IsFiniteSet(Counted(i)) /\ resource[i].revision = Cardinality(Counted(i))
  BY FS_Subset, JournalAssumed DEF Counted, JournalInv
<1> HIDE DEF new
<1>6. CASE op[o].kind = "content_write" /\ i = op[o].resource
  <2>1. Counted(i)' = Counted(i) \cup {o}  BY <1>2, <1>3, <1>6 DEF Counted
  <2>2. o \notin Counted(i)  BY DEF Counted
  <2>3. Cardinality(Counted(i) \cup {o}) = Cardinality(Counted(i)) + 1
    BY <1>5, <2>2, FS_AddElement
  <2>4. QED  BY <1>4, <1>5, <1>6, <2>1, <2>3
<1>7. CASE ~(op[o].kind = "content_write" /\ i = op[o].resource)
  <2>1. Counted(i)' = Counted(i)  BY <1>2, <1>3, <1>7 DEF Counted
  <2>2. QED  BY <1>4, <1>5, <1>7, <2>1
<1>8. QED  BY <1>6, <1>7

\* Who projects an open row is done with it.
LEMMA ProjectStep ==
  ASSUME JournalInv, Journal!TypeOK', NEW o \in Op, op[o].kind # "none",
         op[o].state # "completed", Journal!Projected(o), UNCHANGED <<disk, resources>>,
         request' = [request EXCEPT ![o] = "none"],
         worker'.pc # "idle" => worker' = worker /\ request[o] # "none"
  PROVE  JournalInv'
<1> DEFINE new == [op[o] EXCEPT !.state = "completed", !.committed = TRUE]
<1>1. op' = [op EXCEPT ![o] = new]  BY ProjectedRow
<1>2. /\ new.kind = op[o].kind /\ new.path = op[o].path /\ new.resource = op[o].resource
      /\ new.expected = op[o].expected /\ new.entry = op[o].entry
      /\ new.dest = op[o].dest /\ new.state = "completed"
  BY DEF JournalInv, Journal!TypeOK, Journal!OpRow
<1> HIDE DEF new
<1>3. \A e \in Op : EntryHolds(e)'  BY ProjectedRow DEF EntryHolds
<1>4. \A e \in Op : entry[e].status # "none" => entry'[e].status # "none"  BY ProjectedRow
<1>5. KnownHolds'  BY ProjectedRow DEF KnownHolds
<1>6. QED  BY <1>1, <1>2, <1>3, <1>4, <1>5, ProjectedCounts, RowStep

\* As long as the identities stand, they keep their revisions and numbers.
LEMMA StillKnown ==
  ASSUME JournalInv, resource' = resource
  PROVE  \A i \in Journal!Resource :
           /\ resource'[i].revision = resource[i].revision
           /\ resource'[i].state # "none" => i <= resources
BY DEF JournalInv, KnownHolds

\* The row of an operation goes on to another state, which is not the end.
LEMMA OpenRowStep ==
  ASSUME JournalInv, NEW o \in Op, op[o].kind # "none",
         UNCHANGED <<disk, resources, entry>>, NEW new \in Journal!OpRow,
         op' = [op EXCEPT ![o] = new],
         new.kind = op[o].kind, new.path = op[o].path, new.resource = op[o].resource,
         new.expected = op[o].expected, new.entry = op[o].entry,
         new.kind = "move" => new.dest = op[o].dest,
         op[o].state # "completed", new.state # "completed",
         NEW req \in {"none", "changing", "marking", "projecting", "failing"},
         request' = [request EXCEPT ![o] = req],
         req # "none" => request[o] # "none",
         req = "changing" => request[o] = "changing",
         req # "none" /\ op[o].kind = "content_write" =>
           new.state \in {"prepared", "filesystem_committed"},
         new.state = "conflict" => op[o].kind = "content_write" /\ Gone(o),
         worker' \in Journal!Worker,
         worker'.pc # "idle" =>
           \/ worker' = worker /\ request[o] # "none"
           \/ /\ worker'.op = o /\ req = "none" /\ new.state \in Open
              /\ worker'.pc # "conflicting",
         resource' \in [Journal!Resource -> Journal!ResourceRow],
         \A i \in Journal!Resource :
           /\ resource'[i].revision = resource[i].revision
           /\ resource'[i].state # "none" => i <= resources,
         budget' = budget
  PROVE  JournalInv'
<1>1. Journal!TypeOK'  BY DEF JournalInv, Journal!TypeOK
<1>2. \A x \in Op : op'[x] = IF x = o THEN new ELSE op[x]  BY DEF JournalInv, Journal!TypeOK
<1>3. \A i \in Journal!Resource : (resource[i].revision = Cardinality(Counted(i)))'
  BY <1>2, CountStands
<1>4. \A e \in Op : EntryHolds(e)'  BY DEF JournalInv, EntryHolds
<1>5. \A e \in Op : entry[e].status # "none" => entry'[e].status # "none"  OBVIOUS
<1>6. KnownHolds'  BY DEF KnownHolds
<1>7. QED  BY <1>1, <1>3, <1>4, <1>5, <1>6, RowStep

\* A conflict: the row was prepared and its bytes are not there, or nothing
\* happens to it.
LEMMA ConflictStep ==
  ASSUME JournalInv, NEW o \in Op, op[o].kind = "content_write", op[o].state \in Open,
         Journal!Conflicted(o), Gone(o), UNCHANGED <<disk, resources, entry, budget>>,
         request' = [request EXCEPT ![o] = "none"], worker' \in Journal!Worker,
         worker'.pc # "idle" => worker' = worker /\ request[o] # "none"
  PROVE  JournalInv'
<1>1. op[o] \in Journal!OpRow /\ op \in [Op -> Journal!OpRow]
      /\ resource \in [Journal!Resource -> Journal!ResourceRow]
  BY DEF JournalInv, Journal!TypeOK
<1>2. resource' \in [Journal!Resource -> Journal!ResourceRow]
      /\ \A i \in Journal!Resource :
           /\ resource'[i].revision = resource[i].revision
           /\ resource'[i].state # "none" => i <= resources
  <2>1. CASE resource' = resource  BY <1>1, <2>1 DEF JournalInv, KnownHolds
  <2>2. CASE resource' = [resource EXCEPT ![op[o].resource].state = "missing"]
    <3>1. op[o].resource <= resources /\ op[o].resource \in Journal!Resource
      BY JournalAssumed DEF JournalInv, Journal!TypeOK, RowHolds, Journal!Resource
    <3>2. resource' \in [Journal!Resource -> Journal!ResourceRow]
          /\ \A i \in Journal!Resource : resource'[i].revision = resource[i].revision
      BY <1>1, <2>2 DEF Journal!ResourceRow
    <3>3. \A i \in Journal!Resource : i # op[o].resource => resource'[i] = resource[i]
      BY <1>1, <2>2
    <3>4. QED  BY <3>1, <3>2, <3>3 DEF JournalInv, KnownHolds
  <2>3. QED  BY <2>1, <2>2 DEF Journal!Conflicted
<1>3. PICK new \in Journal!OpRow :
        /\ op' = [op EXCEPT ![o] = new]
        /\ new = op[o] \/ new = [op[o] EXCEPT !.state = "conflict"]
  <2>1. [op[o] EXCEPT !.state = "conflict"] \in Journal!OpRow  BY <1>1, OpRowChanges
  <2>2. op = [op EXCEPT ![o] = op[o]]  BY <1>1
  <2>3. QED  BY <1>1, <2>1, <2>2 DEF Journal!Conflicted
<1>4. /\ new.kind = op[o].kind /\ new.path = op[o].path /\ new.resource = op[o].resource
      /\ new.expected = op[o].expected /\ new.entry = op[o].entry
      /\ new.dest = op[o].dest /\ new.state # "completed"
  <2>1. CASE new = op[o]  BY <2>1 DEF Open
  <2>2. CASE new = [op[o] EXCEPT !.state = "conflict"]  BY <1>1, <2>2 DEF Journal!OpRow
  <2>3. QED  BY <1>3, <2>1, <2>2
<1>5. op[o].state # "completed"  BY DEF Open
<1>6. QED  BY <1>2, <1>3, <1>4, <1>5, OpenRowStep, StillKnown

\* The mark of an open row.
LEMMA MarkedRow ==
  ASSUME JournalInv, NEW o \in Op, op[o].state # "completed", Journal!Marked(o)
  PROVE  \E new \in Journal!OpRow :
           /\ op' = [op EXCEPT ![o] = new]
           /\ new.kind = op[o].kind /\ new.path = op[o].path /\ new.resource = op[o].resource
           /\ new.expected = op[o].expected /\ new.entry = op[o].entry /\ new.dest = op[o].dest
           /\ IF op[o].state \in Open THEN new.state = "filesystem_committed"
              ELSE new.state = op[o].state
<1>1. op[o] \in Journal!OpRow /\ op \in [Op -> Journal!OpRow]
  BY DEF JournalInv, Journal!TypeOK
<1>2. CASE op[o].state \in Open
  <2> DEFINE new == [op[o] EXCEPT !.state = "filesystem_committed", !.committed = TRUE]
  <2>1. op' = [op EXCEPT ![o] = new]  BY <1>2 DEF Journal!Marked, Open
  <2>2. new \in Journal!OpRow  BY <1>1, OpRowChanges
  <2>3. /\ new.kind = op[o].kind /\ new.path = op[o].path /\ new.resource = op[o].resource
        /\ new.expected = op[o].expected /\ new.entry = op[o].entry /\ new.dest = op[o].dest
        /\ new.state = "filesystem_committed"
    BY <1>1 DEF Journal!OpRow
  <2> HIDE DEF new
  <2>4. QED  BY <1>2, <2>1, <2>2, <2>3
<1>3. CASE op[o].state \notin Open
  <2>1. op' = [op EXCEPT ![o] = op[o]]  BY <1>1, <1>3 DEF Journal!Marked, Open
  <2>2. QED  BY <1>1, <1>3, <2>1
<1>4. QED  BY <1>2, <1>3

\* The steps of a request that change its row.
LEMMA RowRequestSteps ==
  ASSUME JournalInv, NEW o \in Op,
         \/ Journal!RefuseContent(o) \/ (\E q \in Path : Journal!ChooseRestoreTarget(o, q))
         \/ Journal!RequestMarks(o) \/ Journal!RequestProjects(o) \/ Journal!RequestFails(o)
  PROVE  JournalInv'
<1>1. /\ op[o] \in Journal!OpRow /\ op \in [Op -> Journal!OpRow] /\ RowHolds(o)
      /\ resource \in [Journal!Resource -> Journal!ResourceRow] /\ worker \in Journal!Worker
      /\ request \in [Op -> {"none", "changing", "marking", "projecting", "failing"}]
  BY DEF JournalInv, Journal!TypeOK
<1>2. request[o] # "none" /\ worker' = worker
  BY DEF Journal!RefuseContent, Journal!ChooseRestoreTarget, Journal!RequestMarks,
         Journal!RequestProjects, Journal!RequestFails
<1>3. op[o].kind # "none" /\ op[o].state # "completed"  BY <1>1, <1>2 DEF RowHolds
<1>4. CASE Journal!RefuseContent(o)
  <2>1. /\ op[o].kind = "content_write" /\ Journal!Conflicted(o)
        /\ request' = [request EXCEPT ![o] = "none"] /\ request[o] = "changing"
        /\ UNCHANGED <<disk, resources, entry, budget>>
    BY <1>4 DEF Journal!RefuseContent
  <2>2. op[o].state \in Open /\ Gone(o)  BY <1>1, <2>1 DEF RowHolds, Open, Gone
  <2>3. QED  BY <1>1, <1>2, <2>1, <2>2, ConflictStep
<1>5. ASSUME NEW q \in Path, Journal!ChooseRestoreTarget(o, q) PROVE JournalInv'
  <2> DEFINE new == [op[o] EXCEPT !.dest = q]
  <2>1. /\ op' = [op EXCEPT ![o] = new] /\ op[o].kind = "restore" /\ request[o] = "changing"
        /\ op[o].state \in {"prepared", "reconciling"}
        /\ UNCHANGED <<disk, resource, resources, entry, request, budget>>
    BY <1>5 DEF Journal!ChooseRestoreTarget
  <2>2. new \in Journal!OpRow  BY <1>1, OpRowChanges
  <2>3. /\ new.kind = op[o].kind /\ new.path = op[o].path /\ new.resource = op[o].resource
        /\ new.expected = op[o].expected /\ new.entry = op[o].entry
        /\ new.state = op[o].state
    BY <1>1 DEF Journal!OpRow
  <2> HIDE DEF new
  <2>4. request' = [request EXCEPT ![o] = "changing"]  BY <1>1, <2>1
  <2>5. QED  BY <1>1, <1>2, <1>3, <2>1, <2>2, <2>3, <2>4, OpenRowStep, StillKnown
<1>6. CASE Journal!RequestMarks(o)
  <2>1. /\ Journal!Marked(o) /\ request' = [request EXCEPT ![o] = "projecting"]
        /\ UNCHANGED <<disk, resource, resources, entry, budget>>
    BY <1>6 DEF Journal!RequestMarks
  <2>2. PICK new \in Journal!OpRow :
           /\ op' = [op EXCEPT ![o] = new]
           /\ new.kind = op[o].kind /\ new.path = op[o].path /\ new.resource = op[o].resource
           /\ new.expected = op[o].expected /\ new.entry = op[o].entry /\ new.dest = op[o].dest
           /\ IF op[o].state \in Open THEN new.state = "filesystem_committed"
              ELSE new.state = op[o].state
    BY <1>3, <2>1, MarkedRow
  <2>3. /\ new.state # "completed"
        /\ op[o].kind = "content_write" => new.state \in {"prepared", "filesystem_committed"}
        /\ new.state = "conflict" => op[o].kind = "content_write" /\ Gone(o)
    BY <1>1, <1>2, <1>3, <2>2 DEF RowHolds, Open
  <2>4. QED  BY <1>1, <1>2, <1>3, <2>1, <2>2, <2>3, OpenRowStep, StillKnown
<1>7. CASE Journal!RequestProjects(o)
  <2>1. CASE Journal!Projectable(o)
    <3>1. /\ Journal!Projected(o) /\ request' = [request EXCEPT ![o] = "none"]
          /\ UNCHANGED <<disk, resources, budget>>
      BY <1>7, <2>1 DEF Journal!RequestProjects
    <3>2. Journal!TypeOK'
      BY <1>1, <1>2, <1>3, <3>1, ProjectedRow DEF JournalInv, Journal!TypeOK
    <3>3. QED  BY <1>2, <1>3, <3>1, <3>2, ProjectStep
  <2>2. CASE ~Journal!Projectable(o)
    <3>1. PICK req \in {"failing", "none"} :
            /\ request' = [request EXCEPT ![o] = req]
            /\ UNCHANGED <<disk, resource, resources, op, entry, budget>>
      BY <1>7, <2>2 DEF Journal!RequestProjects
    <3>2. op' = [op EXCEPT ![o] = op[o]]  BY <1>1, <3>1
    <3>3. QED  BY <1>1, <1>2, <1>3, <3>1, <3>2, OpenRowStep, StillKnown DEF RowHolds
  <2>3. QED  BY <2>1, <2>2
<1>8. CASE Journal!RequestFails(o)
  <2> DEFINE new == [op[o] EXCEPT !.state = "reconciling"]
  <2>1. /\ op' = [op EXCEPT ![o] = new] /\ request' = [request EXCEPT ![o] = "none"]
        /\ UNCHANGED <<disk, resource, resources, entry, budget>>
    BY <1>3, <1>8 DEF Journal!RequestFails
  <2>2. new \in Journal!OpRow  BY <1>1, OpRowChanges
  <2>3. /\ new.kind = op[o].kind /\ new.path = op[o].path /\ new.resource = op[o].resource
        /\ new.expected = op[o].expected /\ new.entry = op[o].entry /\ new.dest = op[o].dest
        /\ new.state = "reconciling"
    BY <1>1 DEF Journal!OpRow
  <2> HIDE DEF new
  <2>4. QED  BY <1>1, <1>2, <1>3, <2>1, <2>2, <2>3, OpenRowStep, StillKnown
<1>9. QED  BY <1>4, <1>5, <1>6, <1>7, <1>8

\* The worker takes a row that no request is at.
LEMMA ClaimStep ==
  ASSUME JournalInv, NEW o \in Op, Journal!ClaimReconciliation(o)
  PROVE  JournalInv'
<1> DEFINE new == [op[o] EXCEPT !.attempts = op[o].attempts + 1]
<1>1. /\ op[o] \in Journal!OpRow /\ op \in [Op -> Journal!OpRow] /\ RowHolds(o)
      /\ request \in [Op -> {"none", "changing", "marking", "projecting", "failing"}]
      /\ resource \in [Journal!Resource -> Journal!ResourceRow] /\ budget.slow = 0
  BY DEF JournalInv, Journal!TypeOK
<1>2. /\ request[o] = "none" /\ op[o].state \in Open /\ op' = [op EXCEPT ![o] = new]
      /\ worker' = [pc |-> "checking", op |-> o, state |-> op[o].state]
      /\ UNCHANGED <<disk, resource, resources, entry, request, budget>>
  BY <1>1 DEF Journal!ClaimReconciliation, Open
<1>3. op[o].kind # "none" /\ op[o].state # "completed" /\ op[o].state # "conflict"
  BY <1>1, <1>2 DEF RowHolds, Open
<1>4. new \in Journal!OpRow  BY <1>1, OpRowChanges
<1>5. /\ new.kind = op[o].kind /\ new.path = op[o].path /\ new.resource = op[o].resource
      /\ new.expected = op[o].expected /\ new.entry = op[o].entry /\ new.dest = op[o].dest
      /\ new.state = op[o].state
  BY <1>1 DEF Journal!OpRow
<1> HIDE DEF new
<1>6. request' = [request EXCEPT ![o] = "none"]  BY <1>1, <1>2
<1>7. worker' \in Journal!Worker  BY <1>2 DEF Journal!Worker, Open
<1>8. worker'.op = o /\ worker'.pc # "conflicting"  BY <1>2
<1>9. QED  BY <1>1, <1>2, <1>3, <1>4, <1>5, <1>6, <1>7, <1>8, OpenRowStep, StillKnown

\* What the worker is at: an open row.
LEMMA WorkerRow ==
  ASSUME JournalInv, worker.pc # "idle"
  PROVE  /\ worker.op \in Op /\ op[worker.op] \in Journal!OpRow /\ RowHolds(worker.op)
         /\ op[worker.op].kind # "none" /\ op[worker.op].state \in Open
         /\ op[worker.op].state # "completed"
         /\ request[worker.op] = "none" /\ request = [request EXCEPT ![worker.op] = "none"]
         /\ op = [op EXCEPT ![worker.op] = op[worker.op]]
         /\ worker.pc = "conflicting" =>
              op[worker.op].kind = "content_write" /\ Gone(worker.op)
<1>1. /\ worker.op \in Op /\ request[worker.op] = "none" /\ op[worker.op].state \in Open
      /\ worker.pc = "conflicting" => op[worker.op].kind = "content_write" /\ Gone(worker.op)
  BY DEF JournalInv, WorkerHolds
<1>2. /\ op \in [Op -> Journal!OpRow]  /\ RowHolds(worker.op)
      /\ request \in [Op -> {"none", "changing", "marking", "projecting", "failing"}]
  BY <1>1 DEF JournalInv, Journal!TypeOK
<1>3. op[worker.op].kind # "none" /\ op[worker.op].state # "completed"
  BY <1>1, <1>2 DEF RowHolds, Open
<1>4. QED  BY <1>1, <1>2, <1>3

LEMMA CheckDiskStep ==
  ASSUME JournalInv, Journal!CheckDisk
  PROVE  JournalInv'
<1>1. worker.pc = "checking" /\ worker \in Journal!Worker /\ disk \in [Journal!Place -> Op \cup {NoOp}]
  BY DEF Journal!CheckDisk, JournalInv, Journal!TypeOK
<1>2. PICK o \in Op : o = worker.op  BY <1>1, WorkerRow
<1>3. /\ op[o] \in Journal!OpRow /\ RowHolds(o) /\ op[o].kind # "none" /\ op[o].state \in Open
      /\ request[o] = "none"
  BY <1>1, <1>2, WorkerRow
<1>4. PICK pc \in {"marking", "conflicting", "failing"} :
        /\ worker' = [worker EXCEPT !.pc = pc]
        /\ pc = "conflicting" => op[o].kind = "content_write" /\ ~Journal!Proven(o)
  BY <1>2 DEF Journal!CheckDisk
<1>5. worker' \in Journal!Worker /\ worker'.op = o /\ worker'.pc = pc
  BY <1>1, <1>2, <1>4 DEF Journal!Worker
<1>6. UNCHANGED <<resource, resources, op, entry, request, budget>>  BY DEF Journal!CheckDisk
<1>7. op[o].kind = "purge" => op[o].entry \in Journal!Place /\ op[o].entry \in Op
  BY <1>3 DEF RowHolds, Journal!Place
<1>8. /\ op[o].kind # "purge" => disk' = disk
      /\ op[o].kind = "purge" => disk' = [disk EXCEPT ![op[o].entry] = NoOp]
  BY <1>2 DEF Journal!CheckDisk
<1>9. disk' \in [Journal!Place -> Op \cup {NoOp}]
      /\ \A p \in Journal!Place : disk'[p] # NoOp => disk'[p] = disk[p]
  BY <1>1, <1>7, <1>8
<1>10. Journal!TypeOK'  BY <1>5, <1>6, <1>9 DEF JournalInv, Journal!TypeOK
<1>11. ASSUME NEW x \in Op, op[x].kind # "none", disk[op[x].path] # x
       PROVE  disk'[op[x].path] # x
  <2>1. op[x].path \in Journal!Place  BY <1>11 DEF JournalInv, RowHolds, Journal!Place
  <2>2. x # NoOp  BY JournalAssumed
  <2>3. QED  BY <1>9, <1>11, <2>1, <2>2
<1>12. \A x \in Op : request'[x] = "changing" /\ op[x].kind = "content_write" => disk'[op[x].path] # x
  BY <1>6, <1>11 DEF JournalInv, RowHolds
<1>13. \A x \in Op : op[x].state = "conflict" /\ Gone(x) => Taken(op[x].path) \/ disk'[op[x].path] # x
  BY <1>11 DEF JournalInv, RowHolds, Gone
<1>14. ASSUME NEW p \in Journal!Place, disk'[p] # NoOp
       PROVE  op[disk'[p]].kind = "content_write"
                /\ (p = op[disk'[p]].path \/ Taken(op[disk'[p]].path))
  BY <1>9, <1>14, BytesAre
<1>15. worker'.pc = "conflicting" => op[o].kind = "content_write"
         /\ (Taken(op[o].path) \/ disk'[op[o].path] # o)
  BY <1>3, <1>4, <1>5, <1>8 DEF Journal!Proven
<1>16. QED
  <2>1. worker'.pc # "idle" =>
          /\ worker'.op \in Op /\ request'[worker'.op] = "none" /\ op[worker'.op].state \in Open
          /\ worker'.pc = "conflicting" => op[worker'.op].kind = "content_write"
               /\ (Taken(op[worker'.op].path) \/ disk'[op[worker'.op].path] # worker'.op)
    BY <1>3, <1>5, <1>6, <1>15
  <2>2. QED  BY <1>6, <1>10, <1>12, <1>13, <1>14, <2>1, DiskStep

LEMMA WorkerSteps ==
  ASSUME JournalInv,
         \/ Journal!WorkerMarksConflict \/ Journal!WorkerMarks
         \/ Journal!WorkerProjects \/ Journal!ScheduleRetry
  PROVE  JournalInv'
<1>1. worker.pc # "idle" /\ worker \in Journal!Worker
      /\ resource \in [Journal!Resource -> Journal!ResourceRow]
  BY DEF Journal!WorkerMarksConflict, Journal!WorkerMarks, Journal!WorkerProjects,
         Journal!ScheduleRetry, JournalInv, Journal!TypeOK
<1>2. PICK o \in Op : o = worker.op  BY <1>1, WorkerRow
<1>3. /\ op[o] \in Journal!OpRow /\ RowHolds(o) /\ op[o].kind # "none" /\ op[o].state \in Open
      /\ op[o].state # "completed" /\ request[o] = "none"
      /\ request = [request EXCEPT ![o] = "none"] /\ op = [op EXCEPT ![o] = op[o]]
      /\ worker.pc = "conflicting" => op[o].kind = "content_write" /\ Gone(o)
  BY <1>1, <1>2, WorkerRow
<1>4. Journal!Resting \in Journal!Worker /\ Journal!Resting.pc = "idle"
  BY DEF Journal!Resting, Journal!Worker
<1>5. CASE Journal!WorkerMarksConflict
  <2>1. /\ worker.pc = "conflicting" /\ Journal!Conflicted(o) /\ worker' = Journal!Resting
        /\ UNCHANGED <<disk, resources, entry, request, budget>>
    BY <1>2, <1>5 DEF Journal!WorkerMarksConflict
  <2>2. QED  BY <1>3, <1>4, <2>1, ConflictStep
<1>6. CASE Journal!WorkerMarks
  <2>1. /\ Journal!Marked(o) /\ worker' = [worker EXCEPT !.pc = "projecting"]
        /\ UNCHANGED <<disk, resource, resources, entry, request, budget>>
    BY <1>2, <1>6 DEF Journal!WorkerMarks
  <2>2. PICK new \in Journal!OpRow :
           /\ op' = [op EXCEPT ![o] = new]
           /\ new.kind = op[o].kind /\ new.path = op[o].path /\ new.resource = op[o].resource
           /\ new.expected = op[o].expected /\ new.entry = op[o].entry /\ new.dest = op[o].dest
           /\ new.state = "filesystem_committed"
    BY <1>3, <2>1, MarkedRow
  <2>3. worker' \in Journal!Worker /\ worker'.op = o /\ worker'.pc # "conflicting"
    BY <1>1, <1>2, <2>1 DEF Journal!Worker
  <2>4. new.state \in Open  BY <2>2 DEF Open
  <2>5. QED  BY <1>1, <1>3, <2>1, <2>2, <2>3, <2>4, OpenRowStep, StillKnown
<1>7. CASE Journal!WorkerProjects
  <2>1. CASE Journal!Projectable(o)
    <3>1. /\ Journal!Projected(o) /\ worker' = Journal!Resting
          /\ UNCHANGED <<disk, resources, request, budget>>
      BY <1>2, <1>7, <2>1 DEF Journal!WorkerProjects
    <3>2. Journal!TypeOK'
      BY <1>3, <1>4, <3>1, ProjectedRow DEF JournalInv, Journal!TypeOK
    <3>3. QED  BY <1>3, <1>4, <3>1, <3>2, ProjectStep
  <2>2. CASE ~Journal!Projectable(o)
    <3>1. /\ worker' = [worker EXCEPT !.pc = "failing"]
          /\ UNCHANGED <<disk, resource, resources, op, entry, request, budget>>
      BY <1>2, <1>7, <2>2 DEF Journal!WorkerProjects
    <3>2. worker' \in Journal!Worker /\ worker'.op = o /\ worker'.pc # "conflicting"
      BY <1>1, <1>2, <3>1 DEF Journal!Worker
    <3>3. op[o].state # "conflict"  BY <1>3 DEF Open
    <3>4. QED  BY <1>1, <1>3, <3>1, <3>2, <3>3, OpenRowStep, StillKnown
  <2>3. QED  BY <2>1, <2>2
<1>8. CASE Journal!ScheduleRetry
  <2>1. PICK s \in {"compensation_required", "prepared", "reconciling"} :
          op' = [op EXCEPT ![o] = [op[o] EXCEPT !.state = s]]
    <3> DEFINE c == CASE op[o].attempts >= MaxReconciliations -> "compensation_required"
                      [] /\ op[o].attempts < MaxReconciliations
                         /\ worker.state = "prepared" -> "prepared"
                      [] OTHER -> "reconciling"
    <3>1. c \in {"compensation_required", "prepared", "reconciling"}  OBVIOUS
    <3>2. op' = [op EXCEPT ![o].state = c]  BY <1>2, <1>8 DEF Journal!ScheduleRetry
    <3> HIDE DEF c
    <3>3. QED  BY <3>1, <3>2
  <2> DEFINE new == [op[o] EXCEPT !.state = s]
  <2>2. worker' = Journal!Resting /\ UNCHANGED <<disk, resource, resources, entry, request, budget>>
    BY <1>8 DEF Journal!ScheduleRetry
  <2>3. new \in Journal!OpRow  BY <1>3, OpRowChanges
  <2>4. /\ new.kind = op[o].kind /\ new.path = op[o].path /\ new.resource = op[o].resource
        /\ new.expected = op[o].expected /\ new.entry = op[o].entry /\ new.dest = op[o].dest
        /\ new.state # "completed" /\ new.state # "conflict"
    BY <1>3 DEF Journal!OpRow
  <2>5. op' = [op EXCEPT ![o] = new]  BY <2>1
  <2> HIDE DEF new
  <2>6. QED  BY <1>1, <1>3, <1>4, <2>2, <2>3, <2>4, <2>5, OpenRowStep, StillKnown
<1>9. QED  BY <1>5, <1>6, <1>7, <1>8

\* A request is repeated: nobody else has the lock, and its bytes are not there.
LEMMA RetryStep ==
  ASSUME JournalInv, NEW o \in Op, Journal!RetryRequest(o)
  PROVE  JournalInv'
<1>1. /\ op[o] \in Journal!OpRow /\ RowHolds(o) /\ request[o] = "none" /\ Journal!Repeatable(o)
      /\ Journal!Unlocked(op[o].kind, op[o].path)
      /\ request' = [request EXCEPT ![o] = "changing"]
      /\ UNCHANGED <<disk, resource, resources, op, entry, worker>>
      /\ request \in [Op -> {"none", "changing", "marking", "projecting", "failing"}]
      /\ budget \in [faults : 0 .. MaxFaults, slow : 0 .. 0, retries : 0 .. MaxRetries]
  BY DEF JournalInv, Journal!TypeOK, Journal!RetryRequest
<1>2. worker.op # o /\ budget' = [budget EXCEPT !.retries = @ + 1] /\ budget.retries < MaxRetries
  BY <1>1 DEF Journal!RetryRequest
<1>3. budget' \in [faults : 0 .. MaxFaults, slow : 0 .. 0, retries : 0 .. MaxRetries]
  BY <1>1, <1>2, JournalAssumed
<1>4. Journal!TypeOK'  BY <1>1, <1>3 DEF JournalInv, Journal!TypeOK
<1>5. \A x \in Op : request'[x] = IF x = o THEN "changing" ELSE request[x]  BY <1>1
<1>6. \A p : Taken(p)' <=> Taken(p)  BY <1>1 DEF Taken
<1>7. /\ op[o].state # "completed" /\ op[o].kind # "none"
      /\ op[o].kind = "content_write" => op[o].state = "prepared" /\ disk[op[o].path] # o
  BY <1>1 DEF Journal!Repeatable, RowHolds
<1>8. ASSUME NEW x \in Op PROVE RowHolds(x)'
  <2>1. RowHolds(x)  BY DEF JournalInv
  <2>2. CASE x = o  BY <1>1, <1>5, <1>6, <1>7, <2>2 DEF RowHolds, Gone
  <2>3. CASE x # o  BY <1>1, <1>5, <1>6, <2>1, <2>3 DEF RowHolds, Gone
  <2>4. QED  BY <2>2, <2>3
<1>9. \A p \in Journal!Place : BytesHold(p)'  BY <1>1, <1>6 DEF JournalInv, BytesHold
<1>10. \A e \in Op : EntryHolds(e)'  BY <1>1 DEF JournalInv, EntryHolds
<1>11. ASSUME NEW x \in Op, NEW y \in Op, x # y PROVE LockHolds(x, y)'
  <2>1. LockHolds(x, y)  BY <1>11 DEF JournalInv
  <2>2. QED  BY <1>1, <1>5, <1>11, <2>1 DEF LockHolds, Journal!Unlocked
<1>12. WorkerHolds'
  BY <1>1, <1>2, <1>5, <1>6 DEF JournalInv, WorkerHolds, Gone
<1>13. \A i \in Journal!Resource : (resource[i].revision = Cardinality(Counted(i)))'
  BY <1>1 DEF JournalInv, Counted
<1>14. KnownHolds'  BY <1>1 DEF JournalInv, KnownHolds
<1>15. QED  BY <1>4, <1>8, <1>9, <1>10, <1>11, <1>12, <1>13, <1>14 DEF JournalInv

\* The requests that begin: a new row, of a file that has an identity now, with
\* the lock or without a request.
LEMMA NewRowStep ==
  ASSUME JournalInv, NEW o \in Op, op[o].kind = "none",
         NEW new \in Journal!OpRow, op' = [op EXCEPT ![o] = new],
         new.kind # "none", new.state = "prepared", new.path \in Path,
         new.resource \in 1 .. resources', new.expected # o,
         new.kind = "move" => new.dest \in Path,
         new.kind \in {"restore", "purge"} =>
           new.entry \in Op /\ entry[new.entry].status # "none",
         NEW req \in {"none", "changing"}, request' = [request EXCEPT ![o] = req],
         req # "none" => \A x \in Op : request[x] # "none" =>
           new.kind = "content_write" /\ op[x].kind = "content_write" /\ op[x].path # new.path,
         UNCHANGED <<disk, entry, worker, budget>>,
         (UNCHANGED <<resource, resources>>)
           \/ (/\ resources < MaxResources /\ resources' = resources + 1
               /\ \E s \in {"reconciling", "active"}, q \in Path \cup {NoPath} :
                    resource' = [resource EXCEPT ![resources + 1] = Journal!New(s, q)])
  PROVE  JournalInv'
<1>1. \A x \in Op : op'[x] = IF x = o THEN new ELSE op[x]  BY DEF JournalInv, Journal!TypeOK
<1>2. \A x \in Op : request'[x] = IF x = o THEN req ELSE request[x]
  BY DEF JournalInv, Journal!TypeOK
<1>3. /\ resources \in 0 .. MaxResources /\ resources' \in 0 .. MaxResources
      /\ resources <= resources' /\ MaxResources \in Nat
  BY JournalAssumed DEF JournalInv, Journal!TypeOK
<1>4. RowHolds(o) /\ request[o] = "none"  BY DEF JournalInv, RowHolds
<1>5. resource' \in [Journal!Resource -> Journal!ResourceRow]
  <2>1. resource \in [Journal!Resource -> Journal!ResourceRow]
    BY DEF JournalInv, Journal!TypeOK
  <2>2. ASSUME NEW s \in {"reconciling", "active"}, NEW q \in Path \cup {NoPath}
        PROVE  Journal!New(s, q) \in Journal!ResourceRow
    BY DEF Journal!New, Journal!NoResource, Journal!ResourceRow
  <2>3. QED  BY <2>1, <2>2
<1>6. Journal!TypeOK'
  BY <1>3, <1>5 DEF JournalInv, Journal!TypeOK
<1>7. ASSUME NEW p, Taken(p) PROVE Taken(p)'
  <2>1. PICK l \in Op : op[l].kind \in {"move", "trash"} /\ op[l].path = p  BY <1>7 DEF Taken
  <2>2. op'[l] = op[l]  BY <1>1, <2>1
  <2>3. QED  BY <2>1, <2>2 DEF Taken
<1>8. \A p \in Journal!Place : disk[p] # o  BY BytesAre, JournalAssumed
<1>9. ASSUME NEW x \in Op, x # o, Gone(x) PROVE Gone(x)'
  BY <1>1, <1>7, <1>9 DEF Gone
<1>10. ASSUME NEW x \in Op PROVE RowHolds(x)'
  <2>1. RowHolds(x)  BY DEF JournalInv
  <2>2. CASE x = o
    <3>1. disk[new.path] # o  BY <1>8 DEF Journal!Place
    <3>2. QED  BY <1>1, <1>2, <2>2, <3>1 DEF RowHolds
  <2>3. CASE x # o
    <3>1. op'[x] = op[x] /\ request'[x] = request[x]  BY <1>1, <1>2, <2>3
    <3>2. op[x].resource \in 1 .. resources => op[x].resource \in 1 .. resources'  BY <1>3
    <3>3. QED  BY <1>9, <2>1, <2>3, <3>1, <3>2 DEF RowHolds
  <2>4. QED  BY <2>2, <2>3
<1>11. ASSUME NEW p \in Journal!Place PROVE BytesHold(p)'
  <2> SUFFICES ASSUME disk[p] # NoOp PROVE BytesHold(p)'  BY DEF BytesHold
  <2>1. /\ disk[p] \in Op /\ op[disk[p]].kind = "content_write"
        /\ p = op[disk[p]].path \/ Taken(op[disk[p]].path)
    BY BytesAre
  <2>2. op'[disk[p]] = op[disk[p]]  BY <1>1, <1>8, <2>1
  <2>3. QED  BY <1>7, <2>1, <2>2 DEF BytesHold
<1>12. \A e \in Op : EntryHolds(e)'  BY <1>3, <1>6, EntriesStand
<1>13. ASSUME NEW x \in Op, NEW y \in Op, x # y PROVE LockHolds(x, y)'
  <2>1. LockHolds(x, y)  BY <1>13 DEF JournalInv
  <2>2. CASE x # o /\ y # o  BY <1>1, <1>2, <2>1, <2>2 DEF LockHolds
  <2>3. CASE x = o \/ y = o  BY <1>1, <1>2, <1>13, <2>3 DEF LockHolds
  <2>4. QED  BY <2>2, <2>3
<1>14. WorkerHolds'
  <2> SUFFICES ASSUME worker.pc # "idle" PROVE WorkerHolds'  BY DEF WorkerHolds
  <2>1. worker.op \in Op /\ op[worker.op].kind # "none" /\ WorkerHolds
    BY WorkerRow DEF JournalInv
  <2>2. op'[worker.op] = op[worker.op] /\ request'[worker.op] = request[worker.op]
    BY <1>1, <1>2, <2>1
  <2>3. Gone(worker.op) => Gone(worker.op)'
    BY <1>7, <2>2 DEF Gone
  <2>4. QED  BY <2>1, <2>2, <2>3 DEF WorkerHolds
<1>15. ASSUME NEW i \in Journal!Resource
       PROVE  (resource[i].revision = Cardinality(Counted(i)))'
  <2>1. Counted(i)' = Counted(i)
    BY <1>1 DEF Counted
  <2>2. resource[i].revision = Cardinality(Counted(i))  BY DEF JournalInv
  <2>3. CASE resource'[i] = resource[i]  BY <2>1, <2>2, <2>3
  <2>4. CASE resource'[i] # resource[i]
    <3>1. i = resources + 1 /\ \E s, q : resource'[i] = Journal!New(s, q)
      <4>1. PICK s, q : resource' = [resource EXCEPT ![resources + 1] = Journal!New(s, q)]
        BY <2>4
      <4>2. resource \in [Journal!Resource -> Journal!ResourceRow]
        BY DEF JournalInv, Journal!TypeOK
      <4>3. i = resources + 1  BY <2>4, <4>1, <4>2
      <4>4. resource'[i] = Journal!New(s, q)  BY <4>1, <4>2, <4>3
      <4>5. QED  BY <4>3, <4>4
    <3>2. resource'[i].revision = 0  BY <3>1 DEF Journal!New, Journal!NoResource
    <3>3. \A x \in Op : op[x].kind = "content_write" => op[x].resource \in 1 .. resources
      BY DEF JournalInv, RowHolds
    <3>4. i \notin 1 .. resources  BY <1>3, <3>1
    <3>5. Counted(i) = {}  BY <3>3, <3>4 DEF Counted
    <3>6. Cardinality({}) = 0  BY FS_EmptySet
    <3>7. QED  BY <2>1, <3>2, <3>5, <3>6
  <2>5. QED  BY <2>3, <2>4
<1>16. KnownHolds'
  <2>1. resource \in [Journal!Resource -> Journal!ResourceRow] /\ KnownHolds
    BY DEF JournalInv, Journal!TypeOK
  <2>2. ASSUME NEW i \in Journal!Resource, i # resources + 1
        PROVE  resource'[i] = resource[i]
    <3>1. CASE UNCHANGED <<resource, resources>>  BY <3>1
    <3>2. CASE ~UNCHANGED <<resource, resources>>
      <4>1. PICK s, q : resource' = [resource EXCEPT ![resources + 1] = Journal!New(s, q)]
        BY <3>2
      <4>2. QED  BY <2>1, <2>2, <4>1
    <3>3. QED  BY <3>1, <3>2
  <2>3. resource' # resource => resources' = resources + 1  OBVIOUS
  <2>4. ASSUME NEW i \in Journal!Resource, resource'[i].state # "none" PROVE i <= resources'
    <3>1. CASE resource'[i] = resource[i]
      <4>1. i <= resources  BY <2>1, <2>4, <3>1 DEF KnownHolds
      <4>2. QED  BY <1>3, <4>1 DEF Journal!Resource
    <3>2. CASE resource'[i] # resource[i]
      <4>1. i = resources + 1 /\ resources' = resources + 1  BY <2>2, <2>3, <3>2
      <4>2. QED  BY <1>3, <4>1
    <3>3. QED  BY <3>1, <3>2
  <2>5. QED  BY <2>4 DEF KnownHolds
<1>17. QED  BY <1>6, <1>10, <1>11, <1>12, <1>13, <1>14, <1>15, <1>16 DEF JournalInv

\* An identity that is in use has its number.
LEMMA ActiveIsKnown ==
  ASSUME JournalInv, NEW p, NEW i \in Journal!ActiveAt(p)
  PROVE  i \in 1 .. resources
<1>1. i \in Journal!Resource /\ i <= resources /\ resources \in 0 .. MaxResources
  BY DEF JournalInv, Journal!TypeOK, KnownHolds, Journal!ActiveAt
<1>2. QED  BY <1>1, JournalAssumed DEF Journal!Resource

\* A row as it is prepared, and what its preparation still sets in it.
LEMMA FreshRow ==
  ASSUME NEW kind \in {"content_write", "move", "trash", "restore", "purge"}, NEW p \in Path
  PROVE  /\ Journal!Row(kind, p) \in Journal!OpRow
         /\ Journal!Row(kind, p).kind = kind /\ Journal!Row(kind, p).path = p
         /\ Journal!Row(kind, p).state = "prepared" /\ Journal!Row(kind, p).expected = NoOp
         /\ Journal!Row(kind, p).dest = NoPath
<1>1. Journal!NoRow \in Journal!OpRow /\ Journal!NoRow.expected = NoOp
      /\ Journal!NoRow.dest = NoPath
  <2>1. 0 \in 0 .. MaxResources  BY JournalAssumed
  <2>2. QED  BY <2>1 DEF Journal!NoRow, Journal!OpRow
<1>2. ASSUME NEW r \in Journal!OpRow
      PROVE  [r EXCEPT !.kind = kind, !.state = "prepared", !.path = p] \in Journal!OpRow
  <2>1. [r EXCEPT !.kind = kind] \in Journal!OpRow  BY DEF Journal!OpRow
  <2>2. [r EXCEPT !.kind = kind, !.state = "prepared"] \in Journal!OpRow
    BY <2>1 DEF Journal!OpRow
  <2>3. QED  BY <2>2 DEF Journal!OpRow
<1>3. ASSUME NEW r \in Journal!OpRow, NEW new,
             new = [r EXCEPT !.kind = kind, !.state = "prepared", !.path = p]
      PROVE  /\ new.kind = kind /\ new.path = p /\ new.state = "prepared"
             /\ new.expected = r.expected /\ new.dest = r.dest
  BY <1>3 DEF Journal!OpRow
<1>4. Journal!Row(kind, p)
        = [Journal!NoRow EXCEPT !.kind = kind, !.state = "prepared", !.path = p]
  BY DEF Journal!Row
<1>5. QED  BY <1>1, <1>2, <1>3, <1>4

LEMMA RowIsFilled ==
  ASSUME NEW r \in Journal!OpRow, NEW new,
         \/ \E want \in Op \cup {NoOp}, over \in BOOLEAN :
              new = [r EXCEPT !.expected = want, !.overwrite = over]
         \/ \E e \in Op, i \in 0 .. MaxResources : new = [r EXCEPT !.entry = e, !.resource = i]
  PROVE  /\ new \in Journal!OpRow
         /\ new.kind = r.kind /\ new.path = r.path /\ new.state = r.state /\ new.dest = r.dest
<1>1. ASSUME NEW want \in Op \cup {NoOp}, NEW over \in BOOLEAN,
             new = [r EXCEPT !.expected = want, !.overwrite = over]
      PROVE  /\ new \in Journal!OpRow
             /\ new.kind = r.kind /\ new.path = r.path /\ new.state = r.state /\ new.dest = r.dest
  <2>1. [r EXCEPT !.expected = want] \in Journal!OpRow  BY DEF Journal!OpRow
  <2>2. new \in Journal!OpRow
    BY <1>1, <2>1 DEF Journal!OpRow
  <2>3. new.kind = r.kind /\ new.path = r.path /\ new.state = r.state /\ new.dest = r.dest
    BY <1>1 DEF Journal!OpRow
  <2>4. QED  BY <2>2, <2>3
<1>2. ASSUME NEW e \in Op, NEW i \in 0 .. MaxResources, new = [r EXCEPT !.entry = e, !.resource = i]
      PROVE  /\ new \in Journal!OpRow
             /\ new.kind = r.kind /\ new.path = r.path /\ new.state = r.state /\ new.dest = r.dest
  <2>1. [r EXCEPT !.entry = e] \in Journal!OpRow  BY DEF Journal!OpRow
  <2>2. new \in Journal!OpRow
    BY <1>2, <2>1 DEF Journal!OpRow
  <2>3. new.kind = r.kind /\ new.path = r.path /\ new.state = r.state /\ new.dest = r.dest
    BY <1>2 DEF Journal!OpRow
  <2>4. QED  BY <2>2, <2>3
<1>3. QED  BY <1>1, <1>2

\* The preparations, one transaction each.
LEMMA PrepareSteps ==
  ASSUME JournalInv, NEW o \in Op,
         \/ \E p \in Path : \/ Journal!PrepareContent(o, p) \/ Journal!PrepareTrash(o, p)
                            \/ \E q \in Path : Journal!PrepareMove(o, p, q)
         \/ \E e \in Op : \/ Journal!PrepareFromTrash(o, "restore", e)
                          \/ Journal!PrepareFromTrash(o, "purge", e)
  PROVE  JournalInv'
<1>1. /\ resources \in 0 .. MaxResources /\ MaxResources \in Nat
      /\ request \in [Op -> {"none", "changing", "marking", "projecting", "failing"}]
      /\ \A x \in Op : op[x].kind = "none" => request[x] = "none"
  BY JournalAssumed DEF JournalInv, Journal!TypeOK, RowHolds
<1>2. ASSUME NEW rec \in Journal!OpRow, op[o].kind = "none",
             rec.kind \in {"content_write", "move", "trash"}, rec.state = "prepared",
             rec.path \in Path, rec.expected # o, rec.kind = "move" => rec.dest \in Path,
             Journal!Unlocked(rec.kind, rec.path),
             NEW s \in {"reconciling", "active"}, NEW q \in Path \cup {NoPath},
             Journal!WithResource(o, rec, s, q)
      PROVE  JournalInv'
  <2>1. PICK i \in Journal!Resource :
          /\ Journal!Prepare(o, [rec EXCEPT !.resource = i])
          /\ \/ /\ i \in Journal!ActiveAt(rec.path) /\ UNCHANGED <<resource, resources>>
             \/ /\ resources < MaxResources /\ resources' = resources + 1 /\ i = resources + 1
                /\ resource' = [resource EXCEPT ![resources + 1] = Journal!New(s, q)]
    <3>1. CASE \E i \in Journal!ActiveAt(rec.path) : Journal!Prepare(o, [rec EXCEPT !.resource = i])
      <4>1. \A i \in Journal!ActiveAt(rec.path) : i \in Journal!Resource
        BY DEF Journal!ActiveAt
      <4>2. UNCHANGED <<resource, resources>>  BY <1>2, <3>1 DEF Journal!WithResource
      <4>3. QED  BY <3>1, <4>1, <4>2
    <3>2. CASE ~\E i \in Journal!ActiveAt(rec.path) : Journal!Prepare(o, [rec EXCEPT !.resource = i])
      <4>1. /\ resources < MaxResources /\ resources' = resources + 1
            /\ resource' = [resource EXCEPT ![resources + 1] = Journal!New(s, q)]
            /\ Journal!Prepare(o, [rec EXCEPT !.resource = resources + 1])
        BY <1>2, <3>2 DEF Journal!WithResource
      <4>2. resources + 1 \in Journal!Resource  BY <1>1, <4>1 DEF Journal!Resource
      <4>3. QED  BY <4>1, <4>2
    <3>3. QED  BY <3>1, <3>2
  <2> DEFINE new == [rec EXCEPT !.resource = i]
  <2>2. new \in Journal!OpRow  BY <1>1 DEF Journal!OpRow, Journal!Resource
  <2>3. /\ new.kind = rec.kind /\ new.path = rec.path /\ new.resource = i
        /\ new.expected = rec.expected /\ new.dest = rec.dest /\ new.state = "prepared"
    BY <1>2 DEF Journal!OpRow
  <2>4. /\ op' = [op EXCEPT ![o] = new] /\ request' = [request EXCEPT ![o] = "changing"]
        /\ UNCHANGED <<disk, entry, worker, budget>>
    BY <2>1 DEF Journal!Prepare
  <2> HIDE DEF new
  <2>5. i \in 1 .. resources'  BY <1>1, <2>1, ActiveIsKnown
  <2>6. \A x \in Op : request[x] # "none" =>
           new.kind = "content_write" /\ op[x].kind = "content_write" /\ op[x].path # new.path
    BY <1>2, <2>3 DEF Journal!Unlocked
  <2>7. QED  BY <1>2, <2>1, <2>2, <2>3, <2>4, <2>5, <2>6, NewRowStep
<1>3. ASSUME NEW p \in Path, Journal!PrepareContent(o, p) PROVE JournalInv'
  <2>1. PICK want \in {NoOp, disk[p]}, over \in BOOLEAN :
          Journal!WithResource(o, [Journal!Row("content_write", p) EXCEPT !.expected = want,
                                     !.overwrite = over], "reconciling", NoPath)
    BY <1>3 DEF Journal!PrepareContent
  <2> DEFINE rec == [Journal!Row("content_write", p) EXCEPT !.expected = want, !.overwrite = over]
  <2>2. want \in Op \cup {NoOp}  BY DEF JournalInv, Journal!TypeOK, Journal!Place
  <2>3. rec \in Journal!OpRow /\ rec.kind = "content_write" /\ rec.path = p
        /\ rec.state = "prepared" /\ rec.expected = want
    <3>1. Journal!Row("content_write", p) \in Journal!OpRow
          /\ Journal!Row("content_write", p).kind = "content_write"
          /\ Journal!Row("content_write", p).path = p
          /\ Journal!Row("content_write", p).state = "prepared"
      BY FreshRow
    <3> DEFINE r == Journal!Row("content_write", p)
    <3>2. rec = [r EXCEPT !.expected = want, !.overwrite = over]  OBVIOUS
    <3>3. r \in Journal!OpRow /\ r.kind = "content_write" /\ r.path = p /\ r.state = "prepared"
      BY <3>1
    <3> HIDE DEF r, rec
    <3>4. rec \in Journal!OpRow /\ rec.kind = r.kind /\ rec.path = r.path /\ rec.state = r.state
      BY <2>2, <3>2, <3>3, RowIsFilled
    <3>5. rec.expected = want  BY <3>2, <3>3 DEF Journal!OpRow
    <3>6. QED  BY <3>3, <3>4, <3>5
  <2>4. op[o].kind = "none" /\ Journal!Unlocked("content_write", p)
    BY <1>3 DEF Journal!PrepareContent
  <2>5. want # o
    BY <2>4, BytesAre, JournalAssumed DEF Journal!Place
  <2> HIDE DEF rec
  <2>6. Journal!WithResource(o, rec, "reconciling", NoPath)  BY <2>1 DEF rec
  <2>7. QED  BY <1>2, <2>3, <2>4, <2>5, <2>6
<1>4. ASSUME NEW kind \in {"move", "trash"}, NEW p \in Path, NEW d \in Path \cup {NoPath},
             kind = "move" => d \in Path, op[o].kind = "none", Journal!Unlocked(kind, p),
             Journal!WithResource(o, [Journal!Row(kind, p) EXCEPT !.dest = d], "active", p)
      PROVE  JournalInv'
  <2> DEFINE rec == [Journal!Row(kind, p) EXCEPT !.dest = d]
  <2>1. rec \in Journal!OpRow /\ rec.kind = kind /\ rec.path = p /\ rec.dest = d
        /\ rec.state = "prepared" /\ rec.expected = NoOp
    <3> DEFINE r == Journal!Row(kind, p)
    <3>1. r \in Journal!OpRow /\ r.kind = kind /\ r.path = p /\ r.state = "prepared"
          /\ r.expected = NoOp
      BY FreshRow
    <3>2. rec = [r EXCEPT !.dest = d]  OBVIOUS
    <3> HIDE DEF r, rec
    <3>3. rec \in Journal!OpRow  BY <3>1, <3>2 DEF Journal!OpRow
    <3>4. rec.kind = r.kind /\ rec.path = r.path /\ rec.state = r.state
          /\ rec.expected = r.expected /\ rec.dest = d
      BY <3>1, <3>2 DEF Journal!OpRow
    <3>5. QED  BY <3>1, <3>3, <3>4
  <2>2. NoOp # o  BY JournalAssumed
  <2>3. Journal!WithResource(o, rec, "active", p)  BY <1>4
  <2> HIDE DEF rec
  <2>4. QED  BY <1>2, <1>4, <2>1, <2>2, <2>3
<1>5. ASSUME NEW p \in Path, Journal!PrepareTrash(o, p) PROVE JournalInv'
  <2>1. Journal!Row("trash", p) = [Journal!Row("trash", p) EXCEPT !.dest = NoPath]
    <3>1. Journal!Row("trash", p) \in Journal!OpRow /\ Journal!Row("trash", p).dest = NoPath
      BY FreshRow
    <3>2. ASSUME NEW r \in Journal!OpRow, r.dest = NoPath PROVE r = [r EXCEPT !.dest = NoPath]
      BY <3>2 DEF Journal!OpRow
    <3>3. QED  BY <3>1, <3>2
  <2>2. QED  BY <1>4, <1>5, <2>1 DEF Journal!PrepareTrash
<1>6. ASSUME NEW p \in Path, NEW q \in Path, Journal!PrepareMove(o, p, q) PROVE JournalInv'
  BY <1>4, <1>6 DEF Journal!PrepareMove
<1>7. ASSUME NEW kind \in {"restore", "purge"}, NEW e \in Op, Journal!PrepareFromTrash(o, kind, e)
      PROVE  JournalInv'
  <2> DEFINE new == [Journal!Row(kind, entry[e].path) EXCEPT !.entry = e,
                                                             !.resource = entry[e].resource]
  <2>1. /\ op[o].kind = "none" /\ Journal!Unlocked(kind, NoPath) /\ entry[e].status # "none"
        /\ op' = [op EXCEPT ![o] = new] /\ UNCHANGED <<disk, resource, resources, entry, worker, budget>>
    BY <1>7 DEF Journal!PrepareFromTrash
  <2>2. PICK req \in {"none", "changing"} : request' = [request EXCEPT ![o] = req]
    BY <1>7 DEF Journal!PrepareFromTrash
  <2>3. entry[e].resource \in 1 .. resources /\ entry[e].path \in Path
    BY <2>1 DEF JournalInv, EntryHolds
  <2>4. entry[e].resource \in 0 .. MaxResources  BY <1>1, <2>3
  <2>5. new \in Journal!OpRow /\ new.kind = kind /\ new.path = entry[e].path
        /\ new.state = "prepared" /\ new.expected = NoOp /\ new.entry = e
        /\ new.resource = entry[e].resource
    <3> DEFINE r == Journal!Row(kind, entry[e].path)
    <3>1. r \in Journal!OpRow /\ r.kind = kind /\ r.path = entry[e].path
          /\ r.state = "prepared" /\ r.expected = NoOp
      BY <2>3, FreshRow
    <3> HIDE DEF r
    <3>2. new = [r EXCEPT !.entry = e, !.resource = entry[e].resource]  BY DEF r
    <3> HIDE DEF new
    <3>3. /\ new \in Journal!OpRow /\ new.kind = r.kind /\ new.path = r.path
          /\ new.state = r.state
      BY <2>4, <3>1, <3>2, RowIsFilled
    <3>4. /\ new.entry = e /\ new.resource = entry[e].resource
          /\ new.expected = r.expected
      BY <3>1, <3>2 DEF Journal!OpRow
    <3>5. QED  BY <3>1, <3>3, <3>4
  <2> HIDE DEF new
  <2>6. \A x \in Op : request[x] = "none"
    BY <2>1 DEF Journal!Unlocked
  <2>7. NoOp # o  BY JournalAssumed
  <2>8. QED  BY <2>1, <2>2, <2>3, <2>5, <2>6, <2>7, NewRowStep
<1>8. QED  BY <1>3, <1>5, <1>6, <1>7

----------------------------------------------------------------------------
LEMMA JournalInitially == Journal!Init => JournalInv
<1> SUFFICES ASSUME Journal!Init PROVE JournalInv  OBVIOUS
<1>1. MaxResources \in Nat /\ MaxFaults \in Nat /\ MaxRetries \in Nat
  BY JournalAssumed
<1>2. 0 \in 0 .. MaxResources /\ 0 \in 0 .. MaxFaults /\ 0 \in 0 .. MaxRetries
  BY <1>1
<1>3. Journal!NoResource \in Journal!ResourceRow
  BY <1>2 DEF Journal!NoResource, Journal!ResourceRow
<1>4. Journal!NoRow \in Journal!OpRow
  BY <1>2 DEF Journal!NoRow, Journal!OpRow
<1>5. [status |-> "none", resource |-> 0, path |-> NoPath] \in Journal!EntryRow
  BY <1>2 DEF Journal!EntryRow
<1>6. Journal!Resting \in Journal!Worker
  BY DEF Journal!Resting, Journal!Worker
<1>7. budget \in [faults : 0 .. MaxFaults, slow : 0 .. 0, retries : 0 .. MaxRetries]
  BY <1>2 DEF Journal!Init
<1>8. Journal!TypeOK
  BY <1>2, <1>3, <1>4, <1>5, <1>6, <1>7 DEF Journal!Init, Journal!TypeOK
<1>9. \A o \in Op : op[o] = Journal!NoRow /\ request[o] = "none" /\ entry[o].status = "none"
  BY DEF Journal!Init
<1>10. /\ Journal!NoRow.kind = "none" /\ Journal!NoRow.state = "none"
       /\ Journal!NoRow.expected = NoOp
  BY DEF Journal!NoRow
<1>11. KnownHolds
  BY DEF Journal!Init, Journal!NoResource, KnownHolds
<1>12. ASSUME NEW o \in Op PROVE RowHolds(o)
  BY <1>9, <1>10, JournalAssumed DEF RowHolds
<1>13. \A p \in Journal!Place : BytesHold(p)
  BY DEF BytesHold, Journal!Init
<1>14. \A e \in Op : EntryHolds(e)  BY <1>9 DEF EntryHolds
<1>15. \A o, x \in Op : o # x => LockHolds(o, x)  BY <1>9 DEF LockHolds
<1>16. WorkerHolds  BY DEF Journal!Init, Journal!Resting, WorkerHolds
<1>17. ASSUME NEW i \in Journal!Resource PROVE resource[i].revision = Cardinality(Counted(i))
  <2>1. Counted(i) = {}  BY <1>9, <1>10 DEF Counted
  <2>2. resource[i].revision = 0  BY DEF Journal!Init, Journal!NoResource
  <2>3. Cardinality({}) = 0  BY FS_EmptySet
  <2>4. QED  BY <2>1, <2>2, <2>3
<1>18. QED
  BY <1>8, <1>11, <1>12, <1>13, <1>14, <1>15, <1>16, <1>17 DEF JournalInv

LEMMA JournalInductive == JournalInv /\ Journal!Next => JournalInv'
<1> SUFFICES ASSUME JournalInv, Journal!Next PROVE JournalInv'  OBVIOUS
<1>1. ASSUME NEW o \in Op,
             \/ \E p \in Path : \/ Journal!PrepareContent(o, p) \/ Journal!PrepareTrash(o, p)
                                \/ \E q \in Path : Journal!PrepareMove(o, p, q)
             \/ \E e \in Op : \/ Journal!PrepareFromTrash(o, "restore", e)
                              \/ Journal!PrepareFromTrash(o, "purge", e)
      PROVE  JournalInv'
  BY <1>1, PrepareSteps
<1>2. ASSUME NEW o \in Op, Journal!RequestStep(o) PROVE JournalInv'
  BY <1>2, ReplaceFileStep, LifecycleSteps, RowRequestSteps DEF Journal!RequestStep
<1>3. ASSUME NEW o \in Op, Journal!RetryRequest(o) PROVE JournalInv'
  BY <1>3, RetryStep
<1>4. ASSUME NEW o \in Op, Journal!ClaimReconciliation(o) PROVE JournalInv'
  BY <1>4, ClaimStep
<1>5. ASSUME NEW o \in Op, Journal!DropRequest(o) PROVE JournalInv'
  BY <1>5, RequestEndsStep DEF Journal!DropRequest
<1>6. CASE Journal!Crash
  <2>1. /\ UNCHANGED <<disk, resource, resources, op, entry>> /\ Journal!Fault
        /\ request' = [o \in Op |-> "none"] /\ worker' = Journal!Resting
    BY <1>6 DEF Journal!Crash
  <2>2. QED  BY <2>1, RequestEndsStep
<1>7. CASE Journal!Reconcile
  BY <1>7, CheckDiskStep, WorkerSteps DEF Journal!Reconcile
<1>8. QED
  BY <1>1, <1>2, <1>3, <1>4, <1>5, <1>6, <1>7 DEF Journal!Next

\* What the invariant says of the revisions and of conflicts.
LEMMA JournalTells == JournalInv => WritesAreTold
<1> SUFFICES ASSUME JournalInv PROVE WritesAreTold  OBVIOUS
<1>1. \A i \in Journal!Resource : resource[i].revision = Cardinality({o \in Op :
        op[o].kind = "content_write" /\ op[o].state = "completed" /\ op[o].resource = i})
  BY DEF JournalInv, Counted
<1>2. ASSUME NEW o \in Op, op[o].state = "conflict", ~Taken(op[o].path),
             NEW p \in Journal!Place, disk[p] = o
      PROVE  FALSE
  <2>1. disk[p] # NoOp  BY <1>2, JournalAssumed
  <2>2. p = op[o].path  BY <1>2, <2>1, BytesAre
  <2>3. Gone(o)  BY <1>2 DEF JournalInv, RowHolds
  <2>4. QED  BY <1>2, <2>2, <2>3 DEF Gone
<1>3. QED  BY <1>1, <1>2 DEF WritesAreTold

\* Nothing of the journal moves.
LEMMA JournalStutters == ASSUME JournalInv, UNCHANGED journal PROVE JournalInv'
<1>1. UNCHANGED <<disk, resource, resources, op, entry>> /\ budget' = budget
      /\ request' = request /\ worker' = worker
  BY DEF journal
<1>2. \A x : Taken(x)' <=> Taken(x)  BY <1>1 DEF Taken
<1>3. QED
  BY <1>1, <1>2 DEF JournalInv, Journal!TypeOK, KnownHolds, RowHolds, BytesHold, EntryHolds,
    LockHolds, WorkerHolds, Counted, Gone

\* The revision of a file is the number of writes that completed on it, whichever
\* of the request and the worker finished them, and a write that is reported as a conflict left its bytes nowhere but where a move or a
\* trash operation took them (the journal of resource_identity.rs, its workers
\* and the drive's requests, for every crash and every dropped request).
THEOREM WritesAreCounted == SceneSpec => []WritesAreTold
<1>1. InitScene => JournalInv  BY JournalInitially DEF InitScene
<1>2. ASSUME JournalInv, [NextScene]_all PROVE JournalInv'
  BY <1>2, OneSceneGoesOn, JournalInductive, JournalStutters
<1>3. QED  BY <1>1, <1>2, JournalTells, PTL DEF SceneSpec, all

----------------------------------------------------------------------------
(* Types: the mirror                                                       *)

\* Every operation that has no job yet may get one, and there are no more of
\* both than operations; what a loop sends is a version of the file.
MirrorInv ==
  /\ TypeOK
  /\ queued["upload"] + queued["delete"] + jobs + lost = ops
  /\ \A p \in Process : proc[p].body \in 0 .. MaxJobs

LEMMA MirrorAssumed == MaxJobs \in Nat /\ MaxFaults \in Nat /\ MaxLost \in Nat
BY DriveSyncAssumption DEF DriveSyncAssumption

LEMMA RestingIsTyped == Resting \in Loop /\ Resting.body = 0 /\ NewRow \in Row
<1>1. [j \in Job |-> 0] \in [Job -> Nat]  OBVIOUS
<1>2. QED  BY <1>1 DEF Resting, Loop, NewRow, Row

LEMMA MirrorInitially == Init => MirrorInv
<1> SUFFICES ASSUME Init PROVE MirrorInv  OBVIOUS
<1>1. TypeOK  BY RestingIsTyped, MirrorAssumed DEF Init, TypeOK
<1>2. queued["upload"] + queued["delete"] + jobs + lost = ops  BY DEF Init
<1>3. QED  BY <1>1, <1>2, RestingIsTyped, MirrorAssumed DEF Init, MirrorInv

\* Operations and their jobs.
LEMMA OperationsAreTyped ==
  ASSUME MirrorInv,
         Write \/ Trash \/ \E o \in {"upload", "delete"} : EnqueueSyncJob(o) \/ LoseEnqueue(o)
  PROVE  MirrorInv'
<1>1. /\ ops \in 0 .. MaxJobs /\ jobs \in 0 .. MaxJobs /\ lost \in 0 .. MaxLost
      /\ MaxJobs \in Nat /\ MaxLost \in Nat
      /\ queued \in [{"upload", "delete"} -> Nat]
      /\ queued["upload"] \in Nat /\ queued["delete"] \in Nat
      /\ queued["upload"] + queued["delete"] + jobs + lost = ops
  BY MirrorAssumed DEF MirrorInv, TypeOK
<1>2. ASSUME NEW o \in {"upload", "delete"}, NEW version \in 0 .. MaxJobs, Operate(o, version)
      PROVE  MirrorInv'
  <2>1. /\ ops' = ops + 1 /\ ops < MaxJobs /\ local' = version
        /\ queued' = [queued EXCEPT ![o] = queued[o] + 1]
        /\ UNCHANGED <<mirror, jobs, job, proc, faults, lost>>
    BY <1>2 DEF Operate
  <2>2. /\ queued' \in [{"upload", "delete"} -> Nat]
        /\ queued'["upload"] + queued'["delete"] = queued["upload"] + queued["delete"] + 1
    BY <1>1, <2>1
  <2>3. QED  BY <1>1, <2>1, <2>2 DEF MirrorInv, TypeOK
<1>3. CASE Write \/ Trash
  <2>1. (Write => Operate("upload", ops + 1) /\ ops < MaxJobs) /\ (Trash => Operate("delete", 0))
    BY DEF Write, Trash, Operate
  <2>2. 0 \in 0 .. MaxJobs /\ (ops < MaxJobs => ops + 1 \in 0 .. MaxJobs)  BY <1>1
  <2>3. QED  BY <1>2, <1>3, <2>1, <2>2
<1>4. ASSUME NEW o \in {"upload", "delete"}, EnqueueSyncJob(o) \/ LoseEnqueue(o) PROVE MirrorInv'
  <2>1. queued[o] > 0 /\ queued' = [queued EXCEPT ![o] = queued[o] - 1]
        /\ UNCHANGED <<local, mirror, ops, proc, faults>>
    BY <1>4 DEF EnqueueSyncJob, LoseEnqueue
  <2>2. /\ queued' \in [{"upload", "delete"} -> Nat]
        /\ queued'["upload"] + queued'["delete"] + 1 = queued["upload"] + queued["delete"]
    BY <1>1, <2>1
  <2>3. CASE EnqueueSyncJob(o)
    <3>1. /\ jobs' = jobs + 1 /\ lost' = lost
          /\ job' = [job EXCEPT ![jobs + 1] = [NewRow EXCEPT !.status = "pending", !.op = o]]
      BY <2>3 DEF EnqueueSyncJob
    <3>2. [NewRow EXCEPT !.status = "pending", !.op = o] \in Row
      BY DEF NewRow, Row
    <3>3. job' \in [Job -> Row]  BY <3>1, <3>2 DEF MirrorInv, TypeOK
    <3>4. jobs' \in 0 .. MaxJobs
      <4>1. queued'["upload"] \in Nat /\ queued'["delete"] \in Nat  BY <2>2
      <4>2. QED  BY <1>1, <2>2, <3>1, <4>1
    <3>5. QED  BY <1>1, <2>1, <2>2, <3>1, <3>3, <3>4 DEF MirrorInv, TypeOK
  <2>4. CASE LoseEnqueue(o)
    <3>1. lost' = lost + 1 /\ lost < MaxLost /\ UNCHANGED <<jobs, job>>
      BY <2>4 DEF LoseEnqueue
    <3>2. QED  BY <1>1, <2>1, <2>2, <3>1 DEF MirrorInv, TypeOK
  <2>5. QED  BY <1>4, <2>3, <2>4
<1>5. QED  BY <1>3, <1>4

\* A row goes on, and a loop with it.
LEMMA MirrorGoesOn ==
  ASSUME MirrorInv, UNCHANGED <<local, queued, ops, jobs, lost>>,
         mirror' \in 0 .. MaxJobs, job' \in [Job -> Row], faults' \in 0 .. MaxFaults,
         proc' = proc \/ \E p \in Process, new \in Loop :
                          new.body \in 0 .. MaxJobs /\ proc' = [proc EXCEPT ![p] = new]
  PROVE  MirrorInv'
<1>1. proc \in [Process -> Loop]  BY DEF MirrorInv, TypeOK
<1>2. proc' \in [Process -> Loop]  BY <1>1
<1>3. \A p \in Process : proc'[p].body \in 0 .. MaxJobs  BY <1>1 DEF MirrorInv
<1>4. QED  BY <1>2, <1>3 DEF MirrorInv, TypeOK

\* Rows of jobs and what the loops hold.
LEMMA JobRowIsSet ==
  ASSUME NEW r \in Row
  PROVE  /\ \A s \in {"none", "pending", "running", "done", "failed"} : [r EXCEPT !.status = s] \in Row
         /\ [r EXCEPT !.due = TRUE] \in Row /\ [r EXCEPT !.expired = TRUE] \in Row
         /\ [r EXCEPT !.status = "pending", !.due = FALSE] \in Row
         /\ [r EXCEPT !.status = "running", !.attempts = r.attempts + 1, !.expired = FALSE] \in Row
         /\ r.attempts + 1 \in Nat
<1>1. ASSUME NEW s \in {"none", "pending", "running", "done", "failed"}
      PROVE  [r EXCEPT !.status = s] \in Row
  BY DEF Row
<1>2. ASSUME NEW x \in Row, NEW b \in BOOLEAN
      PROVE  [x EXCEPT !.due = b] \in Row /\ [x EXCEPT !.expired = b] \in Row
  BY DEF Row
<1>3. r.attempts + 1 \in Nat  BY DEF Row
<1>4. ASSUME NEW x \in Row PROVE [x EXCEPT !.attempts = r.attempts + 1] \in Row
  BY <1>3 DEF Row
<1>5. [r EXCEPT !.status = "pending", !.due = FALSE] \in Row
  <2>1. [r EXCEPT !.status = "pending"] \in Row  BY <1>1
  <2>2. QED  BY <1>2, <2>1
<1>6. [r EXCEPT !.status = "running", !.attempts = r.attempts + 1, !.expired = FALSE] \in Row
  <2>1. [r EXCEPT !.status = "running"] \in Row  BY <1>1
  <2>2. [r EXCEPT !.status = "running", !.attempts = r.attempts + 1] \in Row  BY <1>4, <2>1
  <2>3. QED  BY <1>2, <2>2
<1>7. QED  BY <1>1, <1>2, <1>3, <1>5, <1>6

LEMMA LoopIsSet ==
  ASSUME NEW l \in Loop
  PROVE  /\ \A set \in SUBSET Job : [l EXCEPT !.claimed = set] \in Loop
         /\ \A j \in Job : [l EXCEPT !.current = j] \in Loop
         /\ \A f \in [Job -> Nat] : [l EXCEPT !.attempt = f] \in Loop
         /\ \A pc \in {"choosing", "sending", "marking"} : [l EXCEPT !.pc = pc] \in Loop
         /\ \A v \in Nat : [l EXCEPT !.body = v] \in Loop
         /\ \A b \in BOOLEAN : [l EXCEPT !.ok = b] \in Loop
<1>1. ASSUME NEW set \in SUBSET Job PROVE [l EXCEPT !.claimed = set] \in Loop  BY DEF Loop
<1>2. ASSUME NEW j \in Job PROVE [l EXCEPT !.current = j] \in Loop  BY DEF Loop
<1>3. ASSUME NEW f \in [Job -> Nat] PROVE [l EXCEPT !.attempt = f] \in Loop  BY DEF Loop
<1>4. ASSUME NEW pc \in {"choosing", "sending", "marking"} PROVE [l EXCEPT !.pc = pc] \in Loop
  BY DEF Loop
<1>5. ASSUME NEW v \in Nat PROVE [l EXCEPT !.body = v] \in Loop  BY DEF Loop
<1>6. ASSUME NEW b \in BOOLEAN PROVE [l EXCEPT !.ok = b] \in Loop  BY DEF Loop
<1>7. QED  BY <1>1, <1>2, <1>3, <1>4, <1>5, <1>6

LEMMA LoopsAreTyped ==
  ASSUME MirrorInv, NEW p \in Process, LoopStep(p) \/ Abandon(p)
  PROVE  MirrorInv'
<1>1. /\ proc[p] \in Loop /\ proc[p].body \in 0 .. MaxJobs /\ job \in [Job -> Row]
      /\ mirror \in 0 .. MaxJobs /\ local \in 0 .. MaxJobs /\ faults \in 0 .. MaxFaults
      /\ MaxJobs \in Nat /\ MaxFaults \in Nat /\ 0 \in 0 .. MaxJobs
      /\ proc[p].claimed \in SUBSET Job /\ proc[p].attempt \in [Job -> Nat]
  BY MirrorAssumed DEF MirrorInv, TypeOK, Loop
<1>2. Resting \in Loop /\ Resting.body = 0  BY RestingIsTyped
<1>3. CASE ClaimJobs(p)
  <2> DEFINE f == [j \in Job |-> IF j \in Oldest THEN job[j].attempts + 1 ELSE 0]
             a == [Resting EXCEPT !.claimed = Oldest]
             new == [a EXCEPT !.attempt = f]
  <2>1. \A j \in Job : /\ job[j] \in Row /\ job[j].attempts + 1 \in Nat
                       /\ [job[j] EXCEPT !.status = "running", !.attempts = job[j].attempts + 1,
                                         !.expired = FALSE] \in Row
    BY <1>1, JobRowIsSet
  <2>2. Oldest \in SUBSET Job /\ f \in [Job -> Nat]  BY <2>1 DEF Oldest
  <2>3. a \in Loop  BY <1>2, <2>2, LoopIsSet
  <2>4. new \in Loop  BY <2>2, <2>3, LoopIsSet
  <2>5. new.body = 0  BY <1>2 DEF Loop, Resting
  <2>6. proc' = [proc EXCEPT ![p] = new]  BY <1>3 DEF ClaimJobs
  <2>7. job' \in [Job -> Row]  BY <1>3, <2>1 DEF ClaimJobs
  <2>8. UNCHANGED <<local, mirror, queued, ops, jobs, faults, lost>>  BY <1>3 DEF ClaimJobs
  <2>9. new.body \in 0 .. MaxJobs  BY <1>1, <2>5
  <2> HIDE DEF new, a, f
  <2>10. QED  BY <1>1, <2>4, <2>6, <2>7, <2>8, <2>9, MirrorGoesOn
<1>4. CASE PerformJob(p)
  <2>1. PICK j \in proc[p].claimed :
          proc' = [proc EXCEPT ![p] = [proc[p] EXCEPT
             !.claimed = proc[p].claimed \ {j}, !.current = j,
             !.body = IF job[j].op = "upload" THEN local ELSE 0,
             !.ok = FALSE,
             !.pc = IF job[j].op = "upload" /\ local = 0 THEN "marking" ELSE "sending"]]
    BY <1>4 DEF PerformJob
  <2> DEFINE v == IF job[j].op = "upload" THEN local ELSE 0
             pc == IF job[j].op = "upload" /\ local = 0 THEN "marking" ELSE "sending"
             a == [proc[p] EXCEPT !.claimed = proc[p].claimed \ {j}]
             b == [a EXCEPT !.current = j]
             c == [b EXCEPT !.body = v]
             d == [c EXCEPT !.ok = FALSE]
             new == [d EXCEPT !.pc = pc]
  <2>2. j \in Job /\ proc[p].claimed \ {j} \in SUBSET Job /\ v \in 0 .. MaxJobs /\ v \in Nat
        /\ pc \in {"choosing", "sending", "marking"}
    BY <1>1
  <2> HIDE DEF v, pc
  <2>3. a \in Loop  BY <1>1, <2>2, LoopIsSet
  <2>4. b \in Loop  BY <2>2, <2>3, LoopIsSet
  <2>5. c \in Loop  BY <2>2, <2>4, LoopIsSet
  <2>6. d \in Loop  BY <2>5, LoopIsSet
  <2>7. new \in Loop  BY <2>2, <2>6, LoopIsSet
  <2>8. new.body = v
    <3> HIDE DEF b
    <3>1. c.body = v  BY <2>4 DEF Loop
    <3> HIDE DEF c
    <3>2. d.body = c.body  BY <2>5 DEF Loop
    <3> HIDE DEF d
    <3>3. new.body = d.body  BY <2>6 DEF Loop
    <3>4. QED  BY <3>1, <3>2, <3>3
  <2>9. proc' = [proc EXCEPT ![p] = new]  BY <2>1, Zenon DEF v, pc
  <2>10. UNCHANGED <<local, mirror, queued, ops, jobs, job, faults, lost>>  BY <1>4 DEF PerformJob
  <2> HIDE DEF new
  <2>11. QED  BY <1>1, <2>2, <2>7, <2>8, <2>9, <2>10, MirrorGoesOn
<1>5. CASE Send(p)
  <2>1. PICK ok \in BOOLEAN :
          /\ proc' = [proc EXCEPT ![p] = [proc[p] EXCEPT !.pc = "marking", !.ok = ok]]
          /\ mirror' \in {proc[p].body, mirror}
    BY <1>5 DEF Send
  <2> DEFINE a == [proc[p] EXCEPT !.pc = "marking"]
             new == [a EXCEPT !.ok = ok]
  <2>2. a \in Loop  BY <1>1, LoopIsSet
  <2>3. new \in Loop  BY <2>2, LoopIsSet
  <2>4. new.body = proc[p].body  BY <1>1 DEF Loop
  <2>5. proc' = [proc EXCEPT ![p] = new] /\ mirror' \in 0 .. MaxJobs  BY <1>1, <2>1
  <2>6. UNCHANGED <<local, queued, ops, jobs, job, faults, lost>>  BY <1>5 DEF Send
  <2> HIDE DEF new
  <2>7. QED  BY <1>1, <2>3, <2>4, <2>5, <2>6, MirrorGoesOn
<1>6. CASE MarkDone(p) \/ MarkFailed(p)
  <2> DEFINE a == [Resting EXCEPT !.claimed = proc[p].claimed]
             new == [a EXCEPT !.attempt = proc[p].attempt]
  <2>1. a \in Loop  BY <1>1, <1>2, LoopIsSet
  <2>2. new \in Loop  BY <1>1, <2>1, LoopIsSet
  <2>3. new.body = 0  BY <1>2 DEF Loop, Resting
  <2>4. proc' = [proc EXCEPT ![p] = new]  BY <1>6 DEF MarkDone, MarkFailed, NextOfBatch
  <2>5. job' \in [Job -> Row]
    <3>1. \A j \in Job : /\ job[j] \in Row /\ [job[j] EXCEPT !.status = "done"] \in Row
                         /\ [job[j] EXCEPT !.status = "failed"] \in Row
                         /\ [job[j] EXCEPT !.status = "pending", !.due = FALSE] \in Row
      BY <1>1, JobRowIsSet
    <3>2. \/ job' = [job EXCEPT ![proc[p].current] = [@ EXCEPT !.status = "done"]]
          \/ job' = [job EXCEPT ![proc[p].current] = [@ EXCEPT !.status = "failed"]]
          \/ job' = [job EXCEPT ![proc[p].current] = [@ EXCEPT !.status = "pending", !.due = FALSE]]
      BY <1>6 DEF MarkDone, MarkFailed
    <3>3. ASSUME NEW k, NEW row1, job' = [job EXCEPT ![k] = row1], k \in Job => row1 \in Row
          PROVE  job' \in [Job -> Row]
      BY <1>1, <3>3
    <3>4. QED  BY <3>1, <3>2, <3>3
  <2>6. UNCHANGED <<local, mirror, queued, ops, jobs, faults, lost>>
    BY <1>6 DEF MarkDone, MarkFailed
  <2>7. new.body \in 0 .. MaxJobs  BY <1>1, <2>3
  <2> HIDE DEF new, a
  <2>8. QED  BY <1>1, <2>2, <2>4, <2>5, <2>6, <2>7, MirrorGoesOn
<1>7. CASE Abandon(p)
  <2>1. /\ faults' \in 0 .. MaxFaults /\ proc' = [proc EXCEPT ![p] = Resting]
        /\ mirror' \in 0 .. MaxJobs /\ UNCHANGED <<local, queued, ops, jobs, job, lost>>
    BY <1>1, <1>7 DEF Abandon, Fault
  <2>2. Resting.body \in 0 .. MaxJobs /\ job' \in [Job -> Row]  BY <1>1, <1>2, <2>1
  <2>3. QED  BY <1>2, <2>1, <2>2, MirrorGoesOn
<1>8. QED  BY <1>3, <1>4, <1>5, <1>6, <1>7 DEF LoopStep

LEMMA MirrorInductive == MirrorInv /\ Next => MirrorInv'
<1> SUFFICES ASSUME MirrorInv, Next PROVE MirrorInv'  OBVIOUS
<1>1. ASSUME NEW j \in Job, RetryDelayPasses(j) \/ LeaseExpires(j) PROVE MirrorInv'
  <2>1. job[j] \in Row /\ mirror \in 0 .. MaxJobs /\ job \in [Job -> Row]
        /\ faults \in 0 .. MaxFaults /\ MaxFaults \in Nat
    BY MirrorAssumed DEF MirrorInv, TypeOK
  <2>2. \/ job' = [job EXCEPT ![j] = [job[j] EXCEPT !.due = TRUE]]
        \/ job' = [job EXCEPT ![j] = [job[j] EXCEPT !.expired = TRUE]]
    BY <1>1 DEF RetryDelayPasses, LeaseExpires
  <2>3. job' \in [Job -> Row]  BY <2>1, <2>2, JobRowIsSet
  <2>4. faults' \in 0 .. MaxFaults  BY <1>1, <2>1 DEF RetryDelayPasses, LeaseExpires, Fault
  <2>5. UNCHANGED <<local, mirror, queued, ops, jobs, proc, lost>>
    BY <1>1 DEF RetryDelayPasses, LeaseExpires
  <2>6. QED  BY <2>1, <2>3, <2>4, <2>5, MirrorGoesOn
<1>2. QED  BY <1>1, OperationsAreTyped, LoopsAreTyped DEF Next

----------------------------------------------------------------------------
(* Types: the wiki, whatever the operations its scenes allow               *)

\* A request names a node, and one that checks a parent has something to write.
Asked(r) ==
  /\ r \in Wiki!Request
  /\ r.pc # "idle" => r.n \in Node
  /\ r.pc \in {"cycle", "category"} => r.op \in {"create", "update", "move"}

WikiInv == Wiki!TypeOK /\ \A c \in Client : Asked(edit[c])

\* The scene of the tree has one client and one text, of those of the versions.
LEMMA WikiAssumed ==
  /\ NoNode \notin Node /\ MaxVersions \in Nat /\ MaxVersions > 0
  /\ \A c \in {CHOOSE c \in Client : TRUE} : c \in Client
  /\ \A t \in {CHOOSE t \in Text : TRUE} : t \in Text
  /\ (CHOOSE t \in {CHOOSE t \in Text : TRUE} : TRUE) = CHOOSE t \in Text : TRUE
<1>1. Text # {} /\ Client # {}  BY SceneAssumption DEF SceneAssumption
<1>2. NoNode \notin Node /\ MaxVersions \in Nat /\ MaxVersions > 0
  BY SceneAssumption DEF SceneAssumption, Wiki!KnowledgeAssumption
<1>3. (CHOOSE c \in Client : TRUE) \in Client /\ (CHOOSE t \in Text : TRUE) \in Text
  BY <1>1
<1>4. ASSUME NEW x PROVE (CHOOSE t \in {x} : TRUE) = x
  <2>1. \E t \in {x} : TRUE  OBVIOUS
  <2>2. (CHOOSE t \in {x} : TRUE) \in {x}  BY <2>1
  <2>3. QED  BY <2>2
<1>5. QED  BY <1>2, <1>3, <1>4

\* The two scenes begin with the same rows and requests.
LEMMA IdleIsTyped ==
  /\ Wiki!NoRow \in Wiki!Row /\ Asked(Wiki!Idle) /\ Wiki!NoRow.parent = NoNode
  /\ Tree!NoRow = Wiki!NoRow /\ Tree!Idle = Wiki!Idle
<1> DEFINE t == CHOOSE t \in Text : TRUE
<1>1. t \in Text  BY WikiAssumed
<1>2. Wiki!NoRow = [parent |-> NoNode, kind |-> "none", text |-> t]  BY DEF Wiki!NoRow
<1>3. Tree!NoRow = [parent |-> NoNode, kind |-> "none", text |-> t]
  BY WikiAssumed, Zenon DEF Tree!NoRow
<1> HIDE DEF t
<1>4. Wiki!NoRow \in Wiki!Row  BY <1>1, <1>2 DEF Wiki!Row, Wiki!Parent
<1>5. Wiki!Idle \in Wiki!Request /\ Wiki!Idle.pc = "idle"
  BY <1>4 DEF Wiki!Idle, Wiki!Request, Wiki!Parent
<1>6. Tree!Idle = Wiki!Idle  BY <1>2, <1>3 DEF Tree!Idle, Wiki!Idle
<1>7. QED  BY <1>2, <1>3, <1>4, <1>5, <1>6 DEF Asked

LEMMA WikiInitially == Wiki!Init => WikiInv
<1>1. 4 \in Nat /\ 0 \in 0 .. 4 /\ <<>> \in Seq(Wiki!Row)  OBVIOUS
<1>2. QED  BY <1>1, IdleIsTyped DEF Wiki!Init, WikiInv, Wiki!TypeOK, Asked

\* A step of one request.
LEMMA EditGoesOn ==
  ASSUME WikiInv, NEW c \in Client, NEW r, Asked(r), edit' = [edit EXCEPT ![c] = r],
         node' \in [Node -> Wiki!Row], recent' \subseteq Node, edits' \in 0 .. 4,
         DOMAIN versions' = Node, \A n \in Node : versions'[n] \in Seq(Wiki!Row)
  PROVE  WikiInv'
<1>1. edit \in [Client -> Wiki!Request] /\ r \in Wiki!Request
  BY DEF WikiInv, Wiki!TypeOK, Asked
<1>2. edit' \in [Client -> Wiki!Request] /\ \A d \in Client : edit'[d] = IF d = c THEN r ELSE edit[d]
  BY <1>1
<1>3. \A d \in Client : Asked(edit'[d])  BY <1>2 DEF WikiInv
<1>4. QED  BY <1>2, <1>3 DEF WikiInv, Wiki!TypeOK, Asked

\* What is known of the request that takes a step.
LEMMA EditIsKnown ==
  ASSUME WikiInv, NEW c \in Client
  PROVE  /\ Asked(edit[c]) /\ edit[c] \in Wiki!Request /\ edit \in [Client -> Wiki!Request]
         /\ edit[c].row \in Wiki!Row /\ edit[c].read \in Wiki!Row
         /\ edit[c].row.kind \in {"none", "category", "article", "deleted"}
         /\ edit[c].row.text \in Text /\ edit[c].row.parent \in Wiki!Parent
         /\ node \in [Node -> Wiki!Row] /\ recent \subseteq Node /\ edits \in 0 .. 4
         /\ DOMAIN versions = Node /\ \A n \in Node : versions[n] \in Seq(Wiki!Row)
<1>1. /\ Asked(edit[c]) /\ edit[c] \in Wiki!Request /\ edit \in [Client -> Wiki!Request]
      /\ node \in [Node -> Wiki!Row] /\ recent \subseteq Node /\ edits \in 0 .. 4
      /\ DOMAIN versions = Node /\ \A n \in Node : versions[n] \in Seq(Wiki!Row)
  BY DEF WikiInv, Wiki!TypeOK
<1>2. edit[c].row \in Wiki!Row /\ edit[c].read \in Wiki!Row  BY <1>1 DEF Wiki!Request
<1>3. QED  BY <1>1, <1>2 DEF Wiki!Row

\* A field of a request is set to something of its type.
LEMMA EditIsSet ==
  ASSUME NEW r \in Wiki!Request
  PROVE  /\ \A o \in {"none", "create", "update", "move", "delete", "restore"} :
              [r EXCEPT !.op = o] \in Wiki!Request
         /\ \A pc \in {"idle", "cycle", "category", "insert", "fields", "parent", "delete", "purge",
                       "fetch", "window", "checkpoint", "prune", "read", "restore"} :
              [r EXCEPT !.pc = pc] \in Wiki!Request
         /\ \A n \in Wiki!Parent : [r EXCEPT !.n = n] \in Wiki!Request
         /\ \A x \in Wiki!Row : /\ [r EXCEPT !.row = x] \in Wiki!Request
                                /\ [r EXCEPT !.read = x] \in Wiki!Request
         /\ \A b \in BOOLEAN : /\ [r EXCEPT !.move = b] \in Wiki!Request
                               /\ [r EXCEPT !.done = b] \in Wiki!Request
<1>1. \A o \in {"none", "create", "update", "move", "delete", "restore"} :
        [r EXCEPT !.op = o] \in Wiki!Request
  BY DEF Wiki!Request
<1>2. \A pc \in {"idle", "cycle", "category", "insert", "fields", "parent", "delete", "purge",
                 "fetch", "window", "checkpoint", "prune", "read", "restore"} :
        [r EXCEPT !.pc = pc] \in Wiki!Request
  BY DEF Wiki!Request
<1>3. \A n \in Wiki!Parent : [r EXCEPT !.n = n] \in Wiki!Request  BY DEF Wiki!Request
<1>4. \A x \in Wiki!Row : [r EXCEPT !.row = x] \in Wiki!Request  BY DEF Wiki!Request
<1>5. \A x \in Wiki!Row : [r EXCEPT !.read = x] \in Wiki!Request  BY DEF Wiki!Request
<1>6. \A b \in BOOLEAN : [r EXCEPT !.move = b] \in Wiki!Request  BY DEF Wiki!Request
<1>7. \A b \in BOOLEAN : [r EXCEPT !.done = b] \in Wiki!Request  BY DEF Wiki!Request
<1>8. QED  BY <1>1, <1>2, <1>3, <1>4, <1>5, <1>6, <1>7

\* A request ends, or goes to its next statement.
LEMMA EditEnds ==
  ASSUME WikiInv, NEW c \in Client, edit' = [edit EXCEPT ![c] = Wiki!Idle], edits' = edits,
         node' \in [Node -> Wiki!Row], recent' \subseteq Node,
         DOMAIN versions' = Node, \A n \in Node : versions'[n] \in Seq(Wiki!Row)
  PROVE  WikiInv'
BY IdleIsTyped, EditIsKnown, EditGoesOn

LEMMA EditGoesTo ==
  ASSUME WikiInv, NEW c \in Client, edit[c].pc # "idle",
         NEW pc \in {"category", "insert", "fields", "parent", "purge", "fetch", "window",
                     "checkpoint", "prune", "restore"},
         pc = "category" => edit[c].pc = "cycle",
         edit' = [edit EXCEPT ![c].pc = pc], edits' = edits,
         node' \in [Node -> Wiki!Row], recent' \subseteq Node,
         DOMAIN versions' = Node, \A n \in Node : versions'[n] \in Seq(Wiki!Row)
  PROVE  WikiInv'
<1> DEFINE r == [edit[c] EXCEPT !.pc = pc]
<1>1. Asked(edit[c]) /\ edit[c] \in Wiki!Request /\ edits' \in 0 .. 4  BY EditIsKnown
<1>2. r \in Wiki!Request  BY <1>1, EditIsSet
<1>3. r.pc = pc /\ r.n = edit[c].n /\ r.op = edit[c].op  BY <1>1 DEF Wiki!Request
<1>4. edit' = [edit EXCEPT ![c] = r]  OBVIOUS
<1> HIDE DEF r
<1>5. Asked(r)  BY <1>1, <1>2, <1>3 DEF Asked
<1>6. QED  BY <1>1, <1>4, <1>5, EditGoesOn

\* The row of a node that exists is set.
LEMMA NodeIsSet ==
  ASSUME node \in [Node -> Wiki!Row], NEW n \in Node, NEW x \in Wiki!Row
  PROVE  /\ [node EXCEPT ![n] = x] \in [Node -> Wiki!Row]
         /\ [node EXCEPT ![n].parent = x.parent] \in [Node -> Wiki!Row]
         /\ [node EXCEPT ![n].kind = x.kind, ![n].text = x.text] \in [Node -> Wiki!Row]
<1>1. /\ node[n] \in Wiki!Row /\ x.parent \in Wiki!Parent /\ x.text \in Text
      /\ x.kind \in {"none", "category", "article", "deleted"}
  BY DEF Wiki!Row
<1>2. [node[n] EXCEPT !.parent = x.parent] \in Wiki!Row  BY <1>1 DEF Wiki!Row
<1> DEFINE y == [node[n] EXCEPT !.kind = x.kind]
           z == [y EXCEPT !.text = x.text]
<1>3. y \in Wiki!Row  BY <1>1 DEF Wiki!Row
<1>4. z \in Wiki!Row  BY <1>1, <1>3 DEF Wiki!Row
<1>5. [node EXCEPT ![n].kind = x.kind, ![n].text = x.text] = [node EXCEPT ![n] = z]
  OBVIOUS
<1> HIDE DEF y, z
<1>6. QED  BY <1>2, <1>4, <1>5

\* The checks of a parent.
LEMMA ChecksAreTyped ==
  ASSUME WikiInv, NEW c \in Client,
         \/ Tree!CheckCycle(c) \/ Wiki!CheckCycle(c)
         \/ Tree!ValidateParentIsCategory(c) \/ Wiki!ValidateParentIsCategory(c)
  PROVE  WikiInv'
<1>1. CASE Tree!CheckCycle(c) \/ Wiki!CheckCycle(c)
  <2>1. /\ edit[c].pc = "cycle" /\ UNCHANGED <<node, versions, recent, edits>>
        /\ \/ edit' = [edit EXCEPT ![c] = Wiki!Idle]
           \/ edit' = [edit EXCEPT ![c].pc = "category"]
    BY <1>1, IdleIsTyped DEF Tree!CheckCycle, Wiki!CheckCycle, Tree!At, Wiki!At, Tree!Ends, Wiki!Ends,
      Tree!Goes, Wiki!Goes
  <2>2. QED  BY <2>1, EditIsKnown, EditEnds, EditGoesTo
<1>2. CASE Tree!ValidateParentIsCategory(c) \/ Wiki!ValidateParentIsCategory(c)
  <2>1. /\ edit[c].pc = "category" /\ UNCHANGED <<node, versions, recent, edits>>
        /\ \/ edit' = [edit EXCEPT ![c] = Wiki!Idle]
           \/ edit' = [edit EXCEPT ![c].pc = Tree!Writes(edit[c])]
           \/ edit' = [edit EXCEPT ![c].pc = Wiki!Writes(edit[c])]
    BY <1>2, IdleIsTyped DEF Tree!ValidateParentIsCategory, Wiki!ValidateParentIsCategory,
      Tree!At, Wiki!At, Tree!Ends, Wiki!Ends, Tree!Goes, Wiki!Goes
  <2>2. edit[c].op \in {"create", "update", "move"}  BY <2>1, EditIsKnown DEF Asked
  <2>3. Tree!Writes(edit[c]) \in {"insert", "fields", "parent"}  BY <2>2 DEF Tree!Writes
  <2>4. Wiki!Writes(edit[c]) \in {"insert", "fields", "parent"}  BY <2>2 DEF Wiki!Writes
  <2>5. QED  BY <2>1, <2>3, <2>4, EditIsKnown, EditEnds, EditGoesTo
<1>3. QED  BY <1>1, <1>2

\* The writes.
LEMMA WritesAreTyped ==
  ASSUME WikiInv, NEW c \in Client,
         \/ Tree!Insert(c) \/ Wiki!Insert(c) \/ Tree!UpdateFields(c) \/ Wiki!UpdateFields(c)
         \/ Tree!UpdateParent(c) \/ Wiki!UpdateParent(c)
  PROVE  WikiInv'
<1> DEFINE n == edit[c].n
           x == edit[c].row
<1>1. edit[c].pc \in {"insert", "fields", "parent"}
  BY DEF Tree!Insert, Wiki!Insert, Tree!UpdateFields, Wiki!UpdateFields, Tree!UpdateParent,
    Wiki!UpdateParent, Tree!At, Wiki!At
<1>2. n \in Node /\ x \in Wiki!Row /\ node \in [Node -> Wiki!Row]
  BY <1>1, EditIsKnown DEF Asked
<1>3. /\ [node EXCEPT ![n] = x] \in [Node -> Wiki!Row]
      /\ [node EXCEPT ![n].parent = x.parent] \in [Node -> Wiki!Row]
      /\ [node EXCEPT ![n].kind = x.kind, ![n].text = x.text] \in [Node -> Wiki!Row]
  BY <1>2, NodeIsSet
<1> HIDE DEF n, x
<1>4. /\ UNCHANGED <<versions, recent, edits>>
      /\ \/ edit' = [edit EXCEPT ![c] = Wiki!Idle] /\ node' = node
         \/ /\ \E pc \in {"parent", "fetch"} : edit' = [edit EXCEPT ![c].pc = pc]
            /\ \/ node' = [node EXCEPT ![n] = x]
               \/ node' = [node EXCEPT ![n].parent = x.parent]
               \/ node' = [node EXCEPT ![n].kind = x.kind, ![n].text = x.text]
  <2>1. CASE Tree!Insert(c) \/ Wiki!Insert(c)
    BY <2>1, IdleIsTyped DEF n, x, Tree!Insert, Wiki!Insert, Tree!Ends, Wiki!Ends, Tree!Goes, Wiki!Goes
  <2>2. CASE Tree!UpdateFields(c) \/ Wiki!UpdateFields(c)
    BY <2>2, IdleIsTyped DEF n, x, Tree!UpdateFields, Wiki!UpdateFields, Tree!Ends, Wiki!Ends,
      Tree!Goes, Wiki!Goes
  <2>3. CASE Tree!UpdateParent(c) \/ Wiki!UpdateParent(c)
    BY <2>3, IdleIsTyped DEF n, x, Tree!UpdateParent, Wiki!UpdateParent, Tree!Ends, Wiki!Ends,
      Tree!Goes, Wiki!Goes
  <2>4. QED  BY <2>1, <2>2, <2>3
<1>5. node' \in [Node -> Wiki!Row]  BY <1>2, <1>3, <1>4
<1>6. QED  BY <1>1, <1>4, <1>5, EditIsKnown, EditEnds, EditGoesTo

\* A deletion, and a restore.
LEMMA OtherWritesAreTyped ==
  ASSUME WikiInv, NEW c \in Client,
         \/ Tree!DeleteNode(c) \/ Wiki!DeleteNode(c)
         \/ Tree!DeleteEntityVersions(c) \/ Wiki!DeleteEntityVersions(c)
         \/ Tree!RestoreRow(c) \/ Wiki!RestoreRow(c)
  PROVE  WikiInv'
<1> DEFINE n == edit[c].n
           x == edit[c].row
           gone == [Wiki!NoRow EXCEPT !.kind = "deleted"]
<1>1. edit[c].pc \in {"delete", "purge", "restore"}
  BY DEF Tree!DeleteNode, Wiki!DeleteNode, Tree!DeleteEntityVersions, Wiki!DeleteEntityVersions,
    Tree!RestoreRow, Wiki!RestoreRow, Tree!At, Wiki!At
<1>2. n \in Node /\ x \in Wiki!Row /\ node \in [Node -> Wiki!Row] /\ edits \in 0 .. 4
      /\ edit[c] \in Wiki!Request /\ recent \subseteq Node
      /\ DOMAIN versions = Node /\ \A m \in Node : versions[m] \in Seq(Wiki!Row)
  BY <1>1, EditIsKnown DEF Asked
<1>3. gone \in Wiki!Row  BY IdleIsTyped DEF Wiki!Row
<1> HIDE DEF gone
<1>4. CASE Tree!DeleteNode(c) \/ Wiki!DeleteNode(c)
  <2>1. /\ UNCHANGED <<versions, recent, edits>>
        /\ \/ edit' = [edit EXCEPT ![c] = Wiki!Idle] /\ node' = node
           \/ /\ edit' = [edit EXCEPT ![c].pc = "purge"]
              /\ \/ node' = [m \in Node |-> IF m \in Tree!Below(n) THEN gone ELSE node[m]]
                 \/ node' = [m \in Node |-> IF m \in Wiki!Below(n) THEN gone ELSE node[m]]
    BY <1>4, IdleIsTyped DEF gone, Tree!DeleteNode, Wiki!DeleteNode, Tree!Ends, Wiki!Ends, Tree!Goes,
      Wiki!Goes
  <2>2. node' \in [Node -> Wiki!Row]  BY <1>2, <1>3, <2>1
  <2>3. QED  BY <1>1, <1>2, <2>1, <2>2, EditEnds, EditGoesTo
<1>5. CASE Tree!DeleteEntityVersions(c) \/ Wiki!DeleteEntityVersions(c)
  <2>1. /\ UNCHANGED <<node, edits>> /\ edit' = [edit EXCEPT ![c] = Wiki!Idle]
        /\ versions' = [versions EXCEPT ![n] = <<>>] /\ recent' = recent \ {n}
    BY <1>5, IdleIsTyped DEF Tree!DeleteEntityVersions, Wiki!DeleteEntityVersions, Tree!Ends, Wiki!Ends
  <2>2. <<>> \in Seq(Wiki!Row)  OBVIOUS
  <2>3. DOMAIN versions' = Node /\ \A m \in Node : versions'[m] \in Seq(Wiki!Row)
    BY <1>2, <2>1, <2>2
  <2>4. QED  BY <1>2, <2>1, <2>3, EditEnds
<1>6. CASE Tree!RestoreRow(c) \/ Wiki!RestoreRow(c)
  <2> DEFINE a == [edit[c] EXCEPT !.pc = "fetch"]
             r == [a EXCEPT !.done = TRUE]
  <2>1. /\ UNCHANGED <<versions, recent, edits>>
        /\ \/ edit' = [edit EXCEPT ![c] = Wiki!Idle] /\ node' = node
           \/ edit' = [edit EXCEPT ![c].pc = "fetch", ![c].done = TRUE]
              /\ node' = [node EXCEPT ![n] = x]
    BY <1>6, IdleIsTyped DEF Tree!RestoreRow, Wiki!RestoreRow, Tree!Ends, Wiki!Ends
  <2>2. [edit EXCEPT ![c].pc = "fetch", ![c].done = TRUE] = [edit EXCEPT ![c] = r]  OBVIOUS
  <2>3. a \in Wiki!Request  BY <1>2, EditIsSet
  <2>4. r \in Wiki!Request  BY <2>3, EditIsSet
  <2>5. r.pc = "fetch" /\ r.n = n  BY <1>2 DEF Wiki!Request
  <2> HIDE DEF r, a
  <2>6. Asked(r)  BY <1>2, <2>4, <2>5 DEF Asked
  <2>7. node' \in [Node -> Wiki!Row]  BY <1>2, <2>1
  <2>8. QED  BY <1>2, <2>1, <2>2, <2>6, <2>7, EditEnds, EditGoesOn
<1>7. QED  BY <1>4, <1>5, <1>6

\* What is read of a node is a row, and no version goes with a number of them.
LEMMA ReadsAreTyped ==
  ASSUME WikiInv, NEW c \in Client,
         \/ Tree!Fetch(c) \/ Wiki!Fetch(c) \/ Tree!ReadCurrent(c) \/ Wiki!ReadCurrent(c)
         \/ Tree!Coalesce(c) \/ Wiki!Coalesce(c) \/ Tree!DropRequest(c) \/ Wiki!DropRequest(c)
  PROVE  WikiInv'
<1> DEFINE n == edit[c].n
<1>1. /\ edit[c].pc # "idle" /\ UNCHANGED <<node, versions, recent, edits>>
      /\ \/ edit' = [edit EXCEPT ![c] = Wiki!Idle]
         \/ edit' = [edit EXCEPT ![c].pc = "checkpoint"]
         \/ \E pc \in {"window", "checkpoint"} :
              edit' = [edit EXCEPT ![c].read = node[n], ![c].pc = pc]
  <2>1. CASE Tree!Fetch(c) \/ Wiki!Fetch(c)
    BY <2>1, IdleIsTyped DEF Tree!Fetch, Wiki!Fetch, Tree!At, Wiki!At, Tree!Ends, Wiki!Ends
  <2>2. CASE Tree!ReadCurrent(c) \/ Wiki!ReadCurrent(c)
    BY <2>2, IdleIsTyped DEF Tree!ReadCurrent, Wiki!ReadCurrent, Tree!At, Wiki!At, Tree!Ends, Wiki!Ends
  <2>3. CASE Tree!Coalesce(c) \/ Wiki!Coalesce(c)
    BY <2>3, IdleIsTyped DEF Tree!Coalesce, Wiki!Coalesce, Tree!At, Wiki!At, Tree!Ends, Wiki!Ends,
      Tree!Goes, Wiki!Goes
  <2>4. CASE Tree!DropRequest(c) \/ Wiki!DropRequest(c)
    BY <2>4, IdleIsTyped DEF Tree!DropRequest, Wiki!DropRequest, Tree!At, Wiki!At, Tree!Ends, Wiki!Ends
  <2>5. QED  BY <2>1, <2>2, <2>3, <2>4
<1>2. /\ n \in Node /\ node \in [Node -> Wiki!Row] /\ edits \in 0 .. 4
      /\ edit[c] \in Wiki!Request /\ recent \subseteq Node
      /\ DOMAIN versions = Node /\ \A m \in Node : versions[m] \in Seq(Wiki!Row)
  BY <1>1, EditIsKnown DEF Asked
<1>3. ASSUME NEW pc \in {"window", "checkpoint"},
             edit' = [edit EXCEPT ![c].read = node[n], ![c].pc = pc]
      PROVE  WikiInv'
  <2> DEFINE a == [edit[c] EXCEPT !.read = node[n]]
             r == [a EXCEPT !.pc = pc]
  <2>1. [edit EXCEPT ![c].read = node[n], ![c].pc = pc] = [edit EXCEPT ![c] = r]  OBVIOUS
  <2>2. a \in Wiki!Request  BY <1>2, EditIsSet
  <2>3. r \in Wiki!Request  BY <2>2, EditIsSet
  <2>4. r.pc = pc /\ r.n = n  BY <1>2 DEF Wiki!Request
  <2> HIDE DEF r, a
  <2>5. Asked(r)  BY <1>2, <2>3, <2>4 DEF Asked
  <2>6. QED  BY <1>1, <1>2, <1>3, <2>1, <2>5, EditGoesOn
<1> HIDE DEF n
<1>4. QED  BY <1>1, <1>2, <1>3, EditEnds, EditGoesTo

\* The newest versions are a sequence of rows.
LEMMA NewestIsSeq ==
  ASSUME NEW s \in Seq(Wiki!Row)
  PROVE  Wiki!Newest(s) \in Seq(Wiki!Row) /\ Tree!Newest(s) \in Seq(Wiki!Row)
<1>1. Len(s) \in Nat /\ MaxVersions \in Nat /\ MaxVersions > 0  BY WikiAssumed
<1>2. CASE Len(s) > MaxVersions
  <2>1. SubSeq(s, Len(s) - MaxVersions + 1, Len(s)) \in Seq(Wiki!Row)
    <3>1. /\ Len(s) - MaxVersions + 1 \in Int /\ Len(s) - MaxVersions + 1 >= 1
          /\ Len(s) \in Int /\ Len(s) <= Len(s)
      BY <1>1, <1>2
    <3>2. \A i \in Len(s) - MaxVersions + 1 .. Len(s) : s[i] \in Wiki!Row
      BY <1>1, <3>1
    <3>3. QED  BY <1>1, <1>2, <3>1, <3>2, SubSeqProperties
  <2>2. QED  BY <1>2, <2>1 DEF Wiki!Newest, Tree!Newest
<1>3. CASE ~(Len(s) > MaxVersions)  BY <1>3 DEF Wiki!Newest, Tree!Newest
<1>4. QED  BY <1>2, <1>3

\* Versions are made, pruned and grow old.
LEMMA VersionsAreTyped ==
  ASSUME WikiInv
  PROVE  /\ \A c \in Client :
              /\ Tree!CreateVersionCheckpoint(c) \/ Wiki!CreateVersionCheckpoint(c) => WikiInv'
              /\ Tree!PruneVersions(c) \/ Wiki!PruneVersions(c) => WikiInv'
         /\ \A n \in Node : Tree!WindowPasses(n) \/ Wiki!WindowPasses(n) => WikiInv'
<1>1. ASSUME NEW c \in Client,
             \/ Tree!CreateVersionCheckpoint(c) \/ Wiki!CreateVersionCheckpoint(c)
             \/ Tree!PruneVersions(c) \/ Wiki!PruneVersions(c)
      PROVE  WikiInv'
  <2> DEFINE n == edit[c].n
  <2>1. edit[c].pc \in {"checkpoint", "prune"}
    BY <1>1 DEF Tree!CreateVersionCheckpoint, Wiki!CreateVersionCheckpoint, Tree!PruneVersions,
      Wiki!PruneVersions, Tree!At, Wiki!At
  <2>2. /\ n \in Node /\ node \in [Node -> Wiki!Row] /\ edits \in 0 .. 4
        /\ edit[c].read \in Wiki!Row /\ recent \subseteq Node
        /\ DOMAIN versions = Node /\ \A m \in Node : versions[m] \in Seq(Wiki!Row)
    BY <2>1, EditIsKnown DEF Asked
  <2> DEFINE s == Append(versions[n], edit[c].read)
  <2>3. s \in Seq(Wiki!Row)  BY <2>2
  <2> HIDE DEF n, s
  <2>4. CASE Tree!CreateVersionCheckpoint(c) \/ Wiki!CreateVersionCheckpoint(c)
    <3>1. /\ UNCHANGED <<node, edits>> /\ edit' = [edit EXCEPT ![c].pc = "prune"]
          /\ versions' = [versions EXCEPT ![n] = s] /\ recent' = recent \cup {n}
      BY <2>4 DEF n, s, Tree!CreateVersionCheckpoint, Wiki!CreateVersionCheckpoint, Tree!Goes, Wiki!Goes
    <3>2. DOMAIN versions' = Node /\ \A m \in Node : versions'[m] \in Seq(Wiki!Row)
      BY <2>2, <2>3, <3>1
    <3>3. QED  BY <2>1, <2>2, <3>1, <3>2, EditGoesTo
  <2>5. CASE Tree!PruneVersions(c) \/ Wiki!PruneVersions(c)
    <3>1. PICK new \in {Tree!Newest(versions[n]), Wiki!Newest(versions[n])} :
            /\ UNCHANGED <<node, recent, edits>> /\ versions' = [versions EXCEPT ![n] = new]
            /\ \/ edit' = [edit EXCEPT ![c] = Wiki!Idle]
               \/ edit' = [edit EXCEPT ![c].pc = "restore"]
      BY <2>5, IdleIsTyped DEF n, Tree!PruneVersions, Wiki!PruneVersions, Tree!Ends, Wiki!Ends,
        Tree!Goes, Wiki!Goes
    <3>2. new \in Seq(Wiki!Row)  BY <2>2, NewestIsSeq
    <3>3. DOMAIN versions' = Node /\ \A m \in Node : versions'[m] \in Seq(Wiki!Row)
      BY <2>2, <3>1, <3>2
    <3>4. QED  BY <2>1, <2>2, <3>1, <3>3, EditEnds, EditGoesTo
  <2>6. QED  BY <1>1, <2>4, <2>5
<1>2. ASSUME NEW n \in Node, Tree!WindowPasses(n) \/ Wiki!WindowPasses(n) PROVE WikiInv'
  <2>1. recent' = recent \ {n} /\ UNCHANGED <<node, versions, edit, edits>>
    BY <1>2 DEF Tree!WindowPasses, Wiki!WindowPasses
  <2>2. QED  BY <2>1 DEF WikiInv, Wiki!TypeOK, Asked
<1>3. QED  BY <1>1, <1>2

\* What a request holds when it arrives: no row, a row, or a row and where to.
LEMMA RequestsAreAsked ==
  ASSUME NEW o \in {"create", "update", "move", "delete", "restore"}, NEW n \in Node,
         NEW pc \in {"cycle", "category", "insert", "fields", "parent", "delete", "read"},
         pc \in {"cycle", "category"} => o \in {"create", "update", "move"}
  PROVE  /\ Asked([Wiki!Idle EXCEPT !.op = o, !.n = n, !.pc = pc])
         /\ \A x \in Wiki!Row :
              /\ Asked([Wiki!Idle EXCEPT !.op = o, !.n = n, !.pc = pc, !.row = x])
              /\ \A move \in BOOLEAN :
                   Asked([Wiki!Idle EXCEPT !.op = o, !.n = n, !.pc = pc, !.row = x, !.move = move])
         /\ \A p \in Wiki!Parent :
              Asked([Wiki!Idle EXCEPT !.op = o, !.n = n, !.pc = pc, !.row.parent = p, !.move = TRUE])
<1> DEFINE a == [Wiki!Idle EXCEPT !.op = o]
           b == [a EXCEPT !.n = n]
           d == [b EXCEPT !.pc = pc]
<1>1. a \in Wiki!Request  BY IdleIsTyped, EditIsSet DEF Asked
<1>2. b \in Wiki!Request  BY <1>1, EditIsSet DEF Wiki!Parent
<1>3. d \in Wiki!Request  BY <1>2, EditIsSet
<1>4. d.op = o /\ d.n = n /\ d.pc = pc  BY DEF Wiki!Idle
<1>5. d = [Wiki!Idle EXCEPT !.op = o, !.n = n, !.pc = pc]  OBVIOUS
<1>6. ASSUME NEW x \in Wiki!Row, NEW move \in BOOLEAN
      PROVE  Asked([d EXCEPT !.row = x]) /\ Asked([d EXCEPT !.row = x, !.move = move])
  <2> HIDE DEF d
  <2> DEFINE e == [d EXCEPT !.row = x]
             f == [e EXCEPT !.move = move]
  <2>1. e \in Wiki!Request  BY <1>3, EditIsSet
  <2>2. f \in Wiki!Request  BY <2>1, EditIsSet
  <2>3. e.op = o /\ e.n = n /\ e.pc = pc  BY <1>3, <1>4 DEF Wiki!Request
  <2>4. f = [d EXCEPT !.row = x, !.move = move]  OBVIOUS
  <2> HIDE DEF e
  <2>5. f.op = o /\ f.n = n /\ f.pc = pc  BY <2>1, <2>3 DEF Wiki!Request
  <2> HIDE DEF f
  <2>6. Asked(e) /\ Asked(f)  BY <2>1, <2>2, <2>3, <2>5 DEF Asked
  <2>7. QED  BY <2>4, <2>6 DEF e
<1>7. Asked(d)
  <2> HIDE DEF d
  <2>1. QED  BY <1>3, <1>4 DEF Asked
<1>8. ASSUME NEW p \in Wiki!Parent PROVE Asked([d EXCEPT !.row.parent = p, !.move = TRUE])
  <2> HIDE DEF d
  <2> DEFINE x == [d.row EXCEPT !.parent = p]
  <2>1. d.row \in Wiki!Row  BY <1>3 DEF Wiki!Request
  <2>2. x \in Wiki!Row  BY <2>1 DEF Wiki!Row
  <2>3. [d EXCEPT !.row.parent = p, !.move = TRUE] = [d EXCEPT !.row = x, !.move = TRUE]  OBVIOUS
  <2> HIDE DEF x
  <2>4. QED  BY <1>6, <2>2, <2>3
<1>9. QED  BY <1>6, <1>7, <1>8

LEMMA RequestArrives ==
  ASSUME WikiInv, NEW c \in Client, NEW new, Asked(new), Tree!Ask(c, new) \/ Wiki!Ask(c, new)
  PROVE  WikiInv'
<1>1. edit' = [edit EXCEPT ![c] = new] /\ edits < 4 /\ edits' = edits + 1
      /\ UNCHANGED <<node, versions, recent>>
  BY DEF Tree!Ask, Wiki!Ask
<1>2. edits' \in 0 .. 4  BY <1>1, EditIsKnown
<1>3. QED  BY <1>1, <1>2, EditIsKnown, EditGoesOn

LEMMA AsksAreTyped ==
  ASSUME WikiInv, NEW c \in Client,
         \/ Tree!Create(c) \/ Wiki!Create(c) \/ Tree!Update(c) \/ Wiki!Update(c)
         \/ Tree!Move(c) \/ Wiki!Move(c) \/ Tree!Delete(c) \/ Wiki!Delete(c)
         \/ Tree!Restore(c) \/ Wiki!Restore(c)
  PROVE  WikiInv'
<1>1. Tree!Idle = Wiki!Idle  BY IdleIsTyped
<1>2. \A p, a, b : Tree!FirstCheck(p, a, b) \in {a, b} /\ Wiki!FirstCheck(p, a, b) \in {a, b}
  BY DEF Tree!FirstCheck, Wiki!FirstCheck
<1>3. CASE Tree!Create(c) \/ Wiki!Create(c)
  <2>1. ASSUME NEW n \in Node, NEW p \in Wiki!Parent, NEW kind \in {"category", "article"},
               NEW text \in Text, NEW pc \in {"category", "insert"}
        PROVE  Asked([Wiki!Idle EXCEPT !.op = "create", !.n = n, !.pc = pc,
                        !.row = [parent |-> p, kind |-> kind, text |-> text]])
    <3>1. [parent |-> p, kind |-> kind, text |-> text] \in Wiki!Row  BY DEF Wiki!Row
    <3>2. QED  BY <3>1, RequestsAreAsked
  <2>2. PICK n \in Node, p \in Wiki!Parent, kind \in {"category", "article"}, text \in Text :
          LET new(pc) == [Wiki!Idle EXCEPT !.op = "create", !.n = n, !.pc = pc,
                            !.row = [parent |-> p, kind |-> kind, text |-> text]]
          IN  \/ Tree!Ask(c, new(Tree!FirstCheck(p, "category", "insert")))
              \/ Wiki!Ask(c, new(Wiki!FirstCheck(p, "category", "insert")))
    BY <1>1, <1>3, WikiAssumed, Zenon DEF Tree!Create, Wiki!Create, Tree!Parent, Wiki!Parent
  <2> DEFINE new(pc) == [Wiki!Idle EXCEPT !.op = "create", !.n = n, !.pc = pc,
                           !.row = [parent |-> p, kind |-> kind, text |-> text]]
  <2>3. \A pc \in {"category", "insert"} : Asked(new(pc))  BY <2>1
  <2>4. \/ Tree!Ask(c, new(Tree!FirstCheck(p, "category", "insert")))
        \/ Wiki!Ask(c, new(Wiki!FirstCheck(p, "category", "insert")))
    BY <2>2
  <2> HIDE DEF new
  <2>5. QED  BY <1>2, <2>3, <2>4, RequestArrives
<1>4. CASE Tree!Update(c) \/ Wiki!Update(c)
  <2>1. ASSUME NEW n \in Node, NEW p \in Wiki!Parent, NEW kind \in {"category", "article"},
               NEW text \in Text, NEW move \in BOOLEAN, NEW pc \in {"cycle", "fields"}
        PROVE  Asked([Wiki!Idle EXCEPT !.op = "update", !.n = n, !.pc = pc,
                        !.row = [parent |-> p, kind |-> kind, text |-> text], !.move = move])
    <3>1. [parent |-> p, kind |-> kind, text |-> text] \in Wiki!Row  BY DEF Wiki!Row
    <3>2. QED  BY <3>1, RequestsAreAsked
  <2>2. PICK n \in Node, p \in Wiki!Parent, kind \in {"category", "article"}, text \in Text,
             move \in BOOLEAN :
          LET new(pc) == [Wiki!Idle EXCEPT !.op = "update", !.n = n, !.pc = pc,
                            !.row = [parent |-> p, kind |-> kind, text |-> text], !.move = move]
          IN  \/ Tree!Ask(c, new(Tree!FirstCheck(p, "cycle", "fields")))
              \/ Wiki!Ask(c, new(Wiki!FirstCheck(p, "cycle", "fields")))
    BY <1>1, <1>4, WikiAssumed, Zenon DEF Tree!Update, Wiki!Update, Tree!Parent, Wiki!Parent
  <2> DEFINE new(pc) == [Wiki!Idle EXCEPT !.op = "update", !.n = n, !.pc = pc,
                           !.row = [parent |-> p, kind |-> kind, text |-> text], !.move = move]
  <2>3. \A pc \in {"cycle", "fields"} : Asked(new(pc))  BY <2>1
  <2>4. \/ Tree!Ask(c, new(Tree!FirstCheck(p, "cycle", "fields")))
        \/ Wiki!Ask(c, new(Wiki!FirstCheck(p, "cycle", "fields")))
    BY <2>2
  <2> HIDE DEF new
  <2>5. QED  BY <1>2, <2>3, <2>4, RequestArrives
<1>5. CASE Tree!Move(c) \/ Wiki!Move(c)
  <2>1. ASSUME NEW n \in Node, NEW p \in Wiki!Parent, NEW pc \in {"cycle", "parent"}
        PROVE  Asked([Wiki!Idle EXCEPT !.op = "move", !.n = n, !.pc = pc, !.row.parent = p,
                        !.move = TRUE])
    BY RequestsAreAsked
  <2>2. PICK n \in Node, p \in Wiki!Parent :
          LET new(pc) == [Wiki!Idle EXCEPT !.op = "move", !.n = n, !.pc = pc, !.row.parent = p,
                            !.move = TRUE]
          IN  \/ Tree!Ask(c, new(Tree!FirstCheck(p, "cycle", "parent")))
              \/ Wiki!Ask(c, new(Wiki!FirstCheck(p, "cycle", "parent")))
    BY <1>1, <1>5, Zenon DEF Tree!Move, Wiki!Move, Tree!Parent, Wiki!Parent
  <2> DEFINE new(pc) == [Wiki!Idle EXCEPT !.op = "move", !.n = n, !.pc = pc, !.row.parent = p,
                           !.move = TRUE]
  <2>3. \A pc \in {"cycle", "parent"} : Asked(new(pc))  BY <2>1
  <2>4. \/ Tree!Ask(c, new(Tree!FirstCheck(p, "cycle", "parent")))
        \/ Wiki!Ask(c, new(Wiki!FirstCheck(p, "cycle", "parent")))
    BY <2>2
  <2> HIDE DEF new
  <2>5. QED  BY <1>2, <2>3, <2>4, RequestArrives
<1>6. CASE Tree!Delete(c) \/ Wiki!Delete(c)
  BY <1>1, <1>6, RequestsAreAsked, RequestArrives DEF Tree!Delete, Wiki!Delete
<1>7. CASE Tree!Restore(c) \/ Wiki!Restore(c)
  <2>1. PICK n \in Node : \E i \in DOMAIN versions[n] :
          LET new == [Wiki!Idle EXCEPT !.op = "restore", !.n = n, !.pc = "read", !.row = versions[n][i]]
          IN  Tree!Ask(c, new) \/ Wiki!Ask(c, new)
    BY <1>1, <1>7 DEF Tree!Restore, Wiki!Restore
  <2>2. \A i \in DOMAIN versions[n] : versions[n][i] \in Wiki!Row  BY EditIsKnown
  <2>3. QED  BY <2>1, <2>2, RequestsAreAsked, RequestArrives
<1>8. QED  BY <1>3, <1>4, <1>5, <1>6, <1>7

LEMMA WikiInductive == WikiInv /\ (Tree!Next \/ Wiki!Next) => WikiInv'
<1> SUFFICES ASSUME WikiInv, Tree!Next \/ Wiki!Next PROVE WikiInv'  OBVIOUS
<1>1. CASE Tree!Next
  <2>1. ASSUME NEW c \in {CHOOSE c \in Client : TRUE} PROVE c \in Client  BY WikiAssumed
  <2>2. QED
    BY <1>1, <2>1, AsksAreTyped, ChecksAreTyped, WritesAreTyped, OtherWritesAreTyped, ReadsAreTyped,
       VersionsAreTyped
    DEF Tree!Next
<1>2. CASE Wiki!Next
  BY <1>2, AsksAreTyped, ChecksAreTyped, WritesAreTyped, OtherWritesAreTyped, ReadsAreTyped,
     VersionsAreTyped
  DEF Wiki!Next
<1>3. QED  BY <1>1, <1>2

----------------------------------------------------------------------------
(* Types: all scenes.  Three of them share the count of faults, so that    *)
(* their invariants are those of the scene that is played.                 *)

ScenesInv ==
  /\ JournalInv /\ WikiInv
  /\ scene = "mirroring" => MirrorInv
  /\ scene = "quarantine" => QuarantineInv
  /\ scene = "sandbox" => Sandbox!Inv /\ Sandbox!TypeOK

LEMMA ScenesInitially == InitScene => ScenesInv
<1> SUFFICES ASSUME InitScene PROVE ScenesInv  OBVIOUS
<1>1. Init /\ Journal!Init /\ Quarantine!Init /\ Sandbox!Init /\ Wiki!Init  BY DEF InitScene
<1>2. faults = 0 /\ faults \in 0 .. MaxFaults  BY <1>1, MirrorAssumed DEF Init
<1>3. Sandbox!SandboxProcessesAssumption  BY SceneAssumption DEF SceneAssumption
<1>4. Sandbox!Inv /\ Sandbox!TypeOK  BY <1>1, <1>3, Sandbox!Initially, Sandbox!TypesInitially
<1>5. QED
  BY <1>1, <1>2, <1>4, JournalInitially, WikiInitially, MirrorInitially, QuarantineInitially
  DEF ScenesInv

\* A step of a scene keeps its types, and those of the others.
LEMMA ScenesInductive == ScenesInv /\ [NextScene]_all => ScenesInv'
<1> SUFFICES ASSUME ScenesInv, [NextScene]_all PROVE ScenesInv'  OBVIOUS
<1>1. scene' = scene  BY OneSceneGoesOn
<1>2. JournalInv'
  BY OneSceneGoesOn, JournalInductive, JournalStutters DEF ScenesInv
<1>3. WikiInv'
  <2>1. Tree!Next \/ Wiki!Next \/ UNCHANGED wiki  BY DEF NextScene, all
  <2>2. CASE Tree!Next \/ Wiki!Next  BY <2>2, WikiInductive DEF ScenesInv
  <2>3. CASE UNCHANGED wiki
    <3>1. UNCHANGED <<node, versions, recent, edit, edits>>  BY <2>3 DEF wiki
    <3>2. QED  BY <3>1 DEF ScenesInv, WikiInv, Wiki!TypeOK, Asked
  <2>4. QED  BY <2>1, <2>2, <2>3
<1>4. ASSUME scene = "mirroring" PROVE MirrorInv'
  <2>1. Next \/ UNCHANGED <<mirroring, faults>>  BY <1>4 DEF NextScene, all
  <2>2. CASE Next  BY <1>4, <2>2, MirrorInductive DEF ScenesInv
  <2>3. CASE UNCHANGED <<mirroring, faults>>
    <3>1. UNCHANGED <<local, mirror, queued, ops, jobs, job, proc, lost, faults>>
      BY <2>3 DEF mirroring
    <3>2. QED  BY <1>4, <3>1 DEF ScenesInv, MirrorInv, TypeOK
  <2>4. QED  BY <2>1, <2>2, <2>3
<1>5. ASSUME scene = "quarantine" PROVE QuarantineInv'
  <2>1. Quarantine!Next \/ UNCHANGED <<quarantine, faults>>  BY <1>5 DEF NextScene, all
  <2>2. QED  BY <1>5, <2>1, QuarantineInductive, QuarantineStutters DEF ScenesInv
<1>6. ASSUME scene = "sandbox" PROVE Sandbox!Inv' /\ Sandbox!TypeOK'
  <2>1. Sandbox!Next \/ UNCHANGED <<sandbox, faults>>  BY <1>6 DEF NextScene, all
  <2>2. [Sandbox!Next]_(Sandbox!vars)  BY <2>1 DEF sandbox, Sandbox!vars
  <2>3. Sandbox!SandboxProcessesAssumption  BY SceneAssumption DEF SceneAssumption
  <2>4. QED  BY <1>6, <2>2, <2>3, Sandbox!Inductive, Sandbox!TypesStay DEF ScenesInv
<1>7. QED  BY <1>1, <1>2, <1>3, <1>4, <1>5, <1>6 DEF ScenesInv

\* Files, rows, loops, requests and versions have their types in every reachable
\* state of their scene: what the loops of the mirror, the journal, the
\* quarantine, the runner and the wiki store and hold stays well formed, for any
\* number of them.
THEOREM FilesAreTyped == SceneSpec => []TypesOK
<1>1. ScenesInv => TypesOK
  BY DEF ScenesInv, TypesOK, MirrorInv, JournalInv, QuarantineInv, WikiInv
<1>2. QED  BY <1>1, ScenesInitially, ScenesInductive, PTL DEF SceneSpec, all

=============================================================================
