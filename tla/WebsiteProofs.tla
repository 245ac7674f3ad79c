--------------------------- MODULE WebsiteProofs ---------------------------
(***************************************************************************)
(* Proofs about what visitors of the website rely on: PlannerSync (first), *)
(* OfflineCatalog and Accounts, for every number of devices, calls, tabs   *)
(* and addresses, every choice of documents, revisions and delays, and     *)
(* without a bound on what visitors do.  The three share no variable; each *)
(* part has its inductive invariant, explained where it begins.            *)
(*                                                                         *)
(* PlannerSync: what a device bases a write on (its documents, the base of *)
(* a synchronisation, the remote document of a conflict) is never newer    *)
(* than what the account has told it, and revisions only grow; the account *)
(* accepts a write only at the revision it is based on.                    *)
(***************************************************************************)
EXTENDS PlannerSync, OfflineCatalog, Accounts, TLAPS

\* Functions on the kinds whose values have a revision; nothing is said of payloads.
IsDocs(ds) == ds = [k \in Kinds |-> ds[k]] /\ \A k \in Kinds : ds[k].revision \in Nat

IsSync(s) ==
    s = [pc |-> s.pc, mode |-> s.mode, rest |-> s.rest, mine |-> s.mine, base |-> s.base,
         exists |-> s.exists]

\* No document of ds is newer than what has been told.
NoNewer(ds, told) == IsDocs(ds) /\ \A k \in Kinds : ds[k].revision <= told[k]

\* A synchronisation has documents left to write, and its base is told.
SyncInformed(s, told) ==
    /\ IsSync(s)
    /\ s.pc # "ready" => s.rest \in Seq(Kinds) /\ s.rest # <<>> /\ NoNewer(s.base, told)

ConflictInformed(cs, told) ==
    cs # <<>> => /\ cs[1].kind \in Kinds
                 /\ cs[1].remote.revision \in Nat
                 /\ cs[1].remote.revision <= told[cs[1].kind]

Shape ==
    /\ IsDocs(account)
    /\ known \in [Devices -> [Kinds -> Nat]]
    /\ docs = [d \in Devices |-> docs[d]]
    /\ sync = [d \in Devices |-> sync[d]]
    /\ conflict = [d \in Devices |-> conflict[d]]

Informed(d) ==
    /\ \A k \in Kinds : known[d][k] <= account[k].revision
    /\ NoNewer(docs[d], known[d])
    /\ SyncInformed(sync[d], known[d])
    /\ ConflictInformed(conflict[d], known[d])

IInv == Shape /\ \A d \in Devices : Informed(d)

LEMMA OrderIsSequence == Order \in Seq(Kinds) /\ Order # <<>> /\ "collections" \in Kinds
<1>1. Order \in Seq(Kinds) /\ "collections" \in Kinds
  BY PlannerAssumption, Zenon
<1>2. PICK i \in DOMAIN Order : Order[i] = "collections"
  BY <1>1, Zenon DEF Kinds, ToSet
<1>3. Order # <<>>
  BY <1>2
<1> QED BY <1>1, <1>3

LEMMA ReadyInformed == \A told : SyncInformed(Ready, told)
<1>1. IsSync(Ready)
  BY DEF IsSync, Ready
<1>2. Ready.pc = "ready"
  BY DEF Ready
<1> QED BY <1>1, <1>2 DEF SyncInformed

LEMMA InitInv == Init => IInv
<1> SUFFICES ASSUME Init PROVE IInv
  OBVIOUS
<1>1. /\ account = [k \in Kinds |-> NoDocument] /\ NoDocument.revision = 0
      /\ known = [d \in Devices |-> [k \in Kinds |-> 0]]
  BY DEF Init, NoDocument
<1>2. IsDocs(account)
  BY <1>1 DEF IsDocs
<1>3. Shape
  BY <1>1, <1>2 DEF Init, Shape
<1>4. ASSUME NEW d \in Devices PROVE Informed(d)
  <2>1. docs[d] = account /\ sync[d] = Ready /\ conflict[d] = <<>> /\ known[d] = [k \in Kinds |-> 0]
    BY <1>1 DEF Init
  <2>2. NoNewer(docs[d], known[d]) /\ \A k \in Kinds : known[d][k] <= account[k].revision
    BY <1>1, <1>2, <2>1 DEF NoNewer
  <2>3. SyncInformed(sync[d], known[d])
    BY <2>1, ReadyInformed, Zenon
  <2> QED BY <2>1, <2>2, <2>3 DEF Informed, ConflictInformed
<1> QED BY <1>3, <1>4 DEF IInv

-----------------------------------------------------------------------------
\* What is not newer than what was told stays so when more is told.
LEMMA ToldMore ==
    ASSUME NEW old \in [Kinds -> Nat], NEW new \in [Kinds -> Nat],
           \A k \in Kinds : old[k] <= new[k]
    PROVE  /\ \A ds : NoNewer(ds, old) => NoNewer(ds, new)
           /\ \A s : SyncInformed(s, old) => SyncInformed(s, new)
           /\ \A cs : ConflictInformed(cs, old) => ConflictInformed(cs, new)
<1>1. ASSUME NEW ds, NoNewer(ds, old) PROVE NoNewer(ds, new)
  BY <1>1 DEF NoNewer, IsDocs
<1>2. ASSUME NEW s, SyncInformed(s, old) PROVE SyncInformed(s, new)
  BY <1>1, <1>2 DEF SyncInformed
<1>3. ASSUME NEW cs, ConflictInformed(cs, old) PROVE ConflictInformed(cs, new)
  BY <1>3 DEF ConflictInformed
<1> QED BY <1>1, <1>2, <1>3

\* A step of one device that leaves the others alone, lets revisions only grow and
\* tells the device nothing but what the account has.
LEMMA DeviceMoves ==
    ASSUME IInv, NEW d \in Devices,
           IsDocs(account'), \A k \in Kinds : account[k].revision <= account'[k].revision,
           known' \in [Devices -> [Kinds -> Nat]],
           docs' = [e \in Devices |-> docs'[e]], sync' = [e \in Devices |-> sync'[e]],
           conflict' = [e \in Devices |-> conflict'[e]],
           \A e \in Devices \ {d} : /\ known'[e] = known[e] /\ docs'[e] = docs[e]
                                    /\ sync'[e] = sync[e] /\ conflict'[e] = conflict[e],
           \A k \in Kinds : known[d][k] <= known'[d][k] /\ known'[d][k] <= account'[k].revision,
           docs'[d] = docs[d] \/ NoNewer(docs'[d], known'[d]),
           sync'[d] = sync[d] \/ SyncInformed(sync'[d], known'[d]),
           conflict'[d] = conflict[d] \/ ConflictInformed(conflict'[d], known'[d])
    PROVE  IInv'
<1>1. Shape'
  BY DEF Shape
<1>2. ASSUME NEW e \in Devices \ {d} PROVE Informed(e)'
  <2>1. Informed(e) /\ known[e] \in [Kinds -> Nat]
    BY DEF IInv, Shape
  <2>2. \A k \in Kinds : known'[e][k] <= account'[k].revision
    BY <2>1 DEF Informed, IsDocs, IInv, Shape
  <2> QED BY <2>1, <2>2 DEF Informed
<1>3. Informed(d)'
  <2>1. /\ Informed(d) /\ known[d] \in [Kinds -> Nat] /\ known'[d] \in [Kinds -> Nat]
        /\ \A k \in Kinds : known[d][k] <= known'[d][k]
    BY DEF IInv, Shape
  <2>2. /\ \A ds : NoNewer(ds, known[d]) => NoNewer(ds, known'[d])
        /\ \A s : SyncInformed(s, known[d]) => SyncInformed(s, known'[d])
        /\ \A cs : ConflictInformed(cs, known[d]) => ConflictInformed(cs, known'[d])
    BY <2>1, ToldMore
  <2> QED BY <2>1, <2>2 DEF Informed
<1> QED BY <1>1, <1>2, <1>3 DEF IInv

\* The common case: the account and what it told stay as they are.
LEMMA QuietMove ==
    ASSUME IInv, NEW d \in Devices, UNCHANGED <<account, known>>,
           docs' = [e \in Devices |-> docs'[e]], sync' = [e \in Devices |-> sync'[e]],
           conflict' = [e \in Devices |-> conflict'[e]],
           \A e \in Devices \ {d} : /\ docs'[e] = docs[e]
                                    /\ sync'[e] = sync[e] /\ conflict'[e] = conflict[e],
           docs'[d] = docs[d] \/ NoNewer(docs'[d], known[d]),
           sync'[d] = sync[d] \/ SyncInformed(sync'[d], known[d]),
           conflict'[d] = conflict[d] \/ ConflictInformed(conflict'[d], known[d])
    PROVE  IInv'
<1>1. /\ IsDocs(account') /\ known' \in [Devices -> [Kinds -> Nat]]
      /\ \A k \in Kinds : account[k].revision \in Nat
  BY DEF IInv, Shape, IsDocs
<1>2. \A k \in Kinds : /\ known[d][k] <= known'[d][k] /\ known'[d][k] <= account'[k].revision
                       /\ account[k].revision <= account'[k].revision
  BY <1>1 DEF IInv, Informed
<1> QED BY <1>1, <1>2, DeviceMoves

-----------------------------------------------------------------------------
\* One lemma per operation of the panel.

\* The end of a synchronisation.
LEMMA StopInformed ==
    ASSUME Shape, NEW d \in Devices, Stop(d)
    PROVE  /\ sync' = [e \in Devices |-> sync'[e]]
           /\ \A e \in Devices \ {d} : sync'[e] = sync[e]
           /\ \A told : SyncInformed(sync'[d], told)
<1>1. sync' = [sync EXCEPT ![d] = Ready]
  BY DEF Stop
<1>2. sync'[d] = Ready
  BY <1>1 DEF Shape
<1> QED BY <1>1, <1>2, ReadyInformed DEF Shape

LEMMA EditInv == ASSUME IInv, NEW d \in Devices, Edit(d) PROVE IInv'
  BY DEF Edit, IInv, Shape, Informed

LEMMA LoadInv == ASSUME IInv, NEW d \in Devices, Load(d) PROVE IInv'
<1>1. /\ docs' = [docs EXCEPT ![d] = account] /\ UNCHANGED <<account, sync, conflict>>
      /\ known' = [known EXCEPT ![d] = [k \in Kinds |-> account[k].revision]]
  BY DEF Load
<1>2. Shape /\ IsDocs(account) /\ Informed(d) /\ \A k \in Kinds : account[k].revision \in Nat
  BY DEF IInv, Shape, IsDocs
<1>3. /\ known' \in [Devices -> [Kinds -> Nat]] /\ known'[d] = [k \in Kinds |-> account[k].revision]
      /\ \A e \in Devices \ {d} : known'[e] = known[e]
  BY <1>1, <1>2 DEF Shape
<1>4. /\ docs' = [e \in Devices |-> docs'[e]] /\ docs'[d] = account
      /\ \A e \in Devices \ {d} : docs'[e] = docs[e]
  BY <1>1, <1>2 DEF Shape
<1>5. NoNewer(docs'[d], known'[d])
  BY <1>2, <1>3, <1>4 DEF NoNewer
<1>6. \A k \in Kinds : known[d][k] <= known'[d][k] /\ known'[d][k] <= account'[k].revision
  BY <1>1, <1>2, <1>3 DEF Informed
<1> QED BY <1>1, <1>2, <1>3, <1>4, <1>5, <1>6, DeviceMoves DEF Shape

LEMMA UseAccountInv == ASSUME IInv, NEW d \in Devices, UseAccount(d) PROVE IInv'
<1>1. /\ conflict' = [conflict EXCEPT ![d] = <<>>] /\ UNCHANGED <<account, docs, sync, known>>
      /\ Shape
  BY DEF UseAccount, IInv
<1>2. ConflictInformed(conflict'[d], known[d])
  BY <1>1 DEF Shape, ConflictInformed
<1> QED BY <1>1, <1>2, QuietMove DEF Shape

\* A synchronisation that begins is told of its base.
LEMMA PutInformed ==
    ASSUME Shape, NEW d \in Devices, NEW mode, NEW rest \in Seq(Kinds), rest # <<>>, NEW mine, NEW base,
           NoNewer(base, known[d]), Put(d, mode, rest, mine, base)
    PROVE  /\ sync' = [e \in Devices |-> sync'[e]]
           /\ \A e \in Devices \ {d} : sync'[e] = sync[e]
           /\ SyncInformed(sync'[d], known[d])
<1>1. sync' = [sync EXCEPT ![d] = [pc |-> "put", mode |-> mode, rest |-> rest, mine |-> mine,
                                   base |-> base, exists |-> FALSE]]
  BY DEF Put
<1>2. sync'[d] = [pc |-> "put", mode |-> mode, rest |-> rest, mine |-> mine,
                  base |-> base, exists |-> FALSE]
  BY <1>1 DEF Shape
<1> QED BY <1>1, <1>2 DEF Shape, SyncInformed, IsSync

LEMMA SynchronizeInv == ASSUME IInv, NEW d \in Devices, Synchronize(d) PROVE IInv'
<1>1. /\ \E mode : Put(d, mode, Order, local[d], docs[d])
      /\ conflict' = [conflict EXCEPT ![d] = <<>>] /\ UNCHANGED <<account, docs, known>>
      /\ Shape /\ NoNewer(docs[d], known[d])
  BY DEF Synchronize, IInv, Informed
<1>2. ConflictInformed(conflict'[d], known[d])
  BY <1>1 DEF Shape, ConflictInformed
<1>3. /\ sync' = [e \in Devices |-> sync'[e]]
      /\ \A e \in Devices \ {d} : sync'[e] = sync[e]
      /\ SyncInformed(sync'[d], known[d])
  BY <1>1, OrderIsSequence, PutInformed
<1> QED BY <1>1, <1>2, <1>3, QuietMove DEF Shape

\* The documents with the one of the conflict in its place are still told.
LEMMA ConflictBase ==
    ASSUME IInv, NEW d \in Devices, conflict[d] # <<>>
    PROVE  /\ conflict[d][1].kind \in Kinds
           /\ NoNewer([docs[d] EXCEPT ![conflict[d][1].kind] = conflict[d][1].remote], known[d])
<1> DEFINE c == conflict[d][1]
           ds == docs[d]
<1>1. /\ c.kind \in Kinds /\ c.remote.revision \in Nat /\ c.remote.revision <= known[d][c.kind]
      /\ NoNewer(ds, known[d])
  BY DEF IInv, Informed, ConflictInformed
<1> HIDE DEF c, ds
<1>2. NoNewer([ds EXCEPT ![c.kind] = c.remote], known[d])
  BY <1>1 DEF NoNewer, IsDocs
<1> QED BY <1>1, <1>2 DEF c, ds

LEMMA KeepLocalInv == ASSUME IInv, NEW d \in Devices, KeepLocal(d) PROVE IInv'
<1> DEFINE c == conflict[d][1]
<1>1. /\ conflict[d] # <<>> /\ UNCHANGED <<account, docs, conflict, known>> /\ Shape
      /\ \E mine : Put(d, "resolve", <<c.kind>>, mine, [docs[d] EXCEPT ![c.kind] = c.remote])
  BY DEF KeepLocal, IInv
<1>2. /\ c.kind \in Kinds /\ <<c.kind>> \in Seq(Kinds) /\ <<c.kind>> # <<>>
      /\ NoNewer([docs[d] EXCEPT ![c.kind] = c.remote], known[d])
  BY <1>1, ConflictBase
<1> HIDE DEF c
<1>3. /\ sync' = [e \in Devices |-> sync'[e]]
      /\ \A e \in Devices \ {d} : sync'[e] = sync[e]
      /\ SyncInformed(sync'[d], known[d])
  BY <1>1, <1>2, PutInformed
<1> QED BY <1>1, <1>3, QuietMove DEF Shape

LEMMA KeepRemoteInv == ASSUME IInv, NEW d \in Devices, KeepRemote(d) PROVE IInv'
<1> DEFINE next == [docs[d] EXCEPT ![conflict[d][1].kind] = conflict[d][1].remote]
<1>1. /\ conflict[d] # <<>> /\ UNCHANGED <<account, sync, known>> /\ Shape
      /\ docs' = [docs EXCEPT ![d] = next] /\ conflict' = [conflict EXCEPT ![d] = <<>>]
  BY DEF KeepRemote, IInv
<1>2. NoNewer(next, known[d])
  BY <1>1, ConflictBase
<1> HIDE DEF next
<1>3. docs'[d] = next /\ ConflictInformed(conflict'[d], known[d])
  BY <1>1 DEF Shape, ConflictInformed
<1> QED BY <1>1, <1>2, <1>3, QuietMove DEF Shape

\* Where a synchronisation is, without what it writes.
LEMMA Advanced ==
    ASSUME NEW s, IsSync(s), NEW pc, NEW exists
    PROVE  [s EXCEPT !.pc = pc, !.exists = exists] =
             [pc |-> pc, mode |-> s.mode, rest |-> s.rest, mine |-> s.mine, base |-> s.base,
              exists |-> exists]
<1> DEFINE at == [s EXCEPT !.pc = pc]
<1>1. at = [pc |-> pc, mode |-> s.mode, rest |-> s.rest, mine |-> s.mine, base |-> s.base,
            exists |-> s.exists]
  BY DEF IsSync
<1> HIDE DEF at
<1>2. [at EXCEPT !.exists = exists] =
         [pc |-> pc, mode |-> s.mode, rest |-> s.rest, mine |-> s.mine, base |-> s.base,
          exists |-> exists]
  BY <1>1
<1> QED BY <1>2, Zenon DEF at

\* The next document of a synchronisation.
LEMMA NextDocument ==
    ASSUME NEW s, IsSync(s), NEW pc, NEW rest
    PROVE  [s EXCEPT !.pc = pc, !.rest = rest] =
             [pc |-> pc, mode |-> s.mode, rest |-> rest, mine |-> s.mine, base |-> s.base,
              exists |-> s.exists]
<1> DEFINE at == [s EXCEPT !.pc = pc]
<1>1. at = [pc |-> pc, mode |-> s.mode, rest |-> s.rest, mine |-> s.mine, base |-> s.base,
            exists |-> s.exists]
  BY DEF IsSync
<1> HIDE DEF at
<1>2. [at EXCEPT !.rest = rest] =
         [pc |-> pc, mode |-> s.mode, rest |-> rest, mine |-> s.mine, base |-> s.base,
          exists |-> s.exists]
  BY <1>1
<1> QED BY <1>2, Zenon DEF at

LEMMA TailLeft ==
    ASSUME NEW K, NEW rest \in Seq(K), Len(rest) > 1
    PROVE  Tail(rest) \in Seq(K) /\ Tail(rest) # <<>>
<1>1. rest # <<>> /\ Len(rest) \in Nat /\ Len(<<>>) = 0
  OBVIOUS
<1>2. Tail(rest) \in Seq(K) /\ Len(Tail(rest)) = Len(rest) - 1
  BY <1>1
<1>3. \A n \in Nat : n > 1 => n - 1 # 0
  OBVIOUS
<1>4. Len(Tail(rest)) # 0
  BY <1>1, <1>2, <1>3, Zenon
<1> QED BY <1>1, <1>2, <1>4, Zenon

\* A synchronisation in progress goes on.
LEMMA GoesOn ==
    ASSUME IInv, NEW d \in Devices, sync[d].pc # "ready",
           NEW pc, NEW exists,
           sync' = [sync EXCEPT ![d] = [sync[d] EXCEPT !.pc = pc, !.exists = exists]]
    PROVE  /\ sync' = [e \in Devices |-> sync'[e]]
           /\ \A e \in Devices \ {d} : sync'[e] = sync[e]
           /\ SyncInformed(sync'[d], known[d])
<1> DEFINE s == sync[d]
<1>1. Shape /\ SyncInformed(s, known[d]) /\ s.pc # "ready" /\ IsSync(s)
  BY DEF IInv, Informed, SyncInformed
<1>2. sync'[d] = [s EXCEPT !.pc = pc, !.exists = exists]
  BY <1>1 DEF Shape
<1> HIDE DEF s
<1>3. [s EXCEPT !.pc = pc, !.exists = exists] =
         [pc |-> pc, mode |-> s.mode, rest |-> s.rest, mine |-> s.mine, base |-> s.base, exists |-> exists]
  BY <1>1, Advanced
<1>4. SyncInformed(sync'[d], known[d])
  BY <1>1, <1>2, <1>3 DEF SyncInformed, IsSync
<1> QED BY <1>1, <1>4 DEF Shape

LEMMA ReadInv == ASSUME IInv, NEW d \in Devices, Read(d) PROVE IInv'
<1>1. /\ sync[d].pc = "put" /\ UNCHANGED <<account, docs, conflict, known>> /\ Shape
      /\ \E exists : sync' = [sync EXCEPT ![d] = [sync[d] EXCEPT !.pc = "write", !.exists = exists]]
  BY DEF Read, IInv
<1>2. PICK exists : sync' = [sync EXCEPT ![d] = [sync[d] EXCEPT !.pc = "write", !.exists = exists]]
  BY <1>1, Zenon
<1>3. /\ sync' = [e \in Devices |-> sync'[e]]
      /\ \A e \in Devices \ {d} : sync'[e] = sync[e]
      /\ SyncInformed(sync'[d], known[d])
  BY <1>1, <1>2, GoesOn
<1> QED BY <1>1, <1>3, QuietMove DEF Shape

LEMMA ConflictingInv == ASSUME IInv, NEW d \in Devices, Conflicting(d) PROVE IInv'
<1>1. /\ sync[d].pc = "write" /\ UNCHANGED <<account, docs, conflict, known>> /\ Shape
      /\ IsSync(sync[d]) /\ sync' = [sync EXCEPT ![d] = [sync[d] EXCEPT !.pc = "latest"]]
  BY DEF Conflicting, IInv, Informed, SyncInformed
<1>2. [sync[d] EXCEPT !.pc = "latest"] = [sync[d] EXCEPT !.pc = "latest", !.exists = sync[d].exists]
  BY <1>1 DEF IsSync
<1>3. sync' = [sync EXCEPT ![d] = [sync[d] EXCEPT !.pc = "latest", !.exists = sync[d].exists]]
  BY <1>1, <1>2
<1>4. /\ sync' = [e \in Devices |-> sync'[e]]
      /\ \A e \in Devices \ {d} : sync'[e] = sync[e]
      /\ SyncInformed(sync'[d], known[d])
  BY <1>1, <1>3, GoesOn
<1> QED BY <1>1, <1>4, QuietMove DEF Shape

\* The document a synchronisation is at.
LEMMA AtKind ==
    ASSUME IInv, NEW d \in Devices, sync[d].pc # "ready"
    PROVE  /\ Kind(d) \in Kinds
           /\ sync[d].base[Kind(d)].revision \in Nat
           /\ sync[d].base[Kind(d)].revision <= known[d][Kind(d)]
<1>1. sync[d].rest \in Seq(Kinds) /\ sync[d].rest # <<>> /\ NoNewer(sync[d].base, known[d])
  BY DEF IInv, Informed, SyncInformed
<1>2. Kind(d) \in Kinds
  BY <1>1 DEF Kind
<1> QED BY <1>1, <1>2 DEF NoNewer, IsDocs

\* The account's next revision of a document, and the device that is told of it.
LEMMA NextRevision ==
    ASSUME IInv, NEW d \in Devices, NEW k \in Kinds, NEW payload,
           account' = [account EXCEPT ![k] = Document(account[k].revision + 1, payload)]
    PROVE  /\ IsDocs(account')
           /\ \A i \in Kinds : account[i].revision <= account'[i].revision
           /\ account'[k] = Document(account[k].revision + 1, payload)
           /\ account'[k].revision \in Nat
           /\ \A i \in Kinds : known[d][i] \in Nat /\ known[d][i] <= account'[i].revision
<1>1. IsDocs(account) /\ known \in [Devices -> [Kinds -> Nat]] /\ Informed(d)
  BY DEF IInv, Shape
<1>2. account'[k].revision = account[k].revision + 1 /\ account[k].revision \in Nat
  BY <1>1 DEF IsDocs, Document
<1>3. \A i \in Kinds \ {k} : account'[i] = account[i]
  BY <1>1 DEF IsDocs
<1>4. IsDocs(account')
  BY <1>1, <1>2, <1>3 DEF IsDocs
<1>5. account'[k] = Document(account[k].revision + 1, payload)
  BY <1>1 DEF IsDocs
<1>6. ASSUME NEW i \in Kinds
      PROVE  /\ account[i].revision <= account'[i].revision
             /\ known[d][i] \in Nat /\ known[d][i] <= account'[i].revision
  <2>1. account[i].revision \in Nat /\ known[d][i] \in Nat /\ known[d][i] <= account[i].revision
    BY <1>1 DEF IsDocs, Informed
  <2> QED BY <1>2, <1>3, <2>1
<1> QED BY <1>2, <1>4, <1>5, <1>6

\* Telling a device the account's revision of one document.
LEMMA ToldOne ==
    ASSUME IInv, NEW d \in Devices, NEW k \in Kinds, NEW n \in Nat,
           known[d][k] <= n, known' = Told(d, k, n)
    PROVE  /\ known' \in [Devices -> [Kinds -> Nat]]
           /\ \A e \in Devices \ {d} : known'[e] = known[e]
           /\ known'[d][k] = n
           /\ \A i \in Kinds \ {k} : known'[d][i] = known[d][i]
           /\ \A i \in Kinds : known[d][i] <= known'[d][i]
<1>1. known \in [Devices -> [Kinds -> Nat]]
  BY DEF IInv, Shape
<1> QED BY <1>1 DEF Told

\* The account's answer to a write, or to an import, becomes the device's document.
LEMMA DocumentTold ==
    ASSUME IInv, NEW d \in Devices, NEW k \in Kinds, NEW doc,
           IsDocs(account'), account'[k] = doc, account'[k].revision \in Nat,
           known[d][k] <= account'[k].revision,
           known' = Told(d, k, doc.revision),
           docs' = [docs EXCEPT ![d][k] = doc]
    PROVE  /\ docs' = [e \in Devices |-> docs'[e]]
           /\ \A e \in Devices \ {d} : docs'[e] = docs[e]
           /\ NoNewer(docs'[d], known'[d])
<1>1. /\ docs = [e \in Devices |-> docs[e]] /\ NoNewer(docs[d], known[d])
      /\ known[d] \in [Kinds -> Nat]
  BY DEF IInv, Shape, Informed
<1>2. docs'[d] = [docs[d] EXCEPT ![k] = doc]
  BY <1>1
<1>3. /\ known'[d][k] = doc.revision /\ known'[d] \in [Kinds -> Nat]
      /\ \A i \in Kinds \ {k} : known'[d][i] = known[d][i]
  BY ToldOne
<1>4. NoNewer([docs[d] EXCEPT ![k] = doc], known'[d])
  <2>1. \A ds, told : ds = [i \in Kinds |-> ds[i]] /\ told = known'[d]
           /\ (\A i \in Kinds : ds[i].revision \in Nat /\ ds[i].revision <= known[d][i])
           => NoNewer([ds EXCEPT ![k] = doc], told)
    BY <1>1, <1>3 DEF NoNewer, IsDocs
  <2> QED BY <1>1, <2>1 DEF NoNewer, IsDocs
<1> QED BY <1>1, <1>2, <1>4

LEMMA WriteInv == ASSUME IInv, NEW d \in Devices, Write(d) PROVE IInv'
<1> DEFINE s == sync[d]
           k == Kind(d)
           doc == Document(account[k].revision + 1, Payload(d))
<1>1. /\ s.pc = "write" /\ account' = [account EXCEPT ![k] = doc]
      /\ docs' = [docs EXCEPT ![d][k] = doc] /\ known' = Told(d, k, doc.revision)
  BY DEF Write
<1>2. k \in Kinds /\ Shape /\ SyncInformed(s, known[d])
  BY <1>1, AtKind DEF IInv, Informed
<1>3. /\ IsDocs(account')
      /\ \A i \in Kinds : account[i].revision <= account'[i].revision
      /\ account'[k] = doc /\ account'[k].revision \in Nat
      /\ \A i \in Kinds : known[d][i] \in Nat /\ known[d][i] <= account'[i].revision
  BY <1>1, <1>2, NextRevision
<1>4. \/ /\ Len(s.rest) > 1
         /\ sync' = [sync EXCEPT ![d].pc = "put", ![d].rest = Tail(s.rest)]
         /\ UNCHANGED conflict
      \/ /\ Stop(d)
         /\ conflict' \in {conflict, [conflict EXCEPT ![d] = <<>>]}
  BY DEF Write
<1> HIDE DEF s, k, doc
<1>5. /\ known' \in [Devices -> [Kinds -> Nat]] /\ known'[d][k] = account'[k].revision
      /\ \A e \in Devices \ {d} : known'[e] = known[e]
      /\ \A i \in Kinds \ {k} : known'[d][i] = known[d][i]
      /\ \A i \in Kinds : known[d][i] <= known'[d][i]
  BY <1>1, <1>2, <1>3, ToldOne
<1>6. /\ docs' = [e \in Devices |-> docs'[e]]
      /\ \A e \in Devices \ {d} : docs'[e] = docs[e]
      /\ NoNewer(docs'[d], known'[d])
  BY <1>1, <1>2, <1>3, DocumentTold
<1>7. /\ sync' = [e \in Devices |-> sync'[e]]
      /\ \A e \in Devices \ {d} : sync'[e] = sync[e]
      /\ SyncInformed(sync'[d], known'[d])
  <2>1. CASE Stop(d)
    BY <1>2, <2>1, StopInformed
  <2>2. CASE Len(s.rest) > 1 /\ sync' = [sync EXCEPT ![d].pc = "put", ![d].rest = Tail(s.rest)]
    <3>1. sync' = [sync EXCEPT ![d] = [s EXCEPT !.pc = "put", !.rest = Tail(s.rest)]]
      BY <2>2 DEF s
    <3>2. sync'[d] = [s EXCEPT !.pc = "put", !.rest = Tail(s.rest)]
      BY <1>2, <3>1 DEF Shape
    <3>3. [s EXCEPT !.pc = "put", !.rest = Tail(s.rest)] =
             [pc |-> "put", mode |-> s.mode, rest |-> Tail(s.rest), mine |-> s.mine,
              base |-> s.base, exists |-> s.exists]
      BY <1>2, NextDocument DEF SyncInformed
    <3>4. Tail(s.rest) \in Seq(Kinds) /\ Tail(s.rest) # <<>>
      <4>1. s.rest \in Seq(Kinds)
        BY <1>1, <1>2 DEF SyncInformed
      <4> QED BY <4>1, <2>2, TailLeft
    <3>5. NoNewer(s.base, known'[d])
      BY <1>1, <1>2, <1>5, ToldMore DEF SyncInformed, Shape
    <3>6. SyncInformed(sync'[d], known'[d])
      BY <3>2, <3>3, <3>4, <3>5 DEF SyncInformed, IsSync
    <3> QED BY <1>2, <3>1, <3>6 DEF Shape
  <2> QED BY <1>4, <2>1, <2>2
<1>8. /\ conflict' = [e \in Devices |-> conflict'[e]]
      /\ \A e \in Devices \ {d} : conflict'[e] = conflict[e]
      /\ conflict'[d] = conflict[d] \/ ConflictInformed(conflict'[d], known'[d])
  <2>1. conflict' \in {conflict, [conflict EXCEPT ![d] = <<>>]}
    BY <1>4
  <2> QED BY <1>2, <2>1 DEF Shape, ConflictInformed
<1>9. \A i \in Kinds : known'[d][i] <= account'[i].revision
  BY <1>3, <1>5
<1> QED BY <1>3, <1>5, <1>6, <1>7, <1>8, <1>9, DeviceMoves

LEMMA AnswerLostInv == ASSUME IInv, NEW d \in Devices, AnswerLost(d) PROVE IInv'
<1> DEFINE k == Kind(d)
<1>1. /\ sync[d].pc = "write" /\ Stop(d) /\ UNCHANGED <<docs, conflict, known>>
      /\ account' = [account EXCEPT ![k] = Document(account[k].revision + 1, Payload(d))]
  BY DEF AnswerLost
<1>2. k \in Kinds /\ Shape
  BY <1>1, AtKind DEF IInv
<1> HIDE DEF k
<1>3. /\ IsDocs(account')
      /\ \A i \in Kinds : account[i].revision <= account'[i].revision
      /\ \A i \in Kinds : known[d][i] \in Nat /\ known[d][i] <= account'[i].revision
  BY <1>1, <1>2, NextRevision
<1>4. /\ sync' = [e \in Devices |-> sync'[e]]
      /\ \A e \in Devices \ {d} : sync'[e] = sync[e]
      /\ SyncInformed(sync'[d], known'[d])
  BY <1>1, <1>2, StopInformed
<1>5. /\ known' \in [Devices -> [Kinds -> Nat]]
      /\ docs' = [e \in Devices |-> docs'[e]] /\ conflict' = [e \in Devices |-> conflict'[e]]
  BY <1>1, <1>2 DEF Shape
<1>6. \A i \in Kinds : known[d][i] <= known'[d][i] /\ known'[d][i] <= account'[i].revision
  BY <1>1, <1>3
<1> QED BY <1>1, <1>3, <1>4, <1>5, <1>6, DeviceMoves

LEMMA ShowConflictInv == ASSUME IInv, NEW d \in Devices, ShowConflict(d) PROVE IInv'
<1> DEFINE k == Kind(d)
           c == [kind |-> k, mine |-> Payload(d), remote |-> account[k]]
<1>1. /\ sync[d].pc = "latest" /\ Stop(d) /\ UNCHANGED <<account, docs>>
      /\ conflict' = [conflict EXCEPT ![d] = <<c>>] /\ known' = Told(d, k, account[k].revision)
  BY DEF ShowConflict
<1>2. k \in Kinds /\ Shape /\ Informed(d)
  BY <1>1, AtKind DEF IInv
<1> HIDE DEF k
<1>3. account[k].revision \in Nat /\ known[d][k] <= account[k].revision
  BY <1>2 DEF Shape, IsDocs, Informed
<1>4. /\ known' \in [Devices -> [Kinds -> Nat]] /\ known'[d][k] = account[k].revision
      /\ \A e \in Devices \ {d} : known'[e] = known[e]
      /\ \A i \in Kinds \ {k} : known'[d][i] = known[d][i]
      /\ \A i \in Kinds : known[d][i] <= known'[d][i]
  BY <1>1, <1>2, <1>3, ToldOne
<1>5. conflict'[d] = <<c>> /\ c.kind = k /\ c.remote = account[k]
  BY <1>1, <1>2 DEF Shape
<1>6. ConflictInformed(conflict'[d], known'[d])
  BY <1>2, <1>3, <1>4, <1>5 DEF ConflictInformed
<1>7. /\ sync' = [e \in Devices |-> sync'[e]]
      /\ \A e \in Devices \ {d} : sync'[e] = sync[e]
      /\ SyncInformed(sync'[d], known'[d])
  BY <1>1, <1>2, StopInformed
<1>8. \A i \in Kinds : account[i].revision <= account'[i].revision /\ known'[d][i] <= account'[i].revision
  BY <1>1, <1>2, <1>3, <1>4 DEF Shape, IsDocs, Informed
<1> QED BY <1>1, <1>2, <1>4, <1>6, <1>7, <1>8, DeviceMoves DEF Shape

LEMMA FailedInv == ASSUME IInv, NEW d \in Devices, Failed(d) PROVE IInv'
  BY StopInformed, QuietMove DEF Failed, IInv, Shape

LEMMA SpotifySyncInv == ASSUME IInv, NEW d \in Devices, SpotifySync(d) PROVE IInv'
<1> DEFINE k == "collections"
           doc == Document(account[k].revision + 1, Imported)
<1>1. /\ k \in Kinds /\ Shape /\ account' = [account EXCEPT ![k] = doc]
      /\ docs' = [docs EXCEPT ![d][k] = doc] /\ known' = Told(d, k, doc.revision)
      /\ UNCHANGED <<sync, conflict>>
  BY OrderIsSequence DEF SpotifySync, IInv
<1> HIDE DEF k
<1>2. /\ IsDocs(account')
      /\ \A i \in Kinds : account[i].revision <= account'[i].revision
      /\ account'[k] = doc /\ account'[k].revision \in Nat
      /\ \A i \in Kinds : known[d][i] \in Nat /\ known[d][i] <= account'[i].revision
  BY <1>1, NextRevision
<1> HIDE DEF doc
<1>3. /\ known' \in [Devices -> [Kinds -> Nat]] /\ known'[d][k] = account'[k].revision
      /\ \A e \in Devices \ {d} : known'[e] = known[e]
      /\ \A i \in Kinds \ {k} : known'[d][i] = known[d][i]
      /\ \A i \in Kinds : known[d][i] <= known'[d][i]
  BY <1>1, <1>2, ToldOne
<1>4. /\ docs' = [e \in Devices |-> docs'[e]]
      /\ \A e \in Devices \ {d} : docs'[e] = docs[e]
      /\ NoNewer(docs'[d], known'[d])
  BY <1>1, <1>2, DocumentTold
<1>5. \A i \in Kinds : known'[d][i] <= account'[i].revision
  BY <1>2, <1>3
<1> QED BY <1>1, <1>2, <1>3, <1>4, <1>5, DeviceMoves DEF Shape

-----------------------------------------------------------------------------
LEMMA NextInv == IInv /\ [Next]_vars => IInv'
<1> SUFFICES ASSUME IInv, [Next]_vars PROVE IInv'
  OBVIOUS
<1>1. ASSUME NEW d \in Devices, Edit(d) \/ Load(d) \/ UseAccount(d) \/ Synchronize(d)
      PROVE  IInv'
  BY <1>1, EditInv, LoadInv, UseAccountInv, SynchronizeInv
<1>2. ASSUME NEW d \in Devices, KeepLocal(d) \/ KeepRemote(d) \/ Read(d) \/ Write(d)
      PROVE  IInv'
  BY <1>2, KeepLocalInv, KeepRemoteInv, ReadInv, WriteInv
<1>3. ASSUME NEW d \in Devices,
             Conflicting(d) \/ ShowConflict(d) \/ Failed(d) \/ AnswerLost(d) \/ SpotifySync(d)
      PROVE  IInv'
  BY <1>3, ConflictingInv, ShowConflictInv, FailedInv, AnswerLostInv, SpotifySyncInv
<1>4. CASE UNCHANGED vars
  BY <1>4 DEF vars, IInv, Shape, Informed
<1> QED BY <1>1, <1>2, <1>3, <1>4 DEF Next

\* Only a write of the device itself changes the account while the device stops waiting
\* for the answer to one.
LEMMA WritesItself ==
    ASSUME IInv, Next, NEW d \in Devices, Writing(d)
    PROVE  Write(d) \/ AnswerLost(d)
<1>1. PICK e \in Devices : Write(e) \/ AnswerLost(e)
  <2>1. ASSUME NEW e \in Devices,
               \/ Edit(e) \/ Load(e) \/ UseAccount(e) \/ Synchronize(e) \/ KeepLocal(e) \/ KeepRemote(e)
               \/ Read(e) \/ Conflicting(e) \/ ShowConflict(e) \/ Failed(e)
        PROVE  account' = account
    BY <2>1 DEF Edit, Load, UseAccount, Synchronize, KeepLocal, KeepRemote, Read, Conflicting,
                ShowConflict, Failed
  <2>2. ASSUME NEW e \in Devices, SpotifySync(e) PROVE sync' = sync
    BY <2>2 DEF SpotifySync
  <2> QED BY <2>1, <2>2 DEF Next, Writing
<1>2. \A x \in Devices \ {e} : sync'[x] = sync[x]
  <2>1. sync = [x \in Devices |-> sync[x]]
    BY DEF IInv, Shape
  <2>2. \E r : sync' = [sync EXCEPT ![e] = r]
    BY <1>1 DEF Write, AnswerLost, Stop
  <2> QED BY <2>1, <2>2
<1>3. d = e
  BY <1>2 DEF Writing
<1> QED BY <1>1, <1>3

\* A device replaces only a document it has been told of, whatever other devices, imports,
\* lost answers and conflicts come in between.
THEOREM NothingUnseenIsReplaced == Spec => OnlyKnownReplaced
<1>1. IInv /\ [Next]_vars => IInv'
  BY NextInv
<1>2. IInv /\ [Next]_vars =>
         [\A d \in Devices : Writing(d) => account[Kind(d)].revision <= known[d][Kind(d)]]_vars
  <2> SUFFICES ASSUME IInv, Next, NEW d \in Devices, Writing(d)
               PROVE  account[Kind(d)].revision <= known[d][Kind(d)]
    OBVIOUS
  <2>1. /\ Kind(d) \in Kinds /\ known[d][Kind(d)] \in Nat
        /\ sync[d].base[Kind(d)].revision <= known[d][Kind(d)]
    BY AtKind DEF Writing, IInv, Shape
  <2>2. \/ account[Kind(d)].revision = sync[d].base[Kind(d)].revision
        \/ account[Kind(d)] = NoDocument
    BY WritesItself DEF Write, AnswerLost, Accepted
  <2> QED BY <2>1, <2>2 DEF NoDocument
<1> QED BY <1>1, <1>2, InitInv, PTL DEF Spec, OnlyKnownReplaced

-----------------------------------------------------------------------------
(* What a merge keeps.  A device that holds a document of the account's own  *)
(* revision holds that very document, so what it merges is what it replaces; *)
(* and no import of Spotify ever gets among the favourites, of which the     *)
(* panel takes out what it imported and the planner does not.                *)

NoImport(k, payload) == k = "favorites" => payload \cap Imported = {}

\* current: the document of the account.
Held(doc, k, current) ==
    /\ doc.revision = current.revision => doc = current
    /\ NoImport(k, doc.payload)
AllHeld(ds, current) == \A k \in Kinds : Held(ds[k], k, current[k])

Unmixed(plan) == \A k \in Kinds : NoImport(k, plan[k])
IsPlan(plan) == plan = [k \in Kinds |-> plan[k]] /\ Unmixed(plan)

SyncHeld(s, current) == s.pc # "ready" => AllHeld(s.base, current) /\ IsPlan(s.mine)
ConflictHeld(cs, current) ==
    cs # <<>> => /\ Held(cs[1].remote, cs[1].kind, current[cs[1].kind])
                 /\ NoImport(cs[1].kind, cs[1].mine)

Honest(d) ==
    /\ IsPlan(local[d])
    /\ AllHeld(docs[d], account)
    /\ SyncHeld(sync[d], account)
    /\ ConflictHeld(conflict[d], account)

MergeInv ==
    /\ IInv
    /\ local = [d \in Devices |-> local[d]]
    /\ \A k \in Kinds : NoImport(k, account[k].payload)
    /\ \A d \in Devices : Honest(d)

LEMMA KindsNamed == Kinds \subseteq {"favorites", "collections", "saved-filters", "plans"}
<1>1. Kinds \subseteq ToSet(AllKinds)
  BY PlannerAssumption, Zenon
<1>2. ToSet(AllKinds) = {"favorites", "collections", "saved-filters", "plans"}
  BY DEF ToSet, AllKinds
<1> QED BY <1>1, <1>2

LEMMA EmptyIsPlan == IsPlan(Empty)
  BY DEF IsPlan, Unmixed, NoImport, Empty

\* The account as the document of every kind, at its own revision.
LEMMA AccountHeld ==
    ASSUME NEW current, \A k \in Kinds : NoImport(k, current[k].payload)
    PROVE  AllHeld(current, current)
  BY DEF AllHeld, Held

LEMMA MergeInit == Init => MergeInv
<1> SUFFICES ASSUME Init PROVE MergeInv
  OBVIOUS
<1>1. IInv
  BY InitInv
<1>2. local = [d \in Devices |-> Empty] /\ account = [k \in Kinds |-> NoDocument]
  BY DEF Init
<1>3. \A k \in Kinds : NoImport(k, account[k].payload)
  BY <1>2 DEF NoImport, NoDocument
<1>4. ASSUME NEW d \in Devices PROVE Honest(d)
  <2>1. docs[d] = account /\ sync[d].pc = "ready" /\ conflict[d] = <<>> /\ local[d] = Empty
    BY <1>2 DEF Init, Ready
  <2>2. AllHeld(docs[d], account)
    BY <1>3, <2>1, AccountHeld
  <2> QED BY <2>1, <2>2, EmptyIsPlan DEF Honest, SyncHeld, ConflictHeld
<1> QED BY <1>1, <1>2, <1>3, <1>4 DEF MergeInv

\* What is held stays held when the account goes on to a next revision: it is older then.
LEMMA StaysHeld ==
    ASSUME NEW old, NEW new, NEW told, IsDocs(old),
           \A k \in Kinds : told[k] \in Nat /\ told[k] <= old[k].revision,
           \A k \in Kinds : new[k] = old[k] \/ new[k].revision = old[k].revision + 1
    PROVE  /\ \A ds : NoNewer(ds, told) /\ AllHeld(ds, old) => AllHeld(ds, new)
           /\ \A s : SyncInformed(s, told) /\ SyncHeld(s, old) => SyncHeld(s, new)
           /\ \A cs : ConflictInformed(cs, told) /\ ConflictHeld(cs, old) => ConflictHeld(cs, new)
<1>1. ASSUME NEW doc, NEW k \in Kinds, Held(doc, k, old[k]),
             doc.revision \in Nat, doc.revision <= told[k]
      PROVE  Held(doc, k, new[k])
  <2>1. old[k].revision \in Nat /\ told[k] \in Nat /\ told[k] <= old[k].revision
    BY DEF IsDocs
  <2>2. CASE new[k] = old[k]
    BY <1>1, <2>2
  <2>3. CASE new[k].revision = old[k].revision + 1
    BY <1>1, <2>1, <2>3 DEF Held
  <2> QED BY <2>2, <2>3
<1>2. ASSUME NEW ds, NoNewer(ds, told), AllHeld(ds, old) PROVE AllHeld(ds, new)
  BY <1>1, <1>2 DEF NoNewer, IsDocs, AllHeld
<1>3. ASSUME NEW s, SyncInformed(s, told), SyncHeld(s, old) PROVE SyncHeld(s, new)
  BY <1>2, <1>3 DEF SyncInformed, SyncHeld
<1>4. ASSUME NEW cs, ConflictInformed(cs, told), ConflictHeld(cs, old) PROVE ConflictHeld(cs, new)
  BY <1>1, <1>4 DEF ConflictInformed, ConflictHeld
<1> QED BY <1>2, <1>3, <1>4

\* A step of one device, with the account at the same or the next revision of each document.
LEMMA HonestMoves ==
    ASSUME MergeInv, IInv', NEW d \in Devices,
           local' = [e \in Devices |-> local'[e]],
           \A e \in Devices \ {d} : /\ docs'[e] = docs[e] /\ local'[e] = local[e]
                                    /\ sync'[e] = sync[e] /\ conflict'[e] = conflict[e],
           \A k \in Kinds : account'[k] = account[k] \/ account'[k].revision = account[k].revision + 1,
           \A k \in Kinds : NoImport(k, account'[k].payload),
           local'[d] = local[d] \/ IsPlan(local'[d]),
           docs'[d] = docs[d] \/ AllHeld(docs'[d], account'),
           sync'[d] = sync[d] \/ SyncHeld(sync'[d], account'),
           conflict'[d] = conflict[d] \/ ConflictHeld(conflict'[d], account')
    PROVE  MergeInv'
<1>1. ASSUME NEW e \in Devices
      PROVE  /\ AllHeld(docs[e], account') /\ SyncHeld(sync[e], account')
             /\ ConflictHeld(conflict[e], account') /\ IsPlan(local[e])
  <2>1. Informed(e) /\ Honest(e) /\ IsDocs(account) /\ known[e] \in [Kinds -> Nat]
    BY DEF MergeInv, IInv, Shape
  <2>2. \A k \in Kinds : known[e][k] \in Nat /\ known[e][k] <= account[k].revision
    BY <2>1 DEF Informed
  <2>3. /\ \A ds : NoNewer(ds, known[e]) /\ AllHeld(ds, account) => AllHeld(ds, account')
        /\ \A s : SyncInformed(s, known[e]) /\ SyncHeld(s, account) => SyncHeld(s, account')
        /\ \A cs : ConflictInformed(cs, known[e]) /\ ConflictHeld(cs, account)
                     => ConflictHeld(cs, account')
    BY <2>1, <2>2, StaysHeld
  <2> QED BY <2>1, <2>3 DEF Informed, Honest
<1>2. ASSUME NEW e \in Devices PROVE Honest(e)'
  <2>1. CASE e = d
    BY <1>1, <2>1 DEF Honest
  <2>2. CASE e # d
    BY <1>1, <2>2 DEF Honest
  <2> QED BY <2>1, <2>2
<1> QED BY <1>2 DEF MergeInv

\* The common case: the account stays as it is.
LEMMA HonestQuiet ==
    ASSUME MergeInv, IInv', NEW d \in Devices, account' = account,
           local' = [e \in Devices |-> local'[e]],
           \A e \in Devices \ {d} : /\ docs'[e] = docs[e] /\ local'[e] = local[e]
                                    /\ sync'[e] = sync[e] /\ conflict'[e] = conflict[e],
           local'[d] = local[d] \/ IsPlan(local'[d]),
           docs'[d] = docs[d] \/ AllHeld(docs'[d], account),
           sync'[d] = sync[d] \/ SyncHeld(sync'[d], account),
           conflict'[d] = conflict[d] \/ ConflictHeld(conflict'[d], account)
    PROVE  MergeInv'
<1>1. /\ \A k \in Kinds : account'[k] = account[k]
      /\ \A k \in Kinds : NoImport(k, account'[k].payload)
  BY DEF MergeInv
<1> QED BY <1>1, HonestMoves

-----------------------------------------------------------------------------
\* One lemma per operation again, for what they make of plans and payloads.

\* What an edit makes of a plan.
LEMMA EditedPlan ==
    ASSUME NEW plan, IsPlan(plan)
    PROVE  /\ \A i : \A k \in Kinds : IsPlan([plan EXCEPT ![k] = Toggled(@, <<i, "chosen">>)])
           /\ \A entries : \A k \in Kinds \ {"favorites"} : IsPlan([plan EXCEPT ![k] = entries])
<1>1. ASSUME NEW k \in Kinds, NEW i
      PROVE  IsPlan([plan EXCEPT ![k] = Toggled(@, <<i, "chosen">>)])
  <2> DEFINE new == Toggled(plan[k], <<i, "chosen">>)
  <2>1. <<i, "chosen">> \notin Imported
    BY DEF Imported
  <2>2. NoImport(k, new)
    BY <2>1 DEF IsPlan, Unmixed, NoImport, Toggled
  <2> HIDE DEF new
  <2>3. IsPlan([plan EXCEPT ![k] = new])
    BY <2>2 DEF IsPlan, Unmixed
  <2> QED BY <2>3 DEF new
<1>2. ASSUME NEW k \in Kinds \ {"favorites"}, NEW entries PROVE IsPlan([plan EXCEPT ![k] = entries])
  BY DEF IsPlan, Unmixed, NoImport
<1> QED BY <1>1, <1>2

LEMMA EditMerge == ASSUME MergeInv, IInv', NEW d \in Devices, Edit(d) PROVE MergeInv'
<1>1. /\ UNCHANGED <<account, docs, sync, conflict>> /\ local = [e \in Devices |-> local[e]]
      /\ IsPlan(local[d])
  BY DEF Edit, MergeInv, Honest
<1>2. \E plan : local' = [local EXCEPT ![d] = plan] /\ IsPlan(plan)
  <2>1. CASE \E k \in {"favorites", "collections"}, i \in Items :
               k \in Kinds /\ local' = [local EXCEPT ![d][k] = Toggled(@, <<i, "chosen">>)]
    BY <1>1, <2>1, EditedPlan
  <2>2. CASE \E entries : "plans" \in Kinds /\ local' = [local EXCEPT ![d]["plans"] = entries]
    BY <1>1, <2>2, EditedPlan
  <2>3. CASE \E entries :
               "saved-filters" \in Kinds /\ local' = [local EXCEPT ![d]["saved-filters"] = entries]
    BY <1>1, <2>3, EditedPlan
  <2> QED BY <2>1, <2>2, <2>3 DEF Edit
<1>3. PICK plan : local' = [local EXCEPT ![d] = plan] /\ IsPlan(plan)
  BY <1>2
<1>4. /\ local' = [e \in Devices |-> local'[e]] /\ local'[d] = plan
      /\ \A e \in Devices \ {d} : local'[e] = local[e]
  BY <1>1, <1>3
<1> QED BY <1>1, <1>3, <1>4, HonestQuiet

LEMMA LoadMerge == ASSUME MergeInv, IInv', NEW d \in Devices, Load(d) PROVE MergeInv'
<1>1. /\ docs' = [docs EXCEPT ![d] = account] /\ UNCHANGED <<account, local, sync, conflict>>
      /\ Shape /\ AllHeld(account, account)
  BY AccountHeld DEF Load, MergeInv, IInv
<1>2. docs'[d] = account /\ \A e \in Devices \ {d} : docs'[e] = docs[e]
  BY <1>1 DEF Shape
<1> QED BY <1>1, <1>2, HonestQuiet DEF MergeInv

\* The plan of documents that are held.
LEMMA PlanOfHeld ==
    ASSUME NEW ds, NEW current, AllHeld(ds, current)
    PROVE  IsPlan(PlannerFrom(ds))
<1>1. PlannerFrom(ds) = [k \in Kinds |-> PlannerFrom(ds)[k]]
  BY DEF PlannerFrom
<1>2. ASSUME NEW k \in Kinds PROVE NoImport(k, PlannerFrom(ds)[k])
  <2>1. CASE k = "favorites"
    BY <2>1 DEF PlannerFrom, AllHeld, Held, NoImport, Empty
  <2> QED BY <2>1 DEF NoImport
<1> QED BY <1>1, <1>2 DEF IsPlan, Unmixed

LEMMA UseAccountMerge == ASSUME MergeInv, IInv', NEW d \in Devices, UseAccount(d) PROVE MergeInv'
<1>1. /\ local' = [local EXCEPT ![d] = PlannerFrom(docs[d])] /\ conflict' = [conflict EXCEPT ![d] = <<>>]
      /\ UNCHANGED <<account, docs, sync>> /\ Shape /\ local = [e \in Devices |-> local[e]]
      /\ IsPlan(PlannerFrom(docs[d]))
  BY PlanOfHeld DEF UseAccount, MergeInv, IInv, Honest
<1>2. /\ local'[d] = PlannerFrom(docs[d]) /\ local' = [e \in Devices |-> local'[e]]
      /\ \A e \in Devices \ {d} : local'[e] = local[e]
  BY <1>1
<1>3. /\ ConflictHeld(conflict'[d], account) /\ \A e \in Devices \ {d} : conflict'[e] = conflict[e]
  BY <1>1 DEF Shape, ConflictHeld
<1> QED BY <1>1, <1>2, <1>3, HonestQuiet

LEMMA PutHeld ==
    ASSUME Shape, NEW d \in Devices, NEW mode, NEW rest, NEW mine, NEW base,
           AllHeld(base, account), IsPlan(mine), Put(d, mode, rest, mine, base)
    PROVE  /\ \A e \in Devices \ {d} : sync'[e] = sync[e]
           /\ SyncHeld(sync'[d], account)
<1>1. /\ sync'[d] = [pc |-> "put", mode |-> mode, rest |-> rest, mine |-> mine,
                     base |-> base, exists |-> FALSE]
      /\ \A e \in Devices \ {d} : sync'[e] = sync[e]
  BY DEF Put, Shape
<1> QED BY <1>1 DEF SyncHeld

LEMMA SynchronizeMerge == ASSUME MergeInv, IInv', NEW d \in Devices, Synchronize(d) PROVE MergeInv'
<1>1. /\ \E mode : Put(d, mode, Order, local[d], docs[d])
      /\ conflict' = [conflict EXCEPT ![d] = <<>>] /\ UNCHANGED <<account, local, docs>>
      /\ Shape /\ AllHeld(docs[d], account) /\ IsPlan(local[d])
  BY DEF Synchronize, MergeInv, IInv, Honest
<1>2. /\ ConflictHeld(conflict'[d], account) /\ \A e \in Devices \ {d} : conflict'[e] = conflict[e]
  BY <1>1 DEF Shape, ConflictHeld
<1>3. /\ \A e \in Devices \ {d} : sync'[e] = sync[e]
      /\ SyncHeld(sync'[d], account)
  BY <1>1, PutHeld
<1> QED BY <1>1, <1>2, <1>3, HonestQuiet DEF MergeInv

\* The documents with the one of the conflict in its place are still held.
LEMMA ConflictBaseHeld ==
    ASSUME MergeInv, NEW d \in Devices, conflict[d] # <<>>
    PROVE  /\ AllHeld([docs[d] EXCEPT ![conflict[d][1].kind] = conflict[d][1].remote], account)
           /\ IsPlan([Empty EXCEPT ![conflict[d][1].kind] = conflict[d][1].mine])
<1> DEFINE c == conflict[d][1]
           ds == docs[d]
<1>1. /\ c.kind \in Kinds /\ Held(c.remote, c.kind, account[c.kind]) /\ NoImport(c.kind, c.mine)
      /\ IsDocs(ds) /\ AllHeld(ds, account)
  BY DEF MergeInv, IInv, Informed, ConflictInformed, NoNewer, Honest, ConflictHeld
<1> HIDE DEF c, ds
<1>2. ds = [k \in Kinds |-> ds[k]]
  BY <1>1 DEF IsDocs
<1>3. AllHeld([ds EXCEPT ![c.kind] = c.remote], account)
  BY <1>1, <1>2 DEF AllHeld
<1>4. \A plan : IsPlan(plan) => IsPlan([plan EXCEPT ![c.kind] = c.mine])
  BY <1>1 DEF IsPlan, Unmixed
<1> QED BY <1>3, <1>4, EmptyIsPlan DEF c, ds

LEMMA KeepLocalMerge == ASSUME MergeInv, IInv', NEW d \in Devices, KeepLocal(d) PROVE MergeInv'
<1> DEFINE base == [docs[d] EXCEPT ![conflict[d][1].kind] = conflict[d][1].remote]
           mine == [Empty EXCEPT ![conflict[d][1].kind] = conflict[d][1].mine]
<1>1. /\ conflict[d] # <<>> /\ UNCHANGED <<account, local, docs, conflict>> /\ Shape
      /\ \E rest : Put(d, "resolve", rest, mine, base)
  BY DEF KeepLocal, MergeInv, IInv
<1>2. AllHeld(base, account) /\ IsPlan(mine)
  BY <1>1, ConflictBaseHeld
<1> HIDE DEF base, mine
<1>3. /\ \A e \in Devices \ {d} : sync'[e] = sync[e]
      /\ SyncHeld(sync'[d], account)
  BY <1>1, <1>2, PutHeld
<1> QED BY <1>1, <1>3, HonestQuiet DEF MergeInv

LEMMA KeepRemoteMerge == ASSUME MergeInv, IInv', NEW d \in Devices, KeepRemote(d) PROVE MergeInv'
<1> DEFINE next == [docs[d] EXCEPT ![conflict[d][1].kind] = conflict[d][1].remote]
<1>1. /\ conflict[d] # <<>> /\ UNCHANGED <<account, sync>> /\ Shape
      /\ local = [e \in Devices |-> local[e]]
      /\ docs' = [docs EXCEPT ![d] = next] /\ local' = [local EXCEPT ![d] = PlannerFrom(next)]
      /\ conflict' = [conflict EXCEPT ![d] = <<>>]
  BY DEF KeepRemote, MergeInv, IInv
<1>2. AllHeld(next, account)
  BY <1>1, ConflictBaseHeld
<1> HIDE DEF next
<1>3. IsPlan(PlannerFrom(next))
  BY <1>2, PlanOfHeld
<1>4. /\ docs'[d] = next /\ local'[d] = PlannerFrom(next) /\ local' = [e \in Devices |-> local'[e]]
      /\ conflict'[d] = <<>>
      /\ \A e \in Devices \ {d} : /\ docs'[e] = docs[e] /\ local'[e] = local[e]
                                  /\ conflict'[e] = conflict[e]
  BY <1>1 DEF Shape
<1>5. ConflictHeld(conflict'[d], account)
  BY <1>4 DEF ConflictHeld
<1> QED BY <1>1, <1>2, <1>3, <1>4, <1>5, HonestQuiet

\* A synchronisation in progress goes on with what it has.
LEMMA GoesOnHeld ==
    ASSUME MergeInv, NEW d \in Devices, sync[d].pc # "ready", NEW pc, NEW exists,
           sync' = [sync EXCEPT ![d] = [sync[d] EXCEPT !.pc = pc, !.exists = exists]]
    PROVE  /\ \A e \in Devices \ {d} : sync'[e] = sync[e]
           /\ SyncHeld(sync'[d], account)
<1> DEFINE s == sync[d]
<1>1. Shape /\ IsSync(s) /\ SyncHeld(s, account) /\ s.pc # "ready"
  BY DEF MergeInv, IInv, Informed, SyncInformed, Honest
<1>2. sync'[d] = [s EXCEPT !.pc = pc, !.exists = exists] /\ \A e \in Devices \ {d} : sync'[e] = sync[e]
  BY <1>1 DEF Shape
<1> HIDE DEF s
<1>3. [s EXCEPT !.pc = pc, !.exists = exists] =
         [pc |-> pc, mode |-> s.mode, rest |-> s.rest, mine |-> s.mine, base |-> s.base, exists |-> exists]
  BY <1>1, Advanced
<1> QED BY <1>1, <1>2, <1>3 DEF SyncHeld

LEMMA ReadMerge == ASSUME MergeInv, IInv', NEW d \in Devices, Read(d) PROVE MergeInv'
<1>1. /\ sync[d].pc = "put" /\ UNCHANGED <<account, local, docs, conflict>>
      /\ \E exists : sync' = [sync EXCEPT ![d] = [sync[d] EXCEPT !.pc = "write", !.exists = exists]]
  BY DEF Read
<1>2. PICK exists : sync' = [sync EXCEPT ![d] = [sync[d] EXCEPT !.pc = "write", !.exists = exists]]
  BY <1>1, Zenon
<1>3. /\ \A e \in Devices \ {d} : sync'[e] = sync[e]
      /\ SyncHeld(sync'[d], account)
  BY <1>1, <1>2, GoesOnHeld
<1> QED BY <1>1, <1>3, HonestQuiet DEF MergeInv

LEMMA ConflictingMerge == ASSUME MergeInv, IInv', NEW d \in Devices, Conflicting(d) PROVE MergeInv'
<1>1. /\ sync[d].pc = "write" /\ UNCHANGED <<account, local, docs, conflict>>
      /\ IsSync(sync[d]) /\ sync' = [sync EXCEPT ![d] = [sync[d] EXCEPT !.pc = "latest"]]
  BY DEF Conflicting, MergeInv, IInv, Informed, SyncInformed
<1>2. [sync[d] EXCEPT !.pc = "latest"] = [sync[d] EXCEPT !.pc = "latest", !.exists = sync[d].exists]
  BY <1>1 DEF IsSync
<1>3. sync' = [sync EXCEPT ![d] = [sync[d] EXCEPT !.pc = "latest", !.exists = sync[d].exists]]
  BY <1>1, <1>2
<1>4. /\ \A e \in Devices \ {d} : sync'[e] = sync[e]
      /\ SyncHeld(sync'[d], account)
  BY <1>1, <1>3, GoesOnHeld
<1> QED BY <1>1, <1>4, HonestQuiet DEF MergeInv

LEMMA StopHeld ==
    ASSUME Shape, NEW d \in Devices, Stop(d)
    PROVE  /\ \A e \in Devices \ {d} : sync'[e] = sync[e]
           /\ \A current : SyncHeld(sync'[d], current)
<1>1. sync'[d] = Ready /\ \A e \in Devices \ {d} : sync'[e] = sync[e]
  BY DEF Shape, Stop
<1>2. Ready.pc = "ready"
  BY DEF Ready
<1> QED BY <1>1, <1>2 DEF SyncHeld

LEMMA FailedMerge == ASSUME MergeInv, IInv', NEW d \in Devices, Failed(d) PROVE MergeInv'
<1>1. Shape /\ Stop(d) /\ UNCHANGED <<account, local, docs, conflict>>
  BY DEF Failed, MergeInv, IInv
<1>2. /\ \A e \in Devices \ {d} : sync'[e] = sync[e]
      /\ SyncHeld(sync'[d], account)
  BY <1>1, StopHeld
<1> QED BY <1>1, <1>2, HonestQuiet DEF MergeInv

\* What a synchronisation writes keeps imports out of the favourites.
LEMMA PayloadUnmixed ==
    ASSUME MergeInv, NEW d \in Devices, sync[d].pc # "ready", NEW k \in Kinds
    PROVE  NoImport(k, PayloadOf(d, k))
<1>1. NoImport(k, sync[d].mine[k])
  BY DEF MergeInv, Honest, SyncHeld, IsPlan, Unmixed
<1>2. CASE k = "favorites"
  <2>1. \A remote, mine : MergePayload("favorites", remote, mine) = Chosen(remote) \cup mine
    BY DEF MergePayload
  <2>2. \A remote : Chosen(remote) \cap Imported = {}
    BY DEF Chosen
  <2> QED BY <1>1, <1>2, <2>1, <2>2 DEF PayloadOf, NoImport
<1> QED BY <1>2 DEF NoImport

LEMMA ShowConflictMerge == ASSUME MergeInv, IInv', NEW d \in Devices, ShowConflict(d) PROVE MergeInv'
<1> DEFINE k == Kind(d)
           c == [kind |-> k, mine |-> Payload(d), remote |-> account[k]]
<1>1. /\ sync[d].pc = "latest" /\ Stop(d) /\ UNCHANGED <<account, local, docs>>
      /\ conflict' = [conflict EXCEPT ![d] = <<c>>] /\ Shape
  BY DEF ShowConflict, MergeInv, IInv
<1>2. k \in Kinds
  BY <1>1, AtKind DEF MergeInv
<1>3. NoImport(k, c.mine) /\ Held(c.remote, k, account[k])
  BY <1>1, <1>2, PayloadUnmixed DEF Payload, Held, MergeInv
<1>4. c.kind = k
  OBVIOUS
<1> HIDE DEF c
<1>5. conflict'[d] = <<c>> /\ \A e \in Devices \ {d} : conflict'[e] = conflict[e]
  BY <1>1 DEF Shape
<1>6. ConflictHeld(conflict'[d], account)
  BY <1>3, <1>4, <1>5 DEF ConflictHeld
<1>7. /\ \A e \in Devices \ {d} : sync'[e] = sync[e]
      /\ SyncHeld(sync'[d], account)
  BY <1>1, StopHeld
<1> QED BY <1>1, <1>5, <1>6, <1>7, HonestQuiet DEF MergeInv

\* The account's next revision of a document, of which the device's documents may hear.
LEMMA NextHeld ==
    ASSUME MergeInv, NEW d \in Devices, NEW k \in Kinds, NEW doc,
           account' = [account EXCEPT ![k] = doc], doc.revision = account[k].revision + 1,
           NoImport(k, doc.payload)
    PROVE  /\ \A i \in Kinds : account'[i] = account[i] \/ account'[i].revision = account[i].revision + 1
           /\ \A i \in Kinds : NoImport(i, account'[i].payload)
           /\ docs' = [docs EXCEPT ![d][k] = doc] =>
                /\ \A e \in Devices \ {d} : docs'[e] = docs[e]
                /\ AllHeld(docs'[d], account')
           /\ \A base : AllHeld(base, account) /\ NoNewer(base, known[d]) => AllHeld(base, account')
<1>1. /\ IsDocs(account) /\ Shape /\ Informed(d) /\ AllHeld(docs[d], account)
      /\ \A i \in Kinds : NoImport(i, account[i].payload)
  BY DEF MergeInv, IInv, Shape, Honest
<1>2. account'[k] = doc /\ \A i \in Kinds \ {k} : account'[i] = account[i]
  BY <1>1 DEF IsDocs
<1>3. \A i \in Kinds : account'[i] = account[i] \/ account'[i].revision = account[i].revision + 1
  BY <1>2
<1>4. \A i \in Kinds : NoImport(i, account'[i].payload)
  BY <1>1, <1>2
<1>5. \A base : AllHeld(base, account) /\ NoNewer(base, known[d]) => AllHeld(base, account')
  <2>1. \A i \in Kinds : known[d][i] \in Nat /\ known[d][i] <= account[i].revision
    BY <1>1 DEF Shape, Informed
  <2> QED BY <1>1, <1>3, <2>1, StaysHeld
<1>6. ASSUME docs' = [docs EXCEPT ![d][k] = doc] PROVE AllHeld(docs'[d], account')
  <2> DEFINE ds == docs[d]
  <2>1. ds = [i \in Kinds |-> ds[i]] /\ AllHeld(ds, account')
    BY <1>1, <1>5 DEF Informed, NoNewer, IsDocs
  <2>2. docs'[d] = [ds EXCEPT ![k] = doc]
    BY <1>1, <1>6 DEF Shape
  <2> HIDE DEF ds
  <2>3. Held(doc, k, doc)
    BY DEF Held
  <2>4. docs'[d][k] = doc /\ \A i \in Kinds \ {k} : docs'[d][i] = ds[i]
    BY <2>1, <2>2
  <2> QED BY <1>2, <2>1, <2>3, <2>4 DEF AllHeld
<1>7. docs' = [docs EXCEPT ![d][k] = doc] => \A e \in Devices \ {d} : docs'[e] = docs[e]
  BY <1>1 DEF Shape
<1> QED BY <1>3, <1>4, <1>5, <1>6, <1>7

LEMMA SpotifySyncMerge == ASSUME MergeInv, IInv', NEW d \in Devices, SpotifySync(d) PROVE MergeInv'
<1> DEFINE k == "collections"
           doc == Document(account[k].revision + 1, Imported)
<1>1. /\ k \in Kinds /\ account' = [account EXCEPT ![k] = doc] /\ docs' = [docs EXCEPT ![d][k] = doc]
      /\ UNCHANGED <<local, sync, conflict>>
  BY OrderIsSequence DEF SpotifySync
<1>2. doc.revision = account[k].revision + 1 /\ NoImport(k, doc.payload)
  BY DEF Document, NoImport
<1> HIDE DEF k, doc
<1>3. /\ \A i \in Kinds : account'[i] = account[i] \/ account'[i].revision = account[i].revision + 1
      /\ \A i \in Kinds : NoImport(i, account'[i].payload)
      /\ AllHeld(docs'[d], account') /\ \A e \in Devices \ {d} : docs'[e] = docs[e]
  BY <1>1, <1>2, NextHeld
<1> QED BY <1>1, <1>3, HonestMoves DEF MergeInv

LEMMA AnswerLostMerge == ASSUME MergeInv, IInv', NEW d \in Devices, AnswerLost(d) PROVE MergeInv'
<1> DEFINE k == Kind(d)
           doc == Document(account[k].revision + 1, Payload(d))
<1>1. /\ sync[d].pc = "write" /\ Stop(d) /\ UNCHANGED <<local, docs, conflict>>
      /\ account' = [account EXCEPT ![k] = doc]
  BY DEF AnswerLost
<1>2. k \in Kinds /\ Shape
  BY <1>1, AtKind DEF MergeInv, IInv
<1>3. doc.revision = account[k].revision + 1 /\ NoImport(k, doc.payload)
  BY <1>1, <1>2, PayloadUnmixed DEF Document, Payload
<1> HIDE DEF k, doc
<1>4. /\ \A i \in Kinds : account'[i] = account[i] \/ account'[i].revision = account[i].revision + 1
      /\ \A i \in Kinds : NoImport(i, account'[i].payload)
  BY <1>1, <1>2, <1>3, NextHeld
<1>5. /\ \A e \in Devices \ {d} : sync'[e] = sync[e]
      /\ SyncHeld(sync'[d], account')
  BY <1>1, <1>2, StopHeld
<1> QED BY <1>1, <1>4, <1>5, HonestMoves DEF MergeInv

\* The plan of a device after a merge.
LEMMA MergedPlan ==
    ASSUME NEW plan, IsPlan(plan), NEW ds, NEW current, AllHeld(ds, current)
    PROVE  IsPlan(Merge(plan, PlannerFrom(ds)))
<1> DEFINE next == PlannerFrom(ds)
<1>1. IsPlan(next)
  BY PlanOfHeld
<1> HIDE DEF next
<1>2. Merge(plan, next) = [k \in Kinds |-> Merge(plan, next)[k]]
  BY DEF Merge
<1>3. ASSUME NEW k \in Kinds PROVE NoImport(k, Merge(plan, next)[k])
  <2>1. CASE k = "favorites"
    BY <1>1, <2>1 DEF Merge, IsPlan, Unmixed, NoImport
  <2> QED BY <2>1 DEF NoImport
<1>4. IsPlan(Merge(plan, next))
  BY <1>2, <1>3 DEF IsPlan, Unmixed
<1> QED BY <1>4 DEF next

LEMMA WriteMerge == ASSUME MergeInv, IInv', NEW d \in Devices, Write(d) PROVE MergeInv'
<1> DEFINE s == sync[d]
           k == Kind(d)
           doc == Document(account[k].revision + 1, Payload(d))
           merged == Merge(local[d], PlannerFrom(s.base))
<1>1. /\ s.pc = "write" /\ account' = [account EXCEPT ![k] = doc]
      /\ docs' = [docs EXCEPT ![d][k] = doc]
  BY DEF Write
<1>2. /\ k \in Kinds /\ Shape /\ SyncHeld(s, account) /\ IsSync(s) /\ SyncInformed(s, known[d])
      /\ local = [e \in Devices |-> local[e]]
  BY <1>1, AtKind DEF MergeInv, IInv, Informed, SyncInformed, Honest
<1>3. doc.revision = account[k].revision + 1 /\ NoImport(k, doc.payload)
  BY <1>1, <1>2, PayloadUnmixed DEF Document, Payload
<1>4. \/ /\ sync' = [sync EXCEPT ![d].pc = "put", ![d].rest = Tail(s.rest)]
         /\ UNCHANGED <<local, conflict>>
      \/ /\ Stop(d)
         /\ local' \in {local, [local EXCEPT ![d] = merged]}
         /\ conflict' \in {conflict, [conflict EXCEPT ![d] = <<>>]}
  BY DEF Write
<1>5. IsPlan(merged)
  BY <1>1, <1>2, MergedPlan DEF SyncHeld, MergeInv, Honest
<1> HIDE DEF s, k, doc, merged
<1>6. /\ \A i \in Kinds : account'[i] = account[i] \/ account'[i].revision = account[i].revision + 1
      /\ \A i \in Kinds : NoImport(i, account'[i].payload)
      /\ AllHeld(docs'[d], account') /\ \A e \in Devices \ {d} : docs'[e] = docs[e]
      /\ \A base : AllHeld(base, account) /\ NoNewer(base, known[d]) => AllHeld(base, account')
  BY <1>1, <1>2, <1>3, NextHeld
<1>7. /\ \A e \in Devices \ {d} : sync'[e] = sync[e]
      /\ SyncHeld(sync'[d], account')
  <2>1. CASE Stop(d)
    BY <1>2, <2>1, StopHeld
  <2>2. CASE sync' = [sync EXCEPT ![d].pc = "put", ![d].rest = Tail(s.rest)]
    <3>1. sync'[d] = [s EXCEPT !.pc = "put", !.rest = Tail(s.rest)]
      BY <1>2, <2>2 DEF Shape, s
    <3>2. [s EXCEPT !.pc = "put", !.rest = Tail(s.rest)] =
             [pc |-> "put", mode |-> s.mode, rest |-> Tail(s.rest), mine |-> s.mine,
              base |-> s.base, exists |-> s.exists]
      BY <1>2, NextDocument
    <3>3. AllHeld(s.base, account') /\ IsPlan(s.mine)
      BY <1>1, <1>2, <1>6 DEF SyncInformed, SyncHeld
    <3>4. SyncHeld(sync'[d], account')
      BY <3>1, <3>2, <3>3 DEF SyncHeld
    <3> QED BY <1>2, <2>2, <3>4 DEF Shape
  <2> QED BY <1>4, <2>1, <2>2
<1>8. /\ conflict'[d] = conflict[d] \/ ConflictHeld(conflict'[d], account')
      /\ \A e \in Devices \ {d} : conflict'[e] = conflict[e]
  <2>1. conflict' \in {conflict, [conflict EXCEPT ![d] = <<>>]}
    BY <1>4
  <2> QED BY <1>2, <2>1 DEF Shape, ConflictHeld
<1>9. /\ local' = [e \in Devices |-> local'[e]] /\ local'[d] \in {local[d], merged}
      /\ \A e \in Devices \ {d} : local'[e] = local[e]
  BY <1>2, <1>4
<1> QED BY <1>5, <1>6, <1>7, <1>8, <1>9, HonestMoves

LEMMA NextMerge == MergeInv /\ [Next]_vars => MergeInv'
<1> SUFFICES ASSUME MergeInv, [Next]_vars PROVE MergeInv'
  OBVIOUS
<1>1. IInv'
  BY NextInv DEF MergeInv
<1>2. ASSUME NEW d \in Devices, Edit(d) \/ Load(d) \/ UseAccount(d) \/ Synchronize(d)
      PROVE  MergeInv'
  BY <1>1, <1>2, EditMerge, LoadMerge, UseAccountMerge, SynchronizeMerge
<1>3. ASSUME NEW d \in Devices, KeepLocal(d) \/ KeepRemote(d) \/ Read(d) \/ Write(d)
      PROVE  MergeInv'
  BY <1>1, <1>3, KeepLocalMerge, KeepRemoteMerge, ReadMerge, WriteMerge
<1>4. ASSUME NEW d \in Devices,
             Conflicting(d) \/ ShowConflict(d) \/ Failed(d) \/ AnswerLost(d) \/ SpotifySync(d)
      PROVE  MergeInv'
  BY <1>1, <1>4, ConflictingMerge, ShowConflictMerge, FailedMerge, AnswerLostMerge, SpotifySyncMerge
<1>5. CASE UNCHANGED vars
  BY <1>1, <1>5 DEF vars, MergeInv, Honest
<1> QED BY <1>2, <1>3, <1>4, <1>5 DEF Next

\* What a write that the account accepts is based on is what it replaces.
LEMMA BaseIsCurrent ==
    ASSUME MergeInv, NEW d \in Devices, sync[d].pc = "write",
           Accepted(d, sync[d].base[Kind(d)].revision)
    PROVE  Kind(d) \in Kinds /\ sync[d].base[Kind(d)] = account[Kind(d)]
<1>1. Kind(d) \in Kinds
  BY AtKind DEF MergeInv
<1>2. Held(sync[d].base[Kind(d)], Kind(d), account[Kind(d)])
  BY <1>1 DEF MergeInv, Honest, SyncHeld, AllHeld
<1>3. account[Kind(d)].revision = sync[d].base[Kind(d)].revision
  BY DEF Accepted, NoDocument
<1> QED BY <1>1, <1>2, <1>3 DEF Held

\* What replaces a document of the account is what the device made of that document.
LEMMA MergeOfOld ==
    ASSUME MergeInv, Next, NEW d \in Devices, Writing(d)
    PROVE  /\ Kind(d) \in Kinds /\ sync[d].base[Kind(d)] = account[Kind(d)]
           /\ account'[Kind(d)].payload = PayloadOf(d, Kind(d))
<1>1. Write(d) \/ AnswerLost(d)
  BY WritesItself DEF MergeInv
<1>2. Kind(d) \in Kinds /\ sync[d].base[Kind(d)] = account[Kind(d)]
  BY <1>1, BaseIsCurrent DEF Write, AnswerLost
<1>3. account' = [account EXCEPT ![Kind(d)] = Document(account[Kind(d)].revision + 1, Payload(d))]
  BY <1>1 DEF Write, AnswerLost
<1>4. account'[Kind(d)] = Document(account[Kind(d)].revision + 1, Payload(d))
  BY <1>2, <1>3 DEF MergeInv, IInv, Shape, IsDocs
<1> QED BY <1>2, <1>4 DEF Document, Payload

\* The attendances of both are those of the one that goes first, and the rest of the other's.
LEMMA OverKeeps ==
    ASSUME NEW a, NEW b
    PROVE  b \subseteq Over(a, b) /\ {p[1] : p \in a} \subseteq {p[1] : p \in Over(a, b)}
  BY DEF Over

\* One device's part of the two properties.
Keeps(d) ==
    LET k == Kind(d) old == account[k].payload new == account'[k].payload IN
    /\ k \in {"favorites", "collections"} => Chosen(old) \cup sync[d].mine[k] \subseteq new
    /\ k = "plans" => /\ {p[1] : p \in old} \subseteq {p[1] : p \in new}
                      /\ sync[d].mine[k] \subseteq new

LEMMA WriteKeeps ==
    ASSUME MergeInv, Next, NEW d \in Devices, sync[d].mode = "merge", Writing(d)
    PROVE  Keeps(d)
<1> DEFINE k == Kind(d)
           old == account[k].payload
           mine == sync[d].mine[k]
<1>1. sync[d].base[k] = account[k] /\ account'[k].payload = PayloadOf(d, k)
  BY MergeOfOld
<1>2. CASE account[k] = NoDocument
  <2>1. old = {} /\ account'[k].payload = mine
    BY <1>1, <1>2 DEF PayloadOf, NoDocument
  <2> QED BY <2>1 DEF Keeps, Chosen
<1>3. CASE account[k] # NoDocument
  <2>1. account'[k].payload = MergePayload(k, old, mine)
    BY <1>1, <1>3 DEF PayloadOf
  <2>2. k \in {"favorites", "collections"} => account'[k].payload = Chosen(old) \cup mine
    BY <2>1 DEF MergePayload
  <2>3. k = "plans" => account'[k].payload = Over(old, mine)
    BY <2>1 DEF MergePayload
  <2> HIDE DEF old, mine, k
  <2>4. mine \subseteq Over(old, mine) /\ {p[1] : p \in old} \subseteq {p[1] : p \in Over(old, mine)}
    BY OverKeeps
  <2> QED BY <2>2, <2>3, <2>4 DEF Keeps, k, old, mine
<1> QED BY <1>2, <1>3

LEMMA WriteAgrees ==
    ASSUME MergeInv, Next, NEW d \in Devices, sync[d].mode = "merge", Writing(d),
           Len(sync[d].rest) = 1, docs'[d] # docs[d], local[d] = sync[d].mine,
           NEW k \in Kinds \ {"saved-filters"}
    PROVE  PayloadOf(d, k) = local'[d][k]
<1> DEFINE base == sync[d].base
           mine == sync[d].mine
<1>1. Write(d)
  BY WritesItself DEF AnswerLost, MergeInv
<1>2. local'[d] = Merge(mine, PlannerFrom(base))
  BY <1>1 DEF Write, MergeInv
<1>3. local'[d][k] = CASE k \in {"favorites", "collections"} -> mine[k] \cup PlannerFrom(base)[k]
                       [] k = "plans" -> Over(PlannerFrom(base)[k], mine[k])
                       [] OTHER -> PlannerFrom(base)[k]
  BY <1>2 DEF Merge
<1>4. k \in {"favorites", "collections", "plans"}
  BY KindsNamed
<1>5. AllHeld(base, account)
  BY <1>1 DEF Write, MergeInv, Honest, SyncHeld
<1>6. CASE base[k] = NoDocument
  <2>1. PayloadOf(d, k) = mine[k] /\ PlannerFrom(base)[k] = {}
    BY <1>6 DEF PayloadOf, PlannerFrom, Empty
  <2> HIDE DEF base, mine
  <2>2. Over({}, mine[k]) = mine[k]
    BY DEF Over
  <2> QED BY <1>3, <1>4, <2>1, <2>2
<1>7. CASE base[k] # NoDocument
  <2>1. PayloadOf(d, k) = MergePayload(k, base[k].payload, mine[k])
    BY <1>7 DEF PayloadOf
  <2> HIDE DEF base, mine
  <2>2. CASE k = "favorites"
    <3>1. PlannerFrom(base)[k] = base[k].payload /\ base[k].payload \cap Imported = {}
      BY <1>5, <1>7, <2>2 DEF PlannerFrom, AllHeld, Held, NoImport
    <3> QED BY <1>3, <2>1, <2>2, <3>1 DEF MergePayload, Chosen
  <2>3. CASE k = "collections"
    <3>1. PlannerFrom(base)[k] = Chosen(base[k].payload)
      BY <1>7, <2>3 DEF PlannerFrom
    <3> QED BY <1>3, <2>1, <2>3, <3>1 DEF MergePayload
  <2>4. CASE k = "plans"
    <3>1. PlannerFrom(base)[k] = base[k].payload
      BY <1>7, <2>4 DEF PlannerFrom
    <3> QED BY <1>3, <2>1, <2>4, <3>1 DEF MergePayload
  <2> QED BY <1>4, <2>2, <2>3, <2>4
<1> QED BY <1>6, <1>7

\* A merge takes nothing from the account or from the device, and unless an edit came in
\* between, both have the same plan after it, however writes, imports, conflicts and lost
\* answers of other devices mix with it.
THEOREM MergesLoseNothing == Spec => MergeSound
<1>1. MergeInv /\ [Next]_vars => MergeInv'
  BY NextMerge
<1>2. MergeInv /\ [Next]_vars =>
        [\A d \in Devices : sync[d].mode = "merge" /\ Writing(d) =>
           LET k == Kind(d) old == account[k].payload new == account'[k].payload IN
           /\ k \in {"favorites", "collections"} =>
                Chosen(old) \cup sync[d].mine[k] \subseteq new
           /\ k = "plans" => /\ {p[1] : p \in old} \subseteq {p[1] : p \in new}
                             /\ sync[d].mine[k] \subseteq new]_vars
  BY WriteKeeps DEF Keeps
<1>3. MergeInv /\ [Next]_vars =>
        [\A d \in Devices :
           sync[d].mode = "merge" /\ Writing(d) /\ Len(sync[d].rest) = 1
           /\ docs'[d] # docs[d] /\ local[d] = sync[d].mine
           => \A k \in Kinds \ {"saved-filters"} : PayloadOf(d, k) = local'[d][k]]_vars
  BY WriteAgrees
<1> QED BY <1>1, <1>2, <1>3, MergeInit, PTL DEF Spec, MergeSound, MergeKeeps, MergeAgrees

-----------------------------------------------------------------------------
(* The catalogue without a connection (OfflineCatalog), for any number of    *)
(* calls of the worker at once.  While a call for the catalogue runs, its    *)
(* history has the catalogue of the database; what it saves or answers is    *)
(* in that history, and the server confirmed it at the moment that becomes   *)
(* the stamp.  So the age of a saved catalogue is that of the confirmation.  *)

\* What setting fields makes of a call.
CallOf(pc, key, cached, store, etag, got, old, seen, answer) ==
    [pc |-> pc, key |-> key, cached |-> cached, store |-> store, etag |-> etag, got |-> got,
     old |-> old, seen |-> seen, answer |-> answer]
IsCall(k) ==
    k = CallOf(k.pc, k.key, k.cached, k.store, k.etag, k.got, k.old, k.seen, k.answer)

LEMMA FieldsOf ==
    ASSUME NEW p, NEW k, NEW d, NEW s, NEW t, NEW g, NEW o, NEW n, NEW a
    PROVE  LET it == CallOf(p, k, d, s, t, g, o, n, a) IN
           /\ it.pc = p /\ it.key = k /\ it.cached = d /\ it.store = s /\ it.etag = t
           /\ it.got = g /\ it.old = o /\ it.seen = n /\ it.answer = a
           /\ IsCall(it)
  BY DEF CallOf, IsCall

\* The ways in which the fields of a call are set.
Trims(s, pc, old) == [s EXCEPT !.pc = pc, !.old = old]
Gets(s, pc, got) == [s EXCEPT !.pc = pc, !.got = got]
Begins(s, pc, key, seen) == [s EXCEPT !.pc = pc, !.key = key, !.seen = seen]
Ends(s, pc, key, seen, answer) ==
    [s EXCEPT !.pc = pc, !.key = key, !.seen = seen, !.answer = answer]
Asks(s, pc, cached, store, etag) ==
    [s EXCEPT !.pc = pc, !.cached = cached, !.store = store, !.etag = etag]
Saves(s, pc, cached, etag, got) ==
    [s EXCEPT !.pc = pc, !.cached = cached, !.etag = etag, !.got = got]

LEMMA FieldsSet ==
    ASSUME NEW p, NEW k, NEW d, NEW s, NEW t, NEW g, NEW o, NEW n, NEW a,
           NEW x, NEW y, NEW z, NEW w
    PROVE  LET it == CallOf(p, k, d, s, t, g, o, n, a) IN
           /\ Trims(it, x, y) = CallOf(x, k, d, s, t, g, y, n, a)
           /\ Gets(it, x, y) = CallOf(x, k, d, s, t, y, o, n, a)
           /\ Begins(it, x, y, z) = CallOf(x, y, d, s, t, g, o, z, a)
           /\ Ends(it, x, y, z, w) = CallOf(x, y, d, s, t, g, o, z, w)
           /\ Asks(it, x, y, z, w) = CallOf(x, k, y, z, w, g, o, n, a)
           /\ Saves(it, x, y, z, w) = CallOf(x, k, y, s, z, w, o, n, a)
<1> DEFINE it == CallOf(p, k, d, s, t, g, o, n, a)
           early == [it EXCEPT !.pc = x]
<1>1. early = CallOf(x, k, d, s, t, g, o, n, a)
  BY DEF CallOf
<1> HIDE DEF early
<1> DEFINE keyed == [early EXCEPT !.key = y]
           held == [early EXCEPT !.cached = y]
<1>2. /\ keyed = CallOf(x, y, d, s, t, g, o, n, a)
      /\ held = CallOf(x, k, y, s, t, g, o, n, a)
      /\ [early EXCEPT !.old = y] = CallOf(x, k, d, s, t, g, y, n, a)
      /\ [early EXCEPT !.got = y] = CallOf(x, k, d, s, t, y, o, n, a)
  BY <1>1 DEF CallOf
<1> HIDE DEF keyed, held
<1> DEFINE seeing == [keyed EXCEPT !.seen = z]
           storing == [held EXCEPT !.store = z]
           tagged == [held EXCEPT !.etag = z]
<1>3. /\ seeing = CallOf(x, y, d, s, t, g, o, z, a)
      /\ storing = CallOf(x, k, y, z, t, g, o, n, a)
      /\ tagged = CallOf(x, k, y, s, z, g, o, n, a)
  BY <1>2 DEF CallOf
<1> HIDE DEF seeing, storing, tagged
<1>4. /\ [seeing EXCEPT !.answer = w] = CallOf(x, y, d, s, t, g, o, z, w)
      /\ [storing EXCEPT !.etag = w] = CallOf(x, k, y, z, w, g, o, n, a)
      /\ [tagged EXCEPT !.got = w] = CallOf(x, k, y, s, z, w, o, n, a)
  BY <1>3 DEF CallOf
<1> QED BY <1>2, <1>3, <1>4, Zenon DEF early, keyed, held, seeing, storing, tagged,
                                    Trims, Gets, Begins, Ends, Asks, Saves

LEMMA CallSet ==
    ASSUME NEW s, IsCall(s), NEW x, NEW y, NEW z, NEW w
    PROVE  /\ LET k == Trims(s, x, y) IN
              IsCall(k) /\ k.pc = x /\ k.key = s.key /\ k.seen = s.seen /\ k.got = s.got
           /\ LET k == Gets(s, x, y) IN IsCall(k) /\ k.key = s.key
           /\ LET k == Begins(s, x, y, z) IN
              IsCall(k) /\ k.pc = x /\ k.key = y /\ k.seen = z
           /\ LET k == Ends(s, x, y, z, w) IN
              IsCall(k) /\ k.pc = x /\ k.key = y /\ k.seen = z /\ k.answer = w
           /\ LET k == Asks(s, x, y, z, w) IN
              /\ IsCall(k) /\ k.pc = x /\ k.key = s.key /\ k.seen = s.seen
              /\ k.cached = y /\ k.etag = w
           /\ LET k == Saves(s, x, y, z, w) IN
              IsCall(k) /\ k.pc = x /\ k.key = s.key /\ k.seen = s.seen /\ k.got = w
<1> DEFINE it == CallOf(s.pc, s.key, s.cached, s.store, s.etag, s.got, s.old, s.seen, s.answer)
<1>1. s = it
  BY Zenon DEF IsCall
<1>2. /\ Trims(it, x, y) = CallOf(x, s.key, s.cached, s.store, s.etag, s.got, y, s.seen, s.answer)
      /\ Gets(it, x, y) = CallOf(x, s.key, s.cached, s.store, s.etag, y, s.old, s.seen, s.answer)
      /\ Begins(it, x, y, z) = CallOf(x, y, s.cached, s.store, s.etag, s.got, s.old, z, s.answer)
      /\ Ends(it, x, y, z, w) = CallOf(x, y, s.cached, s.store, s.etag, s.got, s.old, z, w)
      /\ Asks(it, x, y, z, w) = CallOf(x, s.key, y, z, w, s.got, s.old, s.seen, s.answer)
      /\ Saves(it, x, y, z, w) = CallOf(x, s.key, y, s.store, z, w, s.old, s.seen, s.answer)
  BY FieldsSet
<1> HIDE DEF it
<1> QED BY <1>1, <1>2, FieldsOf

\* A catalogue in the cache is one of the server's, as old as its stamp says.
Retained(e) == e.rev \in Revisions /\ e.at \in Nat /\ e.known = e.at

\* A catalogue read of the cache, to be served if there is no connection.
ReadSound(cached, t) ==
    cached # <<>> => cached[1].rev \in Revisions /\ t - cached[1].known <= MaxAge

\* A catalogue received, to be saved and answered.
GotSound(got, seen, t) ==
    /\ got[1].rev \in seen /\ got[1].rev \in Revisions
    /\ got[1].known = t
    /\ got[1] = [rev |-> got[1].rev, at |-> got[1].at, known |-> got[1].known]

AnswerSound(answer, seen) ==
    /\ answer[1] = "network" => answer[2] \in seen
    /\ answer[1] = "cached" => answer[2] \in Revisions /\ answer[3] <= MaxAge

\* A call for the catalogue, with the catalogue of the database and the time as they are.
ForCatalog(k, cat, t) ==
    /\ k.pc \notin {"idle", "done"} => cat \in k.seen
    /\ k.pc \in {"ask", "again"} => ReadSound(k.cached, t)
    /\ k.pc = "ask" => k.etag = IF k.cached = <<>> THEN None ELSE k.cached[1].rev
    /\ k.pc \in {"save", "keys", "trim"} => GotSound(k.got, k.seen, t)
    /\ k.pc = "done" => AnswerSound(k.answer, k.seen)

CallSound(k, cat, t) == IsCall(k) /\ (k.key = CATALOG => ForCatalog(k, cat, t))

CatalogInv ==
    /\ now \in Nat /\ catalog \in Revisions \cup {None}
    /\ CATALOG \in DOMAIN cache => Retained(cache[CATALOG])
    /\ call = [c \in Calls |-> call[c]]
    /\ \A c \in Calls : CallSound(call[c], catalog, now)

LEMMA NoCallSound ==
    /\ NoCall.pc = "idle" /\ IsCall(NoCall) /\ NoCall.key = None
    /\ NoCall.seen = {} /\ NoCall.cached = <<>>
  BY DEF NoCall, IsCall, CallOf

LEMMA CatalogInitInv == CatalogInit => CatalogInv
<1> SUFFICES ASSUME CatalogInit PROVE CatalogInv
  OBVIOUS
<1>1. /\ now = 0 /\ catalog \in Revisions \cup {None} /\ call = [c \in Calls |-> NoCall]
      /\ cache = [key \in {} |-> None]
  BY DEF CatalogInit
<1>2. CATALOG \notin DOMAIN cache
  BY <1>1
<1>3. \A cat, t : CallSound(NoCall, cat, t)
  BY NoCallSound DEF CallSound, ForCatalog
<1> HIDE DEF NoCall
<1> QED BY <1>1, <1>2, <1>3 DEF CatalogInv

\* A step of one call.
LEMMA CallMoves ==
    ASSUME CatalogInv, NEW c \in Calls, NEW k, call' = [call EXCEPT ![c] = k],
           CallSound(k, catalog, now), UNCHANGED <<now, catalog>>,
           CATALOG \in DOMAIN cache' => Retained(cache'[CATALOG])
    PROVE  CatalogInv'
  BY DEF CatalogInv

\* A call that ends.
LEMMA EndMoves ==
    ASSUME CatalogInv, NEW c \in Calls, NEW status, NEW rev, NEW since,
           call' = Ended(c, status, rev, since), UNCHANGED <<now, catalog>>,
           CATALOG \in DOMAIN cache' => Retained(cache'[CATALOG]),
           call[c].key = CATALOG =>
             /\ status = "network" => rev \in call[c].seen
             /\ status = "cached" => rev \in Revisions /\ now - since <= MaxAge
    PROVE  CatalogInv'
<1> DEFINE seen == IF status = "network" THEN call[c].seen ELSE {}
           answer == <<status, rev, IF status = "cached" THEN now - since ELSE 0>>
           k == Ends(NoCall, "done", call[c].key, seen, answer)
<1>1. call' = [call EXCEPT ![c] = k]
  BY Zenon DEF Ended, Ends
<1>3. IsCall(k) /\ k.pc = "done" /\ k.key = call[c].key /\ k.seen = seen /\ k.answer = answer
  <2> HIDE DEF seen, answer
  <2> QED BY NoCallSound, CallSet
<1>4. k.key = CATALOG => AnswerSound(answer, seen)
  BY <1>3 DEF AnswerSound
<1> HIDE DEF k, seen, answer
<1>5. CallSound(k, catalog, now)
  BY <1>3, <1>4 DEF CallSound, ForCatalog
<1> QED BY <1>1, <1>5, CallMoves

\* A call that asks the network next.
LEMMA AskMoves ==
    ASSUME CatalogInv, NEW c \in Calls, NEW cached, NEW store, Asking(c, cached, store),
           call[c].pc \in {"match", "expired"}, UNCHANGED <<now, catalog>>,
           CATALOG \in DOMAIN cache' => Retained(cache'[CATALOG]),
           call[c].key = CATALOG => ReadSound(cached, now)
    PROVE  CatalogInv'
<1> DEFINE s == call[c]
           etag == IF cached = <<>> THEN None ELSE cached[1].rev
           k == Asks(s, "ask", cached, store, etag)
<1>1. call' = [call EXCEPT ![c] = k]
  BY DEF Asking, Asks
<1>2. CallSound(s, catalog, now)
  BY DEF CatalogInv
<1> HIDE DEF s, etag
<1>3. /\ IsCall(k) /\ k.pc = "ask" /\ k.key = s.key /\ k.seen = s.seen /\ k.cached = cached
      /\ k.etag = etag
  BY <1>2, CallSet DEF CallSound
<1> HIDE DEF k
<1>4. k.key = CATALOG => ForCatalog(k, catalog, now)
  BY <1>2, <1>3 DEF CallSound, ForCatalog, s, etag
<1>5. CallSound(k, catalog, now)
  BY <1>3, <1>4 DEF CallSound
<1> QED BY <1>1, <1>5, CallMoves

-----------------------------------------------------------------------------
\* One lemma per operation of the worker.

\* A call for anything else may go anywhere.
LEMMA BegunSound ==
    ASSUME CatalogInv, NEW c \in Calls, NEW key, call' = [call EXCEPT ![c] = Begun(c, key)],
           UNCHANGED <<now, catalog>>, CATALOG \in DOMAIN cache' => Retained(cache'[CATALOG])
    PROVE  CatalogInv'
<1> DEFINE seen == IF key = CATALOG THEN {catalog} ELSE {}
           k == Begins(NoCall, "match", key, seen)
<1>2. IsCall(k) /\ k.pc = "match" /\ k.key = key /\ k.seen = seen
  <2> HIDE DEF seen
  <2> QED BY NoCallSound, CallSet
<1>3. k.key = CATALOG => catalog \in k.seen
  BY <1>2
<1>4. k = Begun(c, key)
  BY Zenon DEF Begun, Begins
<1> HIDE DEF k, seen
<1>5. CallSound(k, catalog, now)
  BY <1>2, <1>3 DEF CallSound, ForCatalog
<1> QED BY <1>4, <1>5, CallMoves

LEMMA InstallInv == ASSUME CatalogInv, NEW c \in Calls, Install(c) PROVE CatalogInv'
<1>1. DOMAIN cache' = Shell /\ call' = [call EXCEPT ![c] = Begun(c, CATALOG)] /\ UNCHANGED <<now, catalog>>
  BY DEF Install
<1>2. CATALOG \notin Shell
  BY OfflineAssumption, Zenon
<1> QED BY <1>1, <1>2, BegunSound

LEMMA RequestInv == ASSUME CatalogInv, NEW c \in Calls, Request(c) PROVE CatalogInv'
<1>1. PICK key : call' = [call EXCEPT ![c] = Begun(c, key)]
  BY DEF Request
<1>2. UNCHANGED <<now, catalog, cache>>
  BY DEF Request, storage
<1> QED BY <1>1, <1>2, BegunSound DEF CatalogInv

LEMMA MatchCacheInv == ASSUME CatalogInv, NEW c \in Calls, MatchCache(c) PROVE CatalogInv'
<1> DEFINE key == call[c].key
<1>1. /\ call[c].pc = "match" /\ UNCHANGED <<now, catalog, cache>>
      /\ CATALOG \in DOMAIN cache' => Retained(cache'[CATALOG])
  BY DEF MatchCache, storage, CatalogInv
<1>2. CASE \E store : Asking(c, <<>>, store)
  BY <1>1, <1>2, AskMoves DEF ReadSound
<1>3. CASE call' = Ended(c, "failed", None, 0)
  BY <1>1, <1>3, EndMoves
<1>4. CASE call' = [call EXCEPT ![c].pc = "expired"]
  <2>1. CallSound(call[c], catalog, now)
    BY DEF CatalogInv
  <2>2. \A s, k : IsCall(s) /\ k = [s EXCEPT !.pc = "expired"] =>
          IsCall(k) /\ k.pc = "expired" /\ k.key = s.key /\ k.seen = s.seen
    BY DEF IsCall, CallOf
  <2>3. CallSound([call[c] EXCEPT !.pc = "expired"], catalog, now)
    BY <1>1, <2>1, <2>2 DEF CallSound, ForCatalog
  <2>4. call' = [call EXCEPT ![c] = [call[c] EXCEPT !.pc = "expired"]]
    BY <1>4
  <2> QED BY <1>1, <2>3, <2>4, CallMoves
<1>5. CASE /\ key = CATALOG /\ key \in DOMAIN cache /\ Fresh(cache[key])
           /\ Asking(c, <<cache[key]>>, TRUE)
  <2>1. Retained(cache[key]) /\ now - cache[key].at <= MaxAge
    BY <1>5 DEF CatalogInv, Fresh
  <2>2. \A e : Retained(e) /\ now - e.at <= MaxAge => ReadSound(<<e>>, now)
    BY DEF Retained, ReadSound
  <2> QED BY <1>1, <1>5, <2>1, <2>2, AskMoves
<1>6. CASE key # CATALOG /\ call' = Ended(c, "cached", None, now)
  BY <1>1, <1>6, EndMoves
<1>7. \/ \E store : Asking(c, <<>>, store)
      \/ call' = Ended(c, "failed", None, 0)
      \/ call' = [call EXCEPT ![c].pc = "expired"]
      \/ /\ key = CATALOG /\ key \in DOMAIN cache /\ Fresh(cache[key])
         /\ Asking(c, <<cache[key]>>, TRUE)
      \/ key # CATALOG /\ call' = Ended(c, "cached", None, now)
  BY DEF MatchCache
<1> QED BY <1>2, <1>3, <1>4, <1>5, <1>6, <1>7

\* What is left after a deletion was there before.
LEMMA DeleteKeeps ==
    ASSUME CatalogInv, NEW keys, Delete(keys)
    PROVE  CATALOG \in DOMAIN cache' => Retained(cache'[CATALOG])
<1>1. cache' = [k \in DOMAIN cache \ keys |-> cache[k]]
  BY DEF Delete
<1> QED BY <1>1 DEF CatalogInv

LEMMA DeleteExpiredInv == ASSUME CatalogInv, NEW c \in Calls, DeleteExpired(c) PROVE CatalogInv'
<1>1. call[c].pc = "expired" /\ Delete({call[c].key}) /\ Asking(c, <<>>, TRUE) /\ UNCHANGED <<now, catalog>>
  BY DEF DeleteExpired
<1> QED BY <1>1, DeleteKeeps, AskMoves DEF ReadSound

\* The reply that counts as the catalogue, or confirms the one asked about, is the server's.
LEMMA RepliesTrue ==
    ASSUME CatalogInv, NEW etag, NEW reply \in Replies(etag)
    PROVE  /\ reply[1] = 200 /\ reply[2] # None => reply[2] = catalog /\ catalog \in Revisions
           /\ reply[1] = 304 /\ reply[2] = etag => reply[2] = catalog /\ catalog \in Revisions
<1>1. catalog \in Revisions \cup {None}
  BY DEF CatalogInv
<1> QED BY <1>1 DEF Replies, Served

\* A catalogue that is the server's is saved, or answered at once.
LEMMA SavingMoves ==
    ASSUME CatalogInv, NEW c \in Calls, call[c].key = CATALOG, call[c].pc \in {"ask", "again"},
           call' = Saving(c, catalog), catalog \in Revisions, UNCHANGED <<now, catalog, cache>>
    PROVE  CatalogInv'
<1> DEFINE s == call[c]
           got == <<Entry(catalog, 0, now)>>
           k == Saves(s, "save", <<>>, None, got)
<1>1. catalog \in s.seen /\ IsCall(s) /\ s.key = CATALOG
  BY DEF CatalogInv, CallSound, ForCatalog
<1>2. CATALOG \in DOMAIN cache' => Retained(cache'[CATALOG])
  BY DEF CatalogInv
<1>3. CASE call' = [call EXCEPT ![c] = k]
  <2>1. \A seen : catalog \in seen => GotSound(got, seen, now)
    BY DEF GotSound, Entry
  <2> HIDE DEF s, got
  <2>2. IsCall(k) /\ k.pc = "save" /\ k.key = s.key /\ k.seen = s.seen /\ k.got = got
    BY <1>1, CallSet
  <2> HIDE DEF k
  <2>3. CallSound(k, catalog, now)
    BY <1>1, <2>1, <2>2 DEF CallSound, ForCatalog
  <2> QED BY <1>2, <1>3, <2>3, CallMoves
<1>4. CASE call' = Ended(c, "network", catalog, now)
  BY <1>1, <1>2, <1>4, EndMoves
<1> QED BY <1>3, <1>4 DEF Saving, Saves

LEMMA CatalogAnswerInv == ASSUME CatalogInv, NEW c \in Calls, Catalog(c) PROVE CatalogInv'
<1> DEFINE etag == IF call[c].pc = "ask" THEN call[c].etag ELSE None
<1>1. /\ call[c].pc \in {"ask", "again"} /\ call[c].key = CATALOG /\ UNCHANGED <<now, catalog, cache>>
      /\ CATALOG \in DOMAIN cache' => Retained(cache'[CATALOG])
      /\ CallSound(call[c], catalog, now) /\ ForCatalog(call[c], catalog, now)
  BY DEF Catalog, storage, CatalogInv, CallSound
<1>2. PICK reply \in Replies(etag) :
         \/ call[c].pc = "ask" /\ Revalidated(c, reply) /\ call' = Saving(c, call[c].cached[1].rev)
         \/ call[c].pc = "ask" /\ call' = [call EXCEPT ![c].pc = "again"]
         \/ call' = Ended(c, "failed", None, 0)
         \/ reply[1] = 200 /\ reply[2] # None /\ call' = Saving(c, reply[2])
  BY DEF Catalog
<1>3. CASE call[c].pc = "ask" /\ Revalidated(c, reply) /\ call' = Saving(c, call[c].cached[1].rev)
  <2>1. reply[1] = 304 /\ reply[2] = call[c].cached[1].rev /\ call[c].etag # None
    BY <1>3 DEF Revalidated
  <2>2. call[c].etag = call[c].cached[1].rev
    BY <1>1, <1>3, <2>1 DEF ForCatalog
  <2>3. call[c].cached[1].rev = catalog /\ catalog \in Revisions
    BY <1>2, <1>3, <2>1, <2>2, RepliesTrue
  <2> QED BY <1>1, <1>3, <2>3, SavingMoves
<1>4. CASE call[c].pc = "ask" /\ call' = [call EXCEPT ![c].pc = "again"]
  <2>1. \A s, k : IsCall(s) /\ k = [s EXCEPT !.pc = "again"] =>
          IsCall(k) /\ k.pc = "again" /\ k.key = s.key /\ k.seen = s.seen /\ k.cached = s.cached
    BY DEF IsCall, CallOf
  <2>2. CallSound([call[c] EXCEPT !.pc = "again"], catalog, now)
    BY <1>1, <1>4, <2>1 DEF CallSound, ForCatalog
  <2>3. call' = [call EXCEPT ![c] = [call[c] EXCEPT !.pc = "again"]]
    BY <1>4
  <2> QED BY <1>1, <2>2, <2>3, CallMoves
<1>5. CASE call' = Ended(c, "failed", None, 0)
  BY <1>1, <1>5, EndMoves
<1>6. CASE reply[1] = 200 /\ reply[2] # None /\ call' = Saving(c, reply[2])
  BY <1>1, <1>2, <1>6, RepliesTrue, SavingMoves
<1> QED BY <1>2, <1>3, <1>4, <1>5, <1>6

LEMMA UnreachableInv == ASSUME CatalogInv, NEW c \in Calls, Unreachable(c) PROVE CatalogInv'
<1>1. /\ call[c].pc \in {"ask", "again"} /\ call' = Offline(c) /\ UNCHANGED <<now, catalog, cache>>
      /\ CATALOG \in DOMAIN cache' => Retained(cache'[CATALOG])
  BY DEF Unreachable, storage, CatalogInv
<1>2. call[c].key = CATALOG => ReadSound(call[c].cached, now)
  BY <1>1 DEF CatalogInv, CallSound, ForCatalog
<1>3. CASE /\ call[c].key = CATALOG /\ call[c].cached # <<>>
           /\ call' = Ended(c, "cached", call[c].cached[1].rev, call[c].cached[1].known)
  <2>1. call[c].cached[1].rev \in Revisions /\ now - call[c].cached[1].known <= MaxAge
    BY <1>2, <1>3 DEF ReadSound
  <2> QED BY <1>1, <1>3, <2>1, EndMoves
<1>4. CASE call' = Ended(c, "failed", None, 0)
  BY <1>1, <1>4, EndMoves
<1> QED BY <1>1, <1>3, <1>4 DEF Offline

LEMMA AssetInv == ASSUME CatalogInv, NEW c \in Calls, Asset(c) PROVE CatalogInv'
<1>1. /\ call[c].key # CATALOG /\ UNCHANGED <<now, catalog, cache>> /\ IsCall(call[c])
      /\ CATALOG \in DOMAIN cache' => Retained(cache'[CATALOG])
  BY DEF Asset, storage, CatalogInv, CallSound
<1>2. \/ call' = Ended(c, "network", None, 0)
      \/ \E got : call' = [call EXCEPT ![c].pc = "save", ![c].got = got]
  BY DEF Asset
<1>3. CASE call' = Ended(c, "network", None, 0)
  BY <1>1, <1>3, EndMoves
<1>4. CASE \E got : call' = [call EXCEPT ![c].pc = "save", ![c].got = got]
  <2>1. PICK got : call' = [call EXCEPT ![c] = Gets(call[c], "save", got)]
    BY <1>4 DEF Gets
  <2>3. CallSound(Gets(call[c], "save", got), catalog, now)
    BY <1>1, CallSet DEF CallSound
  <2> QED BY <1>1, <2>1, <2>3, CallMoves
<1> QED BY <1>2, <1>3, <1>4

\* The answer of the network, once it is saved or cannot be.
LEMMA AnsweredMoves ==
    ASSUME CatalogInv, NEW c \in Calls, call[c].pc \in {"save", "keys", "trim"},
           call' = Answered(c), UNCHANGED <<now, catalog>>,
           CATALOG \in DOMAIN cache' => Retained(cache'[CATALOG])
    PROVE  CatalogInv'
<1>1. call[c].key = CATALOG => call[c].got[1].rev \in call[c].seen
  BY DEF CatalogInv, CallSound, ForCatalog, GotSound
<1> QED BY <1>1, EndMoves DEF Answered

LEMMA StorageFailsInv == ASSUME CatalogInv, NEW c \in Calls, StorageFails(c) PROVE CatalogInv'
<1>1. /\ call[c].pc \in {"save", "keys"} /\ UNCHANGED <<now, catalog, cache>>
      /\ call' = Answered(c) \/ call' = Ended(c, "failed", None, 0)
      /\ CATALOG \in DOMAIN cache' => Retained(cache'[CATALOG])
  BY DEF StorageFails, storage, CatalogInv
<1> QED BY <1>1, AnsweredMoves, EndMoves

\* A call that saves goes on with what it has.
LEMMA SavesOn ==
    ASSUME CatalogInv, NEW c \in Calls, call[c].pc \in {"save", "keys"},
           NEW pc \in {"keys", "trim"}, NEW old
    PROVE  CallSound(Trims(call[c], pc, old), catalog, now)
<1>1. CallSound(call[c], catalog, now)
  BY DEF CatalogInv
<1> QED BY <1>1, CallSet DEF CallSound, ForCatalog

LEMMA SaveInv == ASSUME CatalogInv, NEW c \in Calls, Save(c) PROVE CatalogInv'
<1> DEFINE key == call[c].key
           e == [call[c].got[1] EXCEPT !.at = now]
<1>1. /\ call[c].pc = "save" /\ UNCHANGED <<now, catalog>> /\ now \in Nat /\ IsCall(call[c])
      /\ cache' = [k \in DOMAIN cache \cup {key} |-> IF k = key THEN e ELSE cache[k]]
      /\ call' = [call EXCEPT ![c].pc = "keys"]
  BY DEF Save, Stored, CatalogInv, CallSound
<1>2. key = CATALOG => Retained(e)
  <2>1. key = CATALOG => GotSound(call[c].got, call[c].seen, now)
    BY <1>1 DEF CatalogInv, CallSound, ForCatalog
  <2>2. \A got : got = [rev |-> got.rev, at |-> got.at, known |-> got.known]
                 /\ got.rev \in Revisions /\ got.known = now
                 => Retained([got EXCEPT !.at = now])
    BY <1>1 DEF Retained
  <2> QED BY <2>1, <2>2 DEF GotSound
<1> HIDE DEF e
<1>3. CATALOG \in DOMAIN cache' => Retained(cache'[CATALOG])
  BY <1>1, <1>2 DEF CatalogInv
<1>4. call' = [call EXCEPT ![c] = Trims(call[c], "keys", call[c].old)]
  <2>1. \A s : IsCall(s) => [s EXCEPT !.pc = "keys"] = Trims(s, "keys", s.old)
    BY DEF IsCall, CallOf, Trims
  <2> QED BY <1>1, <2>1
<1> QED BY <1>1, <1>3, <1>4, SavesOn, CallMoves

LEMMA TrimKeysInv == ASSUME CatalogInv, NEW c \in Calls, TrimKeys(c) PROVE CatalogInv'
<1>1. /\ call[c].pc = "keys" /\ UNCHANGED <<now, catalog, cache>>
      /\ call' = [call EXCEPT ![c] = Trims(call[c], "trim", Oldest)]
      /\ CATALOG \in DOMAIN cache' => Retained(cache'[CATALOG])
  BY DEF TrimKeys, Trims, storage, CatalogInv
<1> QED BY <1>1, SavesOn, CallMoves

LEMMA TrimInv == ASSUME CatalogInv, NEW c \in Calls, Trim(c) PROVE CatalogInv'
<1>1. call[c].pc = "trim" /\ Delete(call[c].old) /\ call' = Answered(c) /\ UNCHANGED <<now, catalog>>
  BY DEF Trim
<1> QED BY <1>1, DeleteKeeps, AnsweredMoves

LEMMA ReturnInv == ASSUME CatalogInv, NEW c \in Calls, Return(c) PROVE CatalogInv'
<1>1. /\ call' = [call EXCEPT ![c] = NoCall] /\ UNCHANGED <<now, catalog, cache>>
      /\ CATALOG \in DOMAIN cache' => Retained(cache'[CATALOG])
  BY DEF Return, storage, CatalogInv
<1>2. CallSound(NoCall, catalog, now)
  BY NoCallSound DEF CallSound, ForCatalog
<1> QED BY <1>1, <1>2, CallMoves

LEMMA ChangeInv == ASSUME CatalogInv, Change PROVE CatalogInv'
<1>1. PICK r \in Revisions \cup {None} :
         /\ catalog' = r
         /\ call' = [c \in Calls |-> IF call[c].pc \in {"idle", "done"} \/ call[c].key # CATALOG
                                     THEN call[c] ELSE [call[c] EXCEPT !.seen = @ \cup {r}]]
  BY DEF Change
<1>2. UNCHANGED <<now, cache>>
  BY DEF Change, storage
<1>3. ASSUME NEW c \in Calls PROVE CallSound(call'[c], r, now)
  <2>1. CallSound(call[c], catalog, now)
    BY DEF CatalogInv
  <2>2. CASE call[c].pc \in {"idle", "done"} \/ call[c].key # CATALOG
    BY <1>1, <2>1, <2>2 DEF CallSound, ForCatalog
  <2>3. CASE ~(call[c].pc \in {"idle", "done"} \/ call[c].key # CATALOG)
    <3>1. call'[c] = [call[c] EXCEPT !.seen = call[c].seen \cup {r}]
      BY <1>1, <2>3
    <3>2. \A s, k, x : IsCall(s) /\ k = [s EXCEPT !.seen = x] =>
            /\ IsCall(k) /\ k.pc = s.pc /\ k.key = s.key /\ k.seen = x /\ k.cached = s.cached
            /\ k.etag = s.etag /\ k.got = s.got
      BY DEF IsCall, CallOf
    <3>3. \A got, seen, t : GotSound(got, seen, t) => GotSound(got, seen \cup {r}, t)
      BY DEF GotSound
    <3>4. /\ IsCall(call'[c]) /\ call'[c].pc = call[c].pc /\ call'[c].key = call[c].key
          /\ call'[c].seen = call[c].seen \cup {r} /\ call'[c].cached = call[c].cached
          /\ call'[c].etag = call[c].etag /\ call'[c].got = call[c].got
      BY <2>1, <3>1, <3>2 DEF CallSound
    <3> QED BY <2>1, <2>3, <3>3, <3>4 DEF CallSound, ForCatalog
  <2> QED BY <2>2, <2>3
<1> QED BY <1>1, <1>2, <1>3 DEF CatalogInv

\* Time passes while no call for the catalogue is under way.
LEMMA LaterInv == ASSUME CatalogInv, Later PROVE CatalogInv'
<1>1. /\ now' = now + 1 /\ UNCHANGED <<catalog, cache, call>>
      /\ \A c \in Calls : call[c].pc \in {"idle", "done"}
  BY DEF Later, storage
<1>2. \A c \in Calls : CallSound(call[c], catalog, now')
  BY <1>1 DEF CatalogInv, CallSound, ForCatalog
<1> QED BY <1>1, <1>2 DEF CatalogInv

LEMMA CatalogNextInv == CatalogInv /\ [CatalogNext]_catalogVars => CatalogInv'
<1> SUFFICES ASSUME CatalogInv, [CatalogNext]_catalogVars PROVE CatalogInv'
  OBVIOUS
<1>1. ASSUME NEW c \in Calls, Step(c) PROVE CatalogInv'
  BY <1>1, InstallInv, RequestInv, MatchCacheInv, DeleteExpiredInv, CatalogAnswerInv,
     UnreachableInv, AssetInv, StorageFailsInv, SaveInv, TrimKeysInv, TrimInv, ReturnInv DEF Step
<1>2. CASE Activate
  BY <1>2 DEF Activate, storage, CatalogInv
<1>3. CASE UNCHANGED catalogVars
  BY <1>3 DEF catalogVars, storage, CatalogInv
<1> QED BY <1>1, <1>2, <1>3, ChangeInv, LaterInv DEF CatalogNext

\* What a page gets as the catalogue is what the database had while the page was asking, or,
\* without a connection, what the server confirmed within the retention: whatever calls
\* overlap, whichever entries they replace, expire or trim, and whatever storage fails.
THEOREM CatalogIsHonest == CatalogSpec => []CatalogHonest
<1>1. CatalogInv => CatalogHonest
  BY DEF CatalogInv, CallSound, ForCatalog, AnswerSound, CatalogHonest, AnswerCurrent, RetainedHonest
<1> QED BY <1>1, CatalogInitInv, CatalogNextInv, PTL DEF CatalogSpec

-----------------------------------------------------------------------------
(* Accounts and links (Accounts), for any number of tabs, browsers and       *)
(* addresses.  A challenge names one ceremony, so an answer that fits the    *)
(* cookie of the browser was given to the address in it; a link is sent by   *)
(* the one tab that made it, and only later links of its address, or its     *)
(* own sending, take it away.                                                *)

Entered == {"registering", "registration", "requested"}
Ceremonial == {"registration", "authentication"}

\* The challenges so far are below the count of what visitors did, and one that a tab and a
\* cookie have in common comes from one ceremony.
CeremoniesMatch ==
    /\ steps \in Nat
    /\ \A t \in Tabs : step[t].at \in Ceremonial => step[t].n \in Nat /\ step[t].n < steps
    /\ \A b \in Browsers : ceremony[b] # Nothing =>
         /\ ceremony[b].challenge \in Nat /\ ceremony[b].challenge < steps
         /\ \A t \in Tabs : step[t].at \in Ceremonial /\ step[t].n = ceremony[b].challenge
                            => step[t].email = ceremony[b].email

\* A link in the mind of the tab that sends it.
Sending(t) == step[t].at = "sending"

\* A link that exists, until a later one, its use or its withdrawal.
StandsIn(l, made, done, all) == l.id = made[l.email] /\ l.email \notin done => l \in all
Stands(l) == StandsIn(l, newest, verified, links)

LinksSound ==
    /\ newest \in [Emails -> Nat]
    /\ \A t \in Tabs : step[t].at \in Entered => step[t].email \in Emails
    /\ \A b \in Browsers : session[b] # Nothing => session[b] \in Emails
    /\ \A l \in promised : l.email \in Emails /\ l.id \in Nat /\ l.id <= newest[l.email] /\ Stands(l)
    /\ \A t \in Tabs : Sending(t) =>
         LET l == step[t].link IN
         /\ l.email \in Emails /\ l.id \in Nat /\ l.id <= newest[l.email] /\ Stands(l)
         /\ \A p \in promised : p.email = l.email => p.id # l.id
         /\ \A u \in Tabs \ {t} : Sending(u) /\ step[u].link.email = l.email => step[u].link.id # l.id

AccountsShape ==
    /\ user = [e \in Emails |-> user[e]]
    /\ session = [b \in Browsers |-> session[b]]
    /\ ceremony = [b \in Browsers |-> ceremony[b]]
    /\ step = [t \in Tabs |-> step[t]]

AccountsInv == AccountsShape /\ CeremoniesMatch /\ LinksSound

LEMMA AccountsInitInv == AccountsInit => AccountsInv
<1> SUFFICES ASSUME AccountsInit PROVE AccountsInv
  OBVIOUS
<1>1. \A t \in Tabs : step[t].at = "idle"
  BY DEF AccountsInit, Idle
<1> QED BY <1>1 DEF AccountsInit, AccountsInv, AccountsShape, CeremoniesMatch, LinksSound,
                    Ceremonial, Entered, Sending

\* A step that makes, sends and takes away no link.
LEMMA LinksQuiet ==
    ASSUME AccountsInv, NEW t \in Tabs, UNCHANGED <<links, newest, promised, verified>>,
           \A u \in Tabs \ {t} : step'[u] = step[u],
           ~Sending(t)', step'[t].at \in Entered => step'[t].email \in Emails,
           \A b \in Browsers : session'[b] # session[b] /\ session'[b] # Nothing => session'[b] \in Emails
    PROVE  LinksSound'
  BY DEF AccountsInv, LinksSound, Sending, Stands, StandsIn

\* A step in which no ceremony begins.
LEMMA CeremoniesQuiet ==
    ASSUME AccountsInv, NEW t \in Tabs, steps' \in {steps, steps + 1},
           \A u \in Tabs \ {t} : step'[u] = step[u],
           step'[t] = step[t] \/ step'[t].at \notin Ceremonial,
           \A b \in Browsers : ceremony'[b] = ceremony[b] \/ ceremony'[b] = Nothing
    PROVE  CeremoniesMatch'
<1>1. CeremoniesMatch /\ steps' \in Nat /\ steps <= steps'
  BY DEF AccountsInv, CeremoniesMatch
<1>2. ASSUME NEW u \in Tabs, step'[u].at \in Ceremonial
      PROVE  step'[u] = step[u] /\ step[u].n \in Nat /\ step[u].n < steps'
  BY <1>1, <1>2 DEF CeremoniesMatch
<1>3. ASSUME NEW b \in Browsers, ceremony'[b] # Nothing
      PROVE  ceremony'[b] = ceremony[b] /\ ceremony[b].challenge \in Nat /\ ceremony[b].challenge < steps'
  BY <1>1, <1>3 DEF CeremoniesMatch
<1> QED BY <1>1, <1>2, <1>3 DEF CeremoniesMatch

\* The common case: a tab goes on, or is done.
LEMMA TabMoves ==
    ASSUME AccountsInv, NEW t \in Tabs, NEW s,
           step' = [step EXCEPT ![t] = s], s.at \notin Ceremonial, s.at # "sending",
           s.at \in Entered => s.email \in Emails,
           user' = [e \in Emails |-> user'[e]],
           session' = [b \in Browsers |-> session'[b]],
           \A b \in Browsers : session'[b] # session[b] /\ session'[b] # Nothing => session'[b] \in Emails,
           ceremony' = [b \in Browsers |-> ceremony'[b]],
           \A b \in Browsers : ceremony'[b] = ceremony[b] \/ ceremony'[b] = Nothing,
           UNCHANGED <<links, newest, promised, verified>>, steps' \in {steps, steps + 1}
    PROVE  AccountsInv'
<1>1. step' = [u \in Tabs |-> step'[u]] /\ step'[t] = s /\ \A u \in Tabs \ {t} : step'[u] = step[u]
  BY DEF AccountsInv, AccountsShape
<1>2. ~Sending(t)'
  BY <1>1 DEF Sending
<1>3. LinksSound'
  BY <1>1, <1>2, LinksQuiet
<1>4. CeremoniesMatch'
  BY <1>1, CeremoniesQuiet
<1> QED BY <1>1, <1>3, <1>4 DEF AccountsInv, AccountsShape

LEMMA IdleAt == Idle.at = "idle"
  BY DEF Idle

\* Whom a session signs in, if it is written.
LEMMA SignedInMoves ==
    ASSUME AccountsInv, NEW t \in Tabs, NEW e \in Emails, SignedIn(t, e)
    PROVE  /\ session' = [b \in Browsers |-> session'[b]]
           /\ \A b \in Browsers : session'[b] # session[b] => session'[b] = e /\ b = BrowserOf[t]
  BY DEF SignedIn, AccountsInv, AccountsShape

-----------------------------------------------------------------------------
\* One lemma per thing a visitor does.

LEMMA RegisterInv == ASSUME AccountsInv, NEW t \in Tabs, NEW e \in Emails, Register(t, e) PROVE AccountsInv'
<1> DEFINE s == Waiting("registering", e, steps)
<1>1. /\ step' = [step EXCEPT ![t] = s] /\ UNCHANGED <<user, session, ceremony>>
      /\ UNCHANGED <<links, newest, promised, verified>> /\ steps' = steps + 1
  BY DEF Register, Visit, linkVars
<1>2. s.at = "registering" /\ s.email = e
  BY DEF Waiting
<1> HIDE DEF s
<1> QED BY <1>1, <1>2, TabMoves DEF Ceremonial, AccountsInv, AccountsShape

LEMMA CreateInv == ASSUME AccountsInv, NEW t \in Tabs, Create(t) PROVE AccountsInv'
<1> DEFINE e == step[t].email
<1>1. /\ step[t].at = "registering" /\ step' = [step EXCEPT ![t] = Idle]
      /\ UNCHANGED <<ceremony, links, newest, promised, verified, steps>>
      /\ \/ user' = [user EXCEPT ![e] = "password"] /\ SignedIn(t, e)
         \/ UNCHANGED <<user, session>>
  BY DEF Create, linkVars
<1>2. e \in Emails
  BY <1>1 DEF AccountsInv, LinksSound, Entered
<1>3. /\ user' = [f \in Emails |-> user'[f]] /\ session' = [b \in Browsers |-> session'[b]]
      /\ \A b \in Browsers : session'[b] # session[b] => session'[b] \in Emails
  BY <1>1, <1>2, SignedInMoves DEF AccountsInv, AccountsShape
<1> QED BY <1>1, <1>3, IdleAt, TabMoves DEF Ceremonial, Entered, AccountsInv, AccountsShape

LEMMA SessionMoves ==
    ASSUME AccountsInv, NEW t \in Tabs,
           UNCHANGED <<user, ceremony, step, links, newest, promised, verified>>, steps' = steps + 1,
           session' = [b \in Browsers |-> session'[b]],
           \A b \in Browsers : session'[b] # session[b] /\ session'[b] # Nothing => session'[b] \in Emails
    PROVE  AccountsInv'
<1>1. CeremoniesMatch'
  BY CeremoniesQuiet
<1>2. LinksSound'
  BY DEF AccountsInv, LinksSound, Sending, Stands, StandsIn
<1> QED BY <1>1, <1>2 DEF AccountsInv, AccountsShape

LEMMA LoginInv == ASSUME AccountsInv, NEW t \in Tabs, NEW e \in Emails, Login(t, e) PROVE AccountsInv'
  BY SignedInMoves, SessionMoves DEF Login, Visit, linkVars

LEMMA LogoutInv == ASSUME AccountsInv, NEW t \in Tabs, Logout(t) PROVE AccountsInv'
<1>1. /\ session' = [b \in Browsers |-> session'[b]]
      /\ \A b \in Browsers : session'[b] # session[b] => session'[b] = Nothing
  BY DEF Logout, AccountsInv, AccountsShape
<1> QED BY <1>1, SessionMoves DEF Logout, Visit, linkVars

\* A ceremony has a challenge no other has had.
LEMMA BeginInv ==
    ASSUME AccountsInv, NEW t \in Tabs, NEW kind \in Ceremonial, NEW e,
           kind = "registration" => e \in Emails, Begin(t, kind, e)
    PROVE  AccountsInv'
<1> DEFINE s == Waiting(kind, e, steps)
           c == [kind |-> kind, email |-> e, challenge |-> steps, expires |-> clock + CeremonyLife]
<1>1. /\ ceremony' = [ceremony EXCEPT ![BrowserOf[t]] = c] /\ step' = [step EXCEPT ![t] = s]
      /\ UNCHANGED <<user, session, links, newest, promised, verified>> /\ steps' = steps + 1
  BY DEF Begin, Visit, linkVars
<1>2. s.at = kind /\ s.email = e /\ s.n = steps /\ c.email = e /\ c.challenge = steps
  BY DEF Waiting
<1> HIDE DEF s, c
<1>3. /\ step' = [u \in Tabs |-> step'[u]] /\ step'[t] = s /\ \A u \in Tabs \ {t} : step'[u] = step[u]
      /\ ceremony' = [b \in Browsers |-> ceremony'[b]]
      /\ \A b \in Browsers : ceremony'[b] = IF b = BrowserOf[t] THEN c ELSE ceremony[b]
  BY <1>1 DEF AccountsInv, AccountsShape
<1>4. ~Sending(t)' /\ (step'[t].at \in Entered => step'[t].email \in Emails)
  BY <1>2, <1>3 DEF Sending, Entered, Ceremonial
<1>5. LinksSound'
  BY <1>1, <1>3, <1>4, LinksQuiet
<1>6. CeremoniesMatch'
  <2>1. CeremoniesMatch /\ steps \in Nat /\ steps' = steps + 1
    BY <1>1 DEF AccountsInv, CeremoniesMatch
  <2>2. ASSUME NEW u \in Tabs, step'[u].at \in Ceremonial
        PROVE  step'[u].n \in Nat /\ step'[u].n < steps'
    BY <1>2, <1>3, <2>1, <2>2 DEF CeremoniesMatch
  <2>3. ASSUME NEW b \in Browsers, ceremony'[b] # Nothing
        PROVE  ceremony'[b].challenge \in Nat /\ ceremony'[b].challenge < steps'
    BY <1>2, <1>3, <2>1, <2>3 DEF CeremoniesMatch
  <2>4. ASSUME NEW b \in Browsers, ceremony'[b] # Nothing, NEW u \in Tabs,
               step'[u].at \in Ceremonial, step'[u].n = ceremony'[b].challenge
        PROVE  step'[u].email = ceremony'[b].email
    <3>1. CASE u = t /\ b = BrowserOf[t]
      BY <1>2, <1>3, <3>1
    <3>2. CASE u = t /\ b # BrowserOf[t]
      BY <1>2, <1>3, <2>1, <2>4, <3>2 DEF CeremoniesMatch
    <3>3. CASE u # t /\ b = BrowserOf[t]
      BY <1>2, <1>3, <2>1, <2>4, <3>3 DEF CeremoniesMatch
    <3>4. CASE u # t /\ b # BrowserOf[t]
      BY <1>3, <2>1, <2>4, <3>4 DEF CeremoniesMatch
    <3> QED BY <3>1, <3>2, <3>3, <3>4
  <2> QED BY <2>1, <2>2, <2>3, <2>4 DEF CeremoniesMatch
<1> QED BY <1>1, <1>3, <1>5, <1>6 DEF AccountsInv, AccountsShape

\* Whom the answer to a ceremony is for: who entered the address.
LEMMA GenuineIsOwn ==
    ASSUME AccountsInv, NEW t \in Tabs, step[t].at = "registration",
           Genuine(t, ceremony[BrowserOf[t]])
    PROVE  ceremony[BrowserOf[t]].email = step[t].email /\ step[t].email \in Emails
<1>1. BrowserOf[t] \in Browsers
  BY AccountsAssumption
<1> QED BY <1>1 DEF Genuine, AccountsInv, CeremoniesMatch, LinksSound, Ceremonial, Entered

\* The end of a ceremony, whatever comes of it.
LEMMA ConsumeMoves ==
    ASSUME AccountsInv, NEW t \in Tabs, Consume(t),
           user' = [e \in Emails |-> user'[e]],
           session' = [b \in Browsers |-> session'[b]],
           \A b \in Browsers : session'[b] # session[b] => session'[b] \in Emails
    PROVE  AccountsInv'
<1>1. /\ ceremony' = [ceremony EXCEPT ![BrowserOf[t]] = Nothing] /\ step' = [step EXCEPT ![t] = Idle]
      /\ UNCHANGED <<links, newest, promised, verified, steps>>
  BY DEF Consume, linkVars
<1>2. /\ ceremony' = [b \in Browsers |-> ceremony'[b]]
      /\ \A b \in Browsers : ceremony'[b] = ceremony[b] \/ ceremony'[b] = Nothing
  BY <1>1 DEF AccountsInv, AccountsShape
<1> QED BY <1>1, <1>2, IdleAt, TabMoves DEF Ceremonial, Entered

LEMMA RegisterVerifyInv == ASSUME AccountsInv, NEW t \in Tabs, RegisterVerify(t) PROVE AccountsInv'
<1> DEFINE e == ceremony[BrowserOf[t]].email
<1>1. /\ step[t].at = "registration" /\ Consume(t)
      /\ \/ /\ Genuine(t, ceremony[BrowserOf[t]]) /\ SignedIn(t, e)
            /\ user' = [user EXCEPT ![e] = "passkey"]
         \/ UNCHANGED <<user, session>>
  BY DEF RegisterVerify
<1>2. CASE Genuine(t, ceremony[BrowserOf[t]]) /\ SignedIn(t, e) /\ user' = [user EXCEPT ![e] = "passkey"]
  <2>1. e \in Emails
    BY <1>1, <1>2, GenuineIsOwn
  <2>2. /\ session' = [b \in Browsers |-> session'[b]]
        /\ \A b \in Browsers : session'[b] # session[b] => session'[b] \in Emails
    BY <1>2, <2>1, SignedInMoves
  <2>3. user' = [f \in Emails |-> user'[f]]
    BY <1>2 DEF AccountsInv, AccountsShape
  <2> QED BY <1>1, <2>2, <2>3, ConsumeMoves
<1>3. CASE UNCHANGED <<user, session>>
  BY <1>1, <1>3, ConsumeMoves DEF AccountsInv, AccountsShape
<1> QED BY <1>1, <1>2, <1>3

LEMMA LoginVerifyInv == ASSUME AccountsInv, NEW t \in Tabs, LoginVerify(t) PROVE AccountsInv'
<1>1. /\ Consume(t) /\ UNCHANGED user
      /\ (\E e \in Emails : SignedIn(t, e)) \/ UNCHANGED session
  BY DEF LoginVerify
<1>2. /\ session' = [b \in Browsers |-> session'[b]]
      /\ \A b \in Browsers : session'[b] # session[b] => session'[b] \in Emails
  BY <1>1, SignedInMoves DEF AccountsInv, AccountsShape
<1> QED BY <1>1, <1>2, ConsumeMoves DEF AccountsInv, AccountsShape

LEMMA RequestLinkInv == ASSUME AccountsInv, NEW t \in Tabs, RequestLink(t) PROVE AccountsInv'
<1> DEFINE e == session[BrowserOf[t]]
           s == Waiting("requested", e, steps)
<1>1. /\ step' = [step EXCEPT ![t] = s] /\ UNCHANGED <<user, session, ceremony>>
      /\ UNCHANGED <<links, newest, promised, verified>> /\ steps' = steps + 1 /\ e # Nothing
  BY DEF RequestLink, Visit, linkVars
<1>2. e \in Emails
  BY <1>1, AccountsAssumption DEF AccountsInv, LinksSound
<1> HIDE DEF e
<1>3. s.at = "requested" /\ s.email = e
  BY DEF Waiting
<1> HIDE DEF s
<1> QED BY <1>1, <1>2, <1>3, TabMoves DEF Ceremonial, AccountsInv, AccountsShape

\* A new link is the newest of its address, and takes away only the others of it.
LEMMA MakeLinkInv == ASSUME AccountsInv, NEW t \in Tabs, MakeLink(t) PROVE AccountsInv'
<1> DEFINE e == step[t].email
           l == [email |-> e, id |-> newest[e] + 1, created |-> clock, expires |-> clock + LinkLife]
           s == [at |-> "sending", email |-> e, link |-> l]
<1>1. /\ step[t].at = "requested" /\ links' = (links \ LinksOf(e)) \cup {l}
      /\ newest' = [newest EXCEPT ![e] = l.id] /\ step' = [step EXCEPT ![t] = s]
      /\ UNCHANGED <<user, verified, session, ceremony, promised, steps>>
  BY DEF MakeLink
<1>2. /\ s.at = "sending" /\ s.link = l /\ l.email = e /\ l.id = newest[e] + 1
  OBVIOUS
<1>3. e \in Emails /\ newest \in [Emails -> Nat] /\ newest[e] \in Nat
  BY <1>1 DEF AccountsInv, LinksSound, Entered
<1> HIDE DEF e, l, s
<1>4. /\ step' = [u \in Tabs |-> step'[u]] /\ step'[t] = s /\ \A u \in Tabs \ {t} : step'[u] = step[u]
  BY <1>1 DEF AccountsInv, AccountsShape
<1>5. /\ newest' \in [Emails -> Nat] /\ newest'[e] = l.id /\ l.id \in Nat /\ newest[e] < l.id
      /\ \A f \in Emails \ {e} : newest'[f] = newest[f]
  BY <1>1, <1>2, <1>3
<1>6. ASSUME NEW q, q.email \in Emails, q.id \in Nat, q.id <= newest[q.email], Stands(q)
      PROVE  q.id <= newest'[q.email] /\ (q.email = e => q.id # l.id)
             /\ StandsIn(q, newest', verified', links')
  <2>1. CASE q.email = e
    BY <1>3, <1>5, <1>6, <2>1 DEF StandsIn
  <2>2. CASE q.email # e
    <3>1. q \in links => q \in links'
      BY <1>1, <2>2 DEF LinksOf
    <3> QED BY <1>1, <1>5, <1>6, <2>2, <3>1 DEF Stands, StandsIn
  <2> QED BY <2>1, <2>2
<1>7. ASSUME NEW p \in promised
      PROVE  /\ p.email \in Emails /\ p.id \in Nat /\ p.id <= newest'[p.email]
             /\ StandsIn(p, newest', verified', links') /\ (p.email = e => p.id # l.id)
  BY <1>6 DEF AccountsInv, LinksSound, Stands, StandsIn
<1>8. ASSUME NEW u \in Tabs \ {t}, Sending(u)
      PROVE  LET q == step[u].link IN
             /\ q.email \in Emails /\ q.id \in Nat /\ q.id <= newest'[q.email]
             /\ StandsIn(q, newest', verified', links')
             /\ (q.email = e => q.id # l.id)
  BY <1>6, <1>8 DEF AccountsInv, LinksSound
<1>9. l \in links'
  BY <1>1
<1>10. LinksSound'
  <2>1. ASSUME NEW u \in Tabs, Sending(u)'
        PROVE  LET q == step'[u].link IN
               /\ q.email \in Emails /\ q.id \in Nat /\ q.id <= newest'[q.email]
               /\ StandsIn(q, newest', verified', links')
               /\ \A p \in promised' : p.email = q.email => p.id # q.id
               /\ \A v \in Tabs \ {u} : Sending(v)' /\ step'[v].link.email = q.email
                                        => step'[v].link.id # q.id
    <3>1. CASE u = t
      <4>1. step'[u].link = l
        BY <1>2, <1>4, <3>1
      <4>2. \A v \in Tabs \ {u} : Sending(v)' => Sending(v) /\ step'[v].link = step[v].link
        BY <1>4, <3>1 DEF Sending
      <4> QED BY <1>1, <1>2, <1>3, <1>5, <1>7, <1>8, <1>9, <3>1, <4>1, <4>2 DEF Stands, StandsIn
    <3>2. CASE u # t
      <4>1. Sending(u) /\ step'[u].link = step[u].link
        BY <1>4, <2>1, <3>2 DEF Sending
      <4>2. /\ \A p \in promised : p.email = step[u].link.email => p.id # step[u].link.id
            /\ \A v \in Tabs \ {u} : Sending(v) /\ step[v].link.email = step[u].link.email
                                     => step[v].link.id # step[u].link.id
        BY <4>1 DEF AccountsInv, LinksSound
      <4>3. ASSUME NEW v \in Tabs \ {u}, Sending(v)', step'[v].link.email = step[u].link.email
            PROVE  step'[v].link.id # step[u].link.id
        <5>1. CASE v = t
          BY <1>2, <1>4, <1>8, <3>2, <4>1, <4>3, <5>1
        <5>2. CASE v # t
          BY <1>4, <4>2, <4>3, <5>2 DEF Sending
        <5> QED BY <5>1, <5>2
      <4> QED BY <1>1, <1>8, <3>2, <4>1, <4>2, <4>3 DEF Stands, StandsIn
    <3> QED BY <3>1, <3>2
  <2>2. \A u \in Tabs : step'[u].at \in Entered => step'[u].email \in Emails
    BY <1>2, <1>4 DEF AccountsInv, LinksSound, Entered
  <2>3. \A b \in Browsers : session'[b] # Nothing => session'[b] \in Emails
    BY <1>1 DEF AccountsInv, LinksSound
  <2> QED BY <1>1, <1>5, <1>7, <2>1, <2>2, <2>3 DEF LinksSound, Stands
<1>11. CeremoniesMatch'
  BY <1>1, <1>2, <1>4, CeremoniesQuiet DEF Ceremonial
<1> QED BY <1>1, <1>4, <1>10, <1>11 DEF AccountsInv, AccountsShape

LEMMA SendInv == ASSUME AccountsInv, NEW t \in Tabs, Send(t) PROVE AccountsInv'
<1> DEFINE l == step[t].link
<1>1. /\ Sending(t) /\ step' = [step EXCEPT ![t] = Idle]
      /\ UNCHANGED <<user, verified, session, ceremony, newest, steps>>
      /\ \/ promised' = promised \cup {l} /\ UNCHANGED links
         \/ links' = links \ {l} /\ UNCHANGED promised
  BY DEF Send, Sending, Withdrawn
<1>2. /\ l.email \in Emails /\ l.id \in Nat /\ l.id <= newest[l.email] /\ Stands(l)
      /\ \A p \in promised : p.email = l.email => p.id # l.id
      /\ \A u \in Tabs \ {t} : Sending(u) /\ step[u].link.email = l.email => step[u].link.id # l.id
  BY <1>1 DEF AccountsInv, LinksSound
<1> HIDE DEF l
<1>3. /\ step' = [u \in Tabs |-> step'[u]] /\ step'[t] = Idle /\ \A u \in Tabs \ {t} : step'[u] = step[u]
  BY <1>1 DEF AccountsInv, AccountsShape
<1>4. ~Sending(t)'
  BY <1>3, IdleAt DEF Sending
<1>5. ASSUME NEW q, Stands(q), q.email = l.email => q.id # l.id PROVE q \in links' \/ ~(q \in links)
  BY <1>1, <1>5
<1>6. LinksSound'
  <2>1. ASSUME NEW p \in promised'
        PROVE  /\ p.email \in Emails /\ p.id \in Nat /\ p.id <= newest'[p.email]
               /\ StandsIn(p, newest', verified', links')
    <3>1. CASE p \in promised
      BY <1>1, <1>2, <1>5, <3>1 DEF AccountsInv, LinksSound, Stands, StandsIn
    <3>2. CASE p = l /\ links' = links
      BY <1>1, <1>2, <3>2 DEF Stands, StandsIn
    <3> QED BY <1>1, <2>1, <3>1, <3>2
  <2>2. ASSUME NEW u \in Tabs, Sending(u)'
        PROVE  LET q == step'[u].link IN
               /\ q.email \in Emails /\ q.id \in Nat /\ q.id <= newest'[q.email]
               /\ StandsIn(q, newest', verified', links')
               /\ \A p \in promised' : p.email = q.email => p.id # q.id
               /\ \A v \in Tabs \ {u} : Sending(v)' /\ step'[v].link.email = q.email
                                        => step'[v].link.id # q.id
    <3> DEFINE q == step[u].link
    <3>1. u # t /\ Sending(u) /\ step'[u].link = q
      BY <1>3, <1>4, <2>2 DEF Sending
    <3>2. /\ q.email \in Emails /\ q.id \in Nat /\ q.id <= newest[q.email] /\ Stands(q)
          /\ \A p \in promised : p.email = q.email => p.id # q.id
          /\ \A v \in Tabs \ {u} : Sending(v) /\ step[v].link.email = q.email
                                   => step[v].link.id # q.id
          /\ q.email = l.email => q.id # l.id
      BY <1>2, <3>1 DEF AccountsInv, LinksSound
    <3> HIDE DEF q
    <3>3. \A v \in Tabs : Sending(v)' => Sending(v) /\ step'[v].link = step[v].link
      BY <1>3, <1>4 DEF Sending
    <3>4. q \in links => q \in links'
      BY <1>5, <3>2
    <3> QED BY <1>1, <3>1, <3>2, <3>3, <3>4 DEF Stands, StandsIn
  <2>3. \A u \in Tabs : step'[u].at \in Entered => step'[u].email \in Emails
    BY <1>3, IdleAt DEF AccountsInv, LinksSound, Entered
  <2>4. \A b \in Browsers : session'[b] # Nothing => session'[b] \in Emails
    BY <1>1 DEF AccountsInv, LinksSound
  <2>5. newest' \in [Emails -> Nat]
    BY <1>1 DEF AccountsInv, LinksSound
  <2> QED BY <2>1, <2>2, <2>3, <2>4, <2>5 DEF LinksSound, Stands
<1>7. CeremoniesMatch'
  BY <1>1, <1>3, IdleAt, CeremoniesQuiet DEF Ceremonial
<1> QED BY <1>1, <1>3, <1>6, <1>7 DEF AccountsInv, AccountsShape

\* A link that is used takes away those of its address, which is verified then.
LEMMA ConfirmInv == ASSUME AccountsInv, NEW l, Confirm(l) PROVE AccountsInv'
<1>1. /\ steps' = steps + 1 /\ verified' = verified \cup {l.email} /\ links' = links \ LinksOf(l.email)
      /\ UNCHANGED <<user, session, ceremony, step, newest, promised>>
  BY DEF Confirm
<1>2. \A q : Stands(q) => StandsIn(q, newest', verified', links')
  BY <1>1 DEF Stands, StandsIn, LinksOf
<1>3. LinksSound'
  BY <1>1, <1>2 DEF AccountsInv, LinksSound, Sending, Stands, StandsIn
<1>4. CeremoniesMatch'
  BY <1>1 DEF AccountsInv, CeremoniesMatch
<1> QED BY <1>1, <1>3, <1>4 DEF AccountsInv, AccountsShape

LEMMA AccountsNextInv == AccountsInv /\ [AccountsNext]_accountsVars => AccountsInv'
<1> SUFFICES ASSUME AccountsInv, [AccountsNext]_accountsVars PROVE AccountsInv'
  OBVIOUS
<1>1. ASSUME NEW t \in Tabs, NEW e \in Emails, Register(t, e) \/ Login(t, e) PROVE AccountsInv'
  BY <1>1, RegisterInv, LoginInv
<1>2. ASSUME NEW t \in Tabs, NEW e \in Emails, RegisterOptions(t, e) PROVE AccountsInv'
  BY <1>2, BeginInv DEF RegisterOptions, Ceremonial
<1>3. ASSUME NEW t \in Tabs, LoginOptions(t) PROVE AccountsInv'
  BY <1>3, BeginInv DEF LoginOptions, Ceremonial
<1>4. ASSUME NEW t \in Tabs, Create(t) \/ Logout(t) \/ RegisterVerify(t) \/ LoginVerify(t)
      PROVE  AccountsInv'
  BY <1>4, CreateInv, LogoutInv, RegisterVerifyInv, LoginVerifyInv
<1>5. ASSUME NEW t \in Tabs, RequestLink(t) \/ MakeLink(t) \/ Send(t) PROVE AccountsInv'
  BY <1>5, RequestLinkInv, MakeLinkInv, SendInv
<1>6. CASE Tick
  BY <1>6 DEF Tick, linkVars, AccountsInv, AccountsShape, CeremoniesMatch, LinksSound, Sending, Stands, StandsIn
<1>7. CASE UNCHANGED accountsVars
  BY <1>7 DEF accountsVars, AccountsInv, AccountsShape, CeremoniesMatch, LinksSound, Sending, Stands, StandsIn
<1> QED BY <1>1, <1>2, <1>3, <1>4, <1>5, <1>6, <1>7, ConfirmInv DEF AccountsNext

\* One step's part of the property of accounts.
Opens(e, t) ==
    /\ user[e] = Nothing
    /\ step[t].at \in {"registering", "registration"} /\ step[t].email = e /\ step'[t] = Idle
    /\ \A b \in Browsers \ {BrowserOf[t]} : session'[b] = session[b]

LEMMA OpensOnce ==
    ASSUME AccountsInv, AccountsNext, NEW e \in Emails, user'[e] # user[e]
    PROVE  \E t \in Tabs : Opens(e, t)
<1>1. PICK t \in Tabs : Create(t) \/ RegisterVerify(t)
  <2>1. ASSUME NEW t \in Tabs, NEW f \in Emails, Register(t, f) \/ Login(t, f) \/ RegisterOptions(t, f)
        PROVE  user' = user
    BY <2>1 DEF Register, Login, RegisterOptions, Begin
  <2>2. ASSUME NEW t \in Tabs, \/ Logout(t) \/ LoginOptions(t) \/ LoginVerify(t) \/ RequestLink(t)
                               \/ MakeLink(t) \/ Send(t)
        PROVE  user' = user
    BY <2>2 DEF Logout, LoginOptions, Begin, LoginVerify, RequestLink, MakeLink, Send
  <2>3. ASSUME NEW l, Confirm(l) PROVE user' = user
    BY <2>3 DEF Confirm
  <2>4. Tick => user' = user
    BY DEF Tick
  <2> QED BY <2>1, <2>2, <2>3, <2>4 DEF AccountsNext
<1>2. step = [u \in Tabs |-> step[u]] /\ user = [f \in Emails |-> user[f]]
  BY DEF AccountsInv, AccountsShape
<1>3. CASE Create(t)
  <2>1. /\ step[t].at = "registering" /\ step' = [step EXCEPT ![t] = Idle]
        /\ user[step[t].email] = Nothing /\ user' = [user EXCEPT ![step[t].email] = "password"]
        /\ SignedIn(t, step[t].email)
    BY <1>3 DEF Create
  <2>2. step[t].email = e /\ step'[t] = Idle
    BY <1>2, <2>1
  <2>3. \A b \in Browsers \ {BrowserOf[t]} : session'[b] = session[b]
    BY <2>1, <2>2, SignedInMoves
  <2> QED BY <2>1, <2>2, <2>3 DEF Opens
<1>4. CASE RegisterVerify(t)
  <2> DEFINE f == ceremony[BrowserOf[t]].email
  <2>1. /\ step[t].at = "registration" /\ step' = [step EXCEPT ![t] = Idle]
        /\ Genuine(t, ceremony[BrowserOf[t]]) /\ user[f] = Nothing
        /\ user' = [user EXCEPT ![f] = "passkey"] /\ SignedIn(t, f)
    BY <1>4 DEF RegisterVerify, Consume
  <2>2. f = e /\ step'[t] = Idle
    BY <1>2, <2>1
  <2>3. step[t].email = f
    BY <2>1, GenuineIsOwn
  <2>4. \A b \in Browsers \ {BrowserOf[t]} : session'[b] = session[b]
    BY <2>1, <2>2, SignedInMoves
  <2> QED BY <2>1, <2>2, <2>3, <2>4 DEF Opens
<1> QED BY <1>1, <1>3, <1>4

\* An account is opened once and by the tab in which its address was entered, and the newest
\* link that was sent works until it expires or the address is verified: however tabs share
\* the cookie of a browser, and however requests, sendings and withdrawals of links mix.
THEOREM AccountsAreHonoured == AccountsSpec => AccountsHonoured
<1>1. AccountsInv => LinkKept
  BY DEF AccountsInv, LinksSound, Stands, StandsIn, LinkKept
<1>2. AccountsInv /\ [AccountsNext]_accountsVars =>
        [\A e \in Emails : user'[e] # user[e] =>
            /\ user[e] = Nothing
            /\ \E t \in Tabs :
                  /\ step[t].at \in {"registering", "registration"}
                  /\ step[t].email = e
                  /\ step'[t] = Idle
                  /\ \A b \in Browsers \ {BrowserOf[t]} : session'[b] = session[b]]_accountsVars
  BY OpensOnce DEF Opens
<1> QED BY <1>1, <1>2, AccountsInitInv, AccountsNextInv, PTL
           DEF AccountsSpec, AccountsHonoured, OpenedOnce
=============================================================================
