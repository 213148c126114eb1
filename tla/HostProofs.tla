------------------------------ MODULE HostProofs ------------------------------
(***************************************************************************)
(* Proofs about the parts of the daemon's host that share no state: its    *)
(* starts and ends (Service), its bounded log (ServiceLog), the compaction *)
(* of its tables (Retention), and the pure decisions, for every input: the *)
(* startup ceiling (Startup), ancestry (ProcessTree), confidence           *)
(* (Detection) and the lists of protected names (Protection).              *)
(***************************************************************************)
EXTENDS MCHost, FiniteSetTheorems, SequenceTheorems, NaturalsInduction, TLAPS

(***************************************************************************)
(* Starts and ends of daemons.                                             *)
(***************************************************************************)

Pcs == {"off", "open", "migrate", "unusable", "audit", "stat", "serve"} \cup Window
AfterOpen == {"audit", "stat", "serve"} \cup Window

DbType == [schema : Nat, readable : BOOLEAN, recovered : SUBSET Nat]
DaemonType == [pc : Pcs, build : Nat, file : Nat, seen : Nat, retry : BOOLEAN, moved : Nat]

\* The types of the database files and of the daemons.
ServiceType ==
    /\ dbs \in Seq(DbType) /\ path \in 0..Len(dbs)
    /\ d \in [Daemons -> DaemonType]
    /\ 0 \notin aside

\* A daemon that has opened its file holds one that exists, whose schema version
\* is at least the one it read or wrote last; past Open that is its build's.
\* Only the second attempt of Open has a file moved aside to account for.
HandleOK ==
    \A i \in Daemons :
        /\ d[i].pc \in AfterOpen \cup {"migrate"} =>
              /\ d[i].file \in 1..Len(dbs) /\ d[i].seen <= dbs[d[i].file].schema
        /\ d[i].pc \in AfterOpen => d[i].seen = d[i].build
        /\ ~d[i].retry => d[i].moved = 0

\* As long as no socket was up for removal, a daemon that got to bind owns the
\* path, and nobody removes anything.
UndoubtedOK ==
    ~doubted =>
        \A i \in Daemons :
            /\ d[i].pc \in {"listen", "chmod", "serve"} => sock = i
            /\ d[i].pc \notin {"remove", "abandon", "closing"}

\* As long as starts and stops came one after the other, the one daemon inside
\* Listen or stopping knows whose the path is: it removes a socket nobody
\* serves, binds where there is none, and the daemon that serves owns the path.
ApartOK ==
    ~overlapped =>
        \A i \in Daemons :
            /\ d[i].pc \in Window => \A j \in Daemons : j # i => d[j].pc \notin Window
            /\ d[i].pc \in {"listen", "chmod", "serve"} => sock = i
            /\ d[i].pc \in {"bind", "closing"} => sock = NoDaemon
            /\ d[i].pc = "remove" => \A j \in Daemons : d[j].pc # "serve"
            /\ d[i].pc # "abandon"

SocketOK == UndoubtedOK /\ ApartOK

ServiceInv == ServiceType /\ HandleOK /\ RecoveryAudited /\ SocketOK

\* The step of one daemon.
DaemonStep(i) ==
    \/ Start(i) \/ OpenRead(i) \/ Migrate(i) \/ Opened(i) \/ MoveAside(i)
    \/ (\E ok \in BOOLEAN : AuditRecovery(i, ok)) \/ Once(i)
    \/ ListenStat(i) \/ (\E late \in BOOLEAN : ListenDial(i, late)) \/ ListenRemove(i)
    \/ ListenBind(i) \/ ListenListen(i) \/ ListenChmod(i) \/ ListenAbandon(i)
    \/ ServeShutdown(i) \/ ServeRemove(i) \/ Crash(i)

\* Files are only added, their schema versions only grow and the recoveries
\* audited in them stay.
FilesKept ==
    /\ Len(dbs) <= Len(dbs')
    /\ \A f \in 1..Len(dbs) : dbs[f].schema <= dbs'[f].schema /\ dbs[f].recovered \subseteq dbs'[f].recovered

\* Only the daemon that takes the step changes.
LEMMA OnlyOne ==
    ASSUME ServiceType, NEW i \in Daemons, DaemonStep(i)
    PROVE  \A j \in Daemons : j # i => d'[j] = d[j]
  BY DEF ServiceType, DaemonStep, Start, OpenRead, Migrate, Opened, MoveAside, AuditRecovery, Once,
         ListenStat, ListenDial, ListenRemove, ListenBind, ListenListen, ListenChmod, ListenAbandon,
         ServeShutdown, ServeRemove, Crash, Step, Goto, Exit

\* The invariant holds before any daemon started.
LEMMA ServiceInvInit == ServiceInit => ServiceInv
  <1>. SUFFICES ASSUME ServiceInit PROVE ServiceInv
    OBVIOUS
  <1>1. \A i \in Daemons : d[i] = Idle
    BY DEF ServiceInit
  <1>2. Idle \in DaemonType
    BY DEF Idle, DaemonType, Pcs
  <1>3. ServiceType
    BY <1>2 DEF ServiceInit, ServiceType
  <1>4. HandleOK /\ RecoveryAudited /\ SocketOK
    BY <1>1 DEF HandleOK, RecoveryAudited, SocketOK, UndoubtedOK, ApartOK, ServiceInit, Idle, AfterOpen, Window
  <1>. QED
    BY <1>3, <1>4 DEF ServiceInv

\* A database file keeps its type when its schema version, its audit trail or its
\* readability is written.
LEMMA FileWritten ==
    ASSUME dbs \in Seq(DbType), NEW f \in 1..Len(dbs), NEW r \in DbType,
           dbs' = [dbs EXCEPT ![f] = r]
    PROVE  /\ dbs' \in Seq(DbType) /\ Len(dbs') = Len(dbs) /\ dbs'[f] = r
           /\ \A g \in 1..Len(dbs) : g # f => dbs'[g] = dbs[g]
  OBVIOUS

\* What the open of a database does to the files and to the daemon.
LEMMA OpenReadEffect ==
    ASSUME ServiceInv, NEW i \in Daemons, OpenRead(i)
    PROVE  /\ dbs' \in Seq(DbType) /\ path' \in 1..Len(dbs') /\ FilesKept
           /\ d[i].pc = "open" /\ d'[i] \in DaemonType
           /\ d'[i].pc \in {"migrate", "unusable"} /\ d'[i].file = path'
           /\ d'[i].seen = dbs'[path'].schema
           /\ d'[i].retry = d[i].retry /\ d'[i].moved = d[i].moved
           /\ \A f \in 1..Len(dbs) : dbs'[f] = dbs[f]
           /\ UNCHANGED <<aside, sock, history, lost>>
  <1>1. ServiceType /\ d[i] \in DaemonType
    BY DEF ServiceInv, ServiceType
  <1>2. Fresh \in DbType
    BY DEF Fresh, DbType
  <1>3. /\ dbs' \in Seq(DbType) /\ path' \in 1..Len(dbs') /\ Len(dbs) <= Len(dbs')
        /\ \A f \in 1..Len(dbs) : dbs'[f] = dbs[f]
    <2>1. CASE path = 0
      <3>1. dbs' = Append(dbs, Fresh) /\ path' = Len(dbs')
        BY <2>1 DEF OpenRead
      <3>. QED
        BY <1>1, <1>2, <3>1 DEF ServiceType
    <2>2. CASE path # 0
      BY <1>1, <2>2 DEF OpenRead, ServiceType
    <2>. QED
      BY <2>1, <2>2
  <1>4. dbs'[path'] \in DbType
    BY <1>3
  <1>5. \A f \in 1..Len(dbs) : dbs[f] \in DbType
    BY <1>1 DEF ServiceType
  <1>6. PICK p \in {"migrate", "unusable"} :
            d' = [d EXCEPT ![i] = [d[i] EXCEPT !.pc = p, !.file = path', !.seen = dbs'[path'].schema]]
    BY DEF OpenRead, Step
  <1>7. d'[i] = [d[i] EXCEPT !.pc = p, !.file = path', !.seen = dbs'[path'].schema]
    BY <1>1, <1>6 DEF ServiceType
  <1>8. p \in Pcs /\ path' \in Nat /\ dbs'[path'].schema \in Nat
    BY <1>3, <1>4 DEF Pcs, DbType
  <1>9. /\ d'[i] \in DaemonType /\ d'[i].pc = p /\ d'[i].file = path' /\ d'[i].seen = dbs'[path'].schema
        /\ d'[i].retry = d[i].retry /\ d'[i].moved = d[i].moved
    BY <1>1, <1>7, <1>8 DEF DaemonType
  <1>. QED
    BY <1>3, <1>5, <1>9 DEF OpenRead, FilesKept, DbType

\* What one migration does.
LEMMA MigrateEffect ==
    ASSUME ServiceInv, NEW i \in Daemons, Migrate(i)
    PROVE  /\ dbs' \in Seq(DbType) /\ Len(dbs') = Len(dbs) /\ FilesKept
           /\ d[i].pc = "migrate" /\ d'[i] \in DaemonType /\ d'[i].pc \in {"migrate", "unusable"}
           /\ d'[i].pc = "migrate" => d'[i].file = d[i].file /\ d'[i].seen <= dbs'[d'[i].file].schema
           /\ d'[i].retry = d[i].retry /\ d'[i].moved = d[i].moved
           /\ UNCHANGED <<path, aside, sock, history, lost>>
  <1>1. ServiceType /\ d[i] \in DaemonType /\ HandleOK
    BY DEF ServiceInv, ServiceType
  <1>2. PICK f \in 1..Len(dbs) : f = d[i].file
    BY <1>1 DEF Migrate, HandleOK
  <1>3. dbs[f] \in DbType /\ \A g \in 1..Len(dbs) : dbs[g] \in DbType
    BY <1>1 DEF ServiceType
  <1>4. CASE dbs[f].readable /\ dbs[f].schema = d[i].seen
    <2>1. /\ dbs' = [dbs EXCEPT ![f] = [dbs[f] EXCEPT !.schema = dbs[f].schema + 1]]
          /\ d' = [d EXCEPT ![i] = [d[i] EXCEPT !.seen = d[i].seen + 1]]
      BY <1>2, <1>4 DEF Migrate, Step
    <2>2. /\ [dbs[f] EXCEPT !.schema = dbs[f].schema + 1] \in DbType
          /\ [dbs[f] EXCEPT !.schema = dbs[f].schema + 1].schema = dbs[f].schema + 1
          /\ [dbs[f] EXCEPT !.schema = dbs[f].schema + 1].recovered = dbs[f].recovered
      BY <1>3 DEF DbType
    <2>3. /\ dbs' \in Seq(DbType) /\ Len(dbs') = Len(dbs) /\ dbs'[f].schema = dbs[f].schema + 1
          /\ dbs'[f].recovered = dbs[f].recovered
          /\ \A g \in 1..Len(dbs) : g # f => dbs'[g] = dbs[g]
      BY <1>1, <2>1, <2>2, FileWritten DEF ServiceType
    <2>4. \A g \in 1..Len(dbs) : dbs[g].schema \in Nat
      BY <1>3 DEF DbType
    <2>5. FilesKept
      BY <2>3, <2>4 DEF FilesKept
    <2>6. d'[i] = [d[i] EXCEPT !.seen = d[i].seen + 1]
      BY <1>1, <2>1 DEF ServiceType
    <2>7. /\ d'[i] \in DaemonType /\ d'[i].pc = d[i].pc /\ d'[i].file = d[i].file
          /\ d'[i].seen = d[i].seen + 1 /\ d'[i].retry = d[i].retry /\ d'[i].moved = d[i].moved
      BY <1>1, <2>6 DEF DaemonType
    <2>8. d'[i].seen <= dbs'[f].schema
      BY <1>1, <1>4, <2>3, <2>4, <2>7 DEF DaemonType
    <2>. QED
      BY <1>1, <1>2, <1>3, <1>4, <2>3, <2>5, <2>7, <2>8 DEF Migrate
  <1>5. CASE ~(dbs[f].readable /\ dbs[f].schema = d[i].seen)
    <2>1. dbs' = dbs /\ d' = [d EXCEPT ![i] = [d[i] EXCEPT !.pc = "unusable"]]
      BY <1>2, <1>5 DEF Migrate, Step
    <2>2. d'[i] = [d[i] EXCEPT !.pc = "unusable"]
      BY <1>1, <2>1 DEF ServiceType
    <2>3. /\ d'[i] \in DaemonType /\ d'[i].pc = "unusable"
          /\ d'[i].retry = d[i].retry /\ d'[i].moved = d[i].moved
      BY <1>1, <2>2 DEF DaemonType, Pcs
    <2>4. \A g \in 1..Len(dbs) : dbs[g].schema \in Nat
      BY <1>3 DEF DbType
    <2>5. FilesKept
      BY <1>1, <2>1, <2>4 DEF FilesKept, ServiceType
    <2>. QED
      BY <1>1, <2>1, <2>3, <2>5 DEF Migrate, ServiceType
  <1>. QED
    BY <1>4, <1>5

\* What the audit of a recovery does.
LEMMA AuditEffect ==
    ASSUME ServiceInv, NEW i \in Daemons, NEW ok \in BOOLEAN, AuditRecovery(i, ok)
    PROVE  /\ dbs' \in Seq(DbType) /\ Len(dbs') = Len(dbs) /\ FilesKept
           /\ d[i].pc = "audit" /\ d' = [d EXCEPT ![i] = [d[i] EXCEPT !.pc = "stat"]]
           /\ (d[i].moved \in lost' \/ d[i].moved \in dbs'[d[i].file].recovered)
           /\ lost \subseteq lost' /\ UNCHANGED <<path, aside, sock, history>>
  <1>1. ServiceType /\ d[i] \in DaemonType /\ HandleOK
    BY DEF ServiceInv, ServiceType
  <1>2. PICK f \in 1..Len(dbs) : f = d[i].file
    BY <1>1 DEF AuditRecovery, HandleOK, AfterOpen
  <1>3. dbs[f] \in DbType /\ \A g \in 1..Len(dbs) : dbs[g].schema \in Nat
    <2>1. \A g \in 1..Len(dbs) : dbs[g] \in DbType
      BY <1>1 DEF ServiceType
    <2>. QED
      BY <2>1 DEF DbType
  <1>4. CASE ok
    <2>1. dbs' = [dbs EXCEPT ![f] = [dbs[f] EXCEPT !.recovered = dbs[f].recovered \cup {d[i].moved}]]
      BY <1>2, <1>4 DEF AuditRecovery
    <2>. DEFINE r == [dbs[f] EXCEPT !.recovered = dbs[f].recovered \cup {d[i].moved}]
    <2>2. r \in DbType /\ r.schema = dbs[f].schema /\ r.recovered = dbs[f].recovered \cup {d[i].moved}
      BY <1>1, <1>3 DEF DbType, DaemonType
    <2>. HIDE DEF r
    <2>3. /\ dbs' \in Seq(DbType) /\ Len(dbs') = Len(dbs) /\ dbs'[f] = r
          /\ \A g \in 1..Len(dbs) : g # f => dbs'[g] = dbs[g]
      BY <1>1, <2>1, <2>2, FileWritten DEF ServiceType, r
    <2>4. FilesKept
      BY <1>3, <2>2, <2>3 DEF FilesKept
    <2>5. d' = [d EXCEPT ![i] = [d[i] EXCEPT !.pc = "stat"]]
      BY DEF AuditRecovery, Goto, Step
    <2>. QED
      BY <1>2, <1>4, <2>2, <2>3, <2>4, <2>5 DEF AuditRecovery
  <1>5. CASE ~ok
    <2>1. dbs' = dbs /\ d' = [d EXCEPT ![i] = [d[i] EXCEPT !.pc = "stat"]]
      BY <1>5 DEF AuditRecovery, Goto, Step
    <2>. QED
      BY <1>1, <1>3, <1>5, <2>1 DEF AuditRecovery, FilesKept, ServiceType
  <1>. QED
    BY <1>4, <1>5

\* Removing a daemon's claim needs the file it moved aside to be accounted for;
\* everything else that accounts for a file stays.
AuditKept(i) ==
    /\ aside \subseteq aside' /\ lost \subseteq lost' /\ FilesKept
    /\ d[i].pc \in BeforeAudit =>
          \/ d[i].moved = 0 \/ d[i].moved \in lost'
          \/ \E g \in 1..Len(dbs') : d[i].moved \in dbs'[g].recovered
          \/ d'[i].pc \in BeforeAudit /\ d'[i].moved = d[i].moved
    /\ \A f \in aside' \ aside : d'[i].moved = f /\ d'[i].pc \in BeforeAudit

\* The database and the daemon after every step of it: types, handles and the
\* accounts of files moved aside.
Effect(i) ==
    /\ dbs' \in Seq(DbType) /\ path' \in 0..Len(dbs') /\ 0 \notin aside'
    /\ d'[i] \in DaemonType
    /\ d'[i].pc \in AfterOpen \cup {"migrate"} =>
          d'[i].file \in 1..Len(dbs') /\ d'[i].seen <= dbs'[d'[i].file].schema
    /\ d'[i].pc \in AfterOpen => d'[i].seen = d'[i].build
    /\ ~d'[i].retry => d'[i].moved = 0
    /\ AuditKept(i)

\* A step that only moves a daemon on, or ends it, and leaves the database alone.
LEMMA EffectMove ==
    ASSUME ServiceInv, NEW i \in Daemons, NEW p \in Pcs,
           UNCHANGED <<dbs, path, aside>>, lost \subseteq lost',
           \/ d' = [d EXCEPT ![i] = Idle]
           \/ d' = [d EXCEPT ![i] = [d[i] EXCEPT !.pc = p]],
           \/ /\ d' = [d EXCEPT ![i] = [d[i] EXCEPT !.pc = p]]
              /\ d[i].pc \in AfterOpen \/ (d[i].pc = "migrate" /\ d[i].seen = d[i].build)
              /\ d[i].pc \in BeforeAudit /\ p \notin BeforeAudit => d[i].moved = 0
           \/ d' = [d EXCEPT ![i] = Idle] /\ (d[i].pc \in BeforeAudit => d[i].moved \in lost')
    PROVE  Effect(i)
  <1>1. ServiceType /\ d[i] \in DaemonType /\ HandleOK
    BY DEF ServiceInv, ServiceType
  <1>2. FilesKept
    <2>1. \A f \in 1..Len(dbs) : dbs[f] \in DbType
      BY <1>1 DEF ServiceType
    <2>2. \A f \in 1..Len(dbs) : dbs[f].schema \in Nat
      BY <2>1 DEF DbType
    <2>. QED
      BY <1>1, <2>2 DEF FilesKept, ServiceType
  <1>3. dbs' \in Seq(DbType) /\ path' \in 0..Len(dbs') /\ 0 \notin aside'
    BY <1>1 DEF ServiceType
  <1>4. CASE d' = [d EXCEPT ![i] = Idle] /\ (d[i].pc \in BeforeAudit => d[i].moved \in lost')
    <2>1. d'[i] = Idle
      BY <1>1, <1>4 DEF ServiceType
    <2>2. Idle \in DaemonType /\ Idle.pc = "off" /\ Idle.moved = 0
      BY DEF Idle, DaemonType, Pcs
    <2>3. AuditKept(i)
      BY <1>2, <1>4 DEF AuditKept
    <2>. QED
      BY <1>3, <2>1, <2>2, <2>3 DEF Effect, AfterOpen, Window
  <1>5. CASE /\ d' = [d EXCEPT ![i] = [d[i] EXCEPT !.pc = p]]
             /\ d[i].pc \in AfterOpen \/ (d[i].pc = "migrate" /\ d[i].seen = d[i].build)
             /\ d[i].pc \in BeforeAudit /\ p \notin BeforeAudit => d[i].moved = 0
    <2>1. d'[i] = [d[i] EXCEPT !.pc = p]
      BY <1>1, <1>5 DEF ServiceType
    <2>2. /\ d'[i] \in DaemonType /\ d'[i].pc = p /\ d'[i].moved = d[i].moved /\ d'[i].file = d[i].file
          /\ d'[i].seen = d[i].seen /\ d'[i].build = d[i].build /\ d'[i].retry = d[i].retry
      BY <1>1, <2>1 DEF DaemonType
    <2>3. AuditKept(i)
      BY <1>2, <1>5, <2>2 DEF AuditKept
    <2>4. /\ d[i].file \in 1..Len(dbs) /\ d[i].seen <= dbs[d[i].file].schema /\ d[i].seen = d[i].build
          /\ ~d[i].retry => d[i].moved = 0
      BY <1>1, <1>5 DEF HandleOK
    <2>. QED
      BY <1>3, <2>2, <2>3, <2>4 DEF Effect
  <1>. QED
    BY <1>4, <1>5

\* Every step of a daemon has an effect of this kind.
LEMMA DaemonEffect ==
    ASSUME ServiceInv, NEW i \in Daemons, DaemonStep(i)
    PROVE  Effect(i)
  <1>1. ServiceType /\ d[i] \in DaemonType /\ HandleOK
    BY DEF ServiceInv, ServiceType
  <1>2. \A f \in 1..Len(dbs) : dbs[f] \in DbType /\ dbs[f].schema \in Nat
    <2>1. \A f \in 1..Len(dbs) : dbs[f] \in DbType
      BY <1>1 DEF ServiceType
    <2>. QED
      BY <2>1 DEF DbType
  <1>3. UNCHANGED dbs => FilesKept
    BY <1>1, <1>2 DEF FilesKept, ServiceType
  <1>4. CASE Start(i)
    <2>1. PICK b \in Builds : d' = [d EXCEPT ![i] = [Idle EXCEPT !.pc = "open", !.build = b]]
      BY <1>4 DEF Start, Step
    <2>2. d[i].pc = "off" /\ UNCHANGED <<dbs, path, aside, lost>>
      BY <1>4 DEF Start, Step
    <2>3. d'[i] = [Idle EXCEPT !.pc = "open", !.build = b] /\ b \in Nat
      BY <1>1, <2>1, ServiceAssumption DEF ServiceType
    <2>4. d'[i] \in DaemonType /\ d'[i].pc = "open" /\ d'[i].moved = 0
      <3>1. d'[i] = [pc |-> "open", build |-> b, file |-> 0, seen |-> 0, retry |-> FALSE, moved |-> 0]
        BY <2>3 DEF Idle
      <3>2. "open" \in Pcs /\ b \in Nat
        BY <2>3 DEF Pcs
      <3>. QED
        BY <3>1, <3>2 DEF DaemonType
    <2>5. AuditKept(i)
      BY <1>3, <2>2 DEF AuditKept, BeforeAudit
    <2>. QED
      BY <1>1, <2>2, <2>4, <2>5 DEF Effect, AfterOpen, Window, ServiceType
  <1>5. CASE OpenRead(i)
    <2>1. AuditKept(i)
      BY <1>5, OpenReadEffect DEF AuditKept, BeforeAudit
    <2>2. dbs'[path'] \in DbType /\ path' \in 0..Len(dbs')
      BY <1>5, OpenReadEffect
    <2>3. d'[i].seen <= dbs'[d'[i].file].schema
      BY <1>5, <2>2, OpenReadEffect DEF DbType
    <2>. QED
      BY <1>1, <1>5, <2>1, <2>2, <2>3, OpenReadEffect DEF Effect, AfterOpen, Window, HandleOK, ServiceType
  <1>6. CASE Migrate(i)
    <2>1. AuditKept(i)
      BY <1>6, MigrateEffect DEF AuditKept, BeforeAudit
    <2>. QED
      BY <1>1, <1>6, <2>1, MigrateEffect DEF Effect, AfterOpen, Window, HandleOK, ServiceType
  <1>7. CASE Opened(i)
    BY <1>7, EffectMove DEF Opened, Goto, Step, BeforeAudit, Pcs
  <1>8. CASE MoveAside(i)
    <2>1. CASE d[i].retry \/ path = 0
      BY <1>8, <2>1, EffectMove DEF MoveAside, Exit, Step, Pcs
    <2>2. CASE ~(d[i].retry \/ path = 0)
      <3>1. /\ d' = [d EXCEPT ![i] = [d[i] EXCEPT !.pc = "open", !.retry = TRUE, !.moved = path]]
            /\ aside' = aside \cup {path} /\ path' = 0 /\ path # 0 /\ UNCHANGED <<dbs, lost>>
        BY <1>8, <2>2 DEF MoveAside, Step
      <3>2. d'[i] = [d[i] EXCEPT !.pc = "open", !.retry = TRUE, !.moved = path] /\ path \in Nat
        BY <1>1, <3>1 DEF ServiceType
      <3>3. d'[i] \in DaemonType /\ d'[i].pc = "open" /\ d'[i].retry /\ d'[i].moved = path
        BY <1>1, <3>2 DEF DaemonType, Pcs
      <3>4. d[i].moved = 0
        BY <1>1, <2>2 DEF HandleOK
      <3>5. AuditKept(i)
        BY <1>3, <3>1, <3>3, <3>4 DEF AuditKept, BeforeAudit
      <3>. QED
        BY <1>1, <3>1, <3>3, <3>5 DEF Effect, AfterOpen, Window, ServiceType
    <2>. QED
      BY <2>1, <2>2
  <1>9. ASSUME NEW ok \in BOOLEAN, AuditRecovery(i, ok) PROVE Effect(i)
    <2>1. d'[i] = [d[i] EXCEPT !.pc = "stat"]
      BY <1>1, <1>9, AuditEffect DEF ServiceType
    <2>2. /\ d'[i] \in DaemonType /\ d'[i].pc = "stat" /\ d'[i].moved = d[i].moved /\ d'[i].file = d[i].file
          /\ d'[i].seen = d[i].seen /\ d'[i].build = d[i].build /\ d'[i].retry = d[i].retry
      BY <1>1, <2>1 DEF DaemonType, Pcs
    <2>3. /\ d[i].file \in 1..Len(dbs) /\ d[i].seen <= dbs[d[i].file].schema /\ d[i].seen = d[i].build
          /\ ~d[i].retry => d[i].moved = 0
      BY <1>1, <1>9, AuditEffect DEF HandleOK, AfterOpen
    <2>4. AuditKept(i)
      BY <1>9, <2>3, AuditEffect DEF AuditKept
    <2>5. d'[i].seen <= dbs'[d'[i].file].schema
      <3>1. PICK f \in 1..Len(dbs) : f = d[i].file
        BY <2>3
      <3>2. dbs'[f].schema \in Nat /\ dbs[f].schema <= dbs'[f].schema
        <4>1. dbs'[f] \in DbType
          BY <1>9, AuditEffect
        <4>. QED
          BY <1>9, <4>1, AuditEffect DEF DbType, FilesKept
      <3>. QED
        BY <1>1, <1>2, <2>2, <2>3, <3>1, <3>2 DEF DaemonType
    <2>. QED
      BY <1>1, <1>9, <2>2, <2>3, <2>4, <2>5, AuditEffect DEF Effect, ServiceType
  <1>10. CASE \/ Once(i) \/ ListenStat(i) \/ (\E late \in BOOLEAN : ListenDial(i, late)) \/ ListenRemove(i)
              \/ ListenBind(i) \/ ListenListen(i) \/ ListenChmod(i) \/ ListenAbandon(i)
              \/ ServeShutdown(i) \/ ServeRemove(i)
    <2>1. d[i].pc \in {"stat", "serve"} \cup Window
      BY <1>10 DEF Once, ListenStat, ListenDial, ListenRemove, ListenBind, ListenListen, ListenChmod,
                  ListenAbandon, ServeShutdown, ServeRemove, Exit, Goto, Step, Window
    <2>2. \/ d' = [d EXCEPT ![i] = Idle]
          \/ \E p \in Pcs : d' = [d EXCEPT ![i] = [d[i] EXCEPT !.pc = p]]
      BY <1>10 DEF Once, ListenStat, ListenDial, ListenRemove, ListenBind, ListenListen, ListenChmod,
                  ListenAbandon, ServeShutdown, ServeRemove, Exit, Goto, Step, Pcs, Window
    <2>3. UNCHANGED <<dbs, path, aside, lost>>
      BY <1>10 DEF Once, ListenStat, ListenDial, ListenRemove, ListenBind, ListenListen, ListenChmod,
                  ListenAbandon, ServeShutdown, ServeRemove
    <2>4. d[i].pc \in AfterOpen /\ d[i].pc \notin BeforeAudit /\ "off" \in Pcs
      BY <2>1 DEF AfterOpen, BeforeAudit, Pcs, Window
    <2>. QED
      BY <2>2, <2>3, <2>4, EffectMove
  <1>11. CASE Crash(i)
    BY <1>11, EffectMove DEF Crash, Pcs
  <1>. QED
    BY <1>4, <1>5, <1>6, <1>7, <1>8, <1>9, <1>10, <1>11 DEF DaemonStep

\* Types, handles and accounts hold after every step of a daemon.
LEMMA DaemonKeeps ==
    ASSUME ServiceInv, NEW i \in Daemons, DaemonStep(i)
    PROVE  ServiceType' /\ HandleOK' /\ RecoveryAudited'
  <1>1. ServiceType /\ HandleOK /\ RecoveryAudited
    BY DEF ServiceInv
  <1>2. \A j \in Daemons : j # i => d'[j] = d[j]
    BY <1>1, OnlyOne
  <1>3. Effect(i) /\ FilesKept /\ AuditKept(i)
    BY DaemonEffect DEF Effect, AuditKept
  <1>4. ServiceType'
    <2>1. d' \in [Daemons -> DaemonType]
      <3>1. DOMAIN d' = Daemons /\ d' = [j \in Daemons |-> d'[j]]
        BY <1>1 DEF DaemonStep, Start, OpenRead, Migrate, Opened, MoveAside, AuditRecovery, Once,
             ListenStat, ListenDial, ListenRemove, ListenBind, ListenListen, ListenChmod, ListenAbandon,
             ServeShutdown, ServeRemove, Crash, Step, Goto, Exit, ServiceType
      <3>2. \A j \in Daemons : d'[j] \in DaemonType
        BY <1>1, <1>2, <1>3 DEF ServiceType, Effect
      <3>. QED
        BY <3>1, <3>2
    <2>. QED
      BY <1>3, <2>1 DEF ServiceType, Effect
  <1>5. HandleOK'
    <2>. SUFFICES ASSUME NEW j \in Daemons
                  PROVE  /\ d'[j].pc \in AfterOpen \cup {"migrate"} =>
                               /\ d'[j].file \in 1..Len(dbs') /\ d'[j].seen <= dbs'[d'[j].file].schema
                         /\ d'[j].pc \in AfterOpen => d'[j].seen = d'[j].build
                         /\ ~d'[j].retry => d'[j].moved = 0
      BY DEF HandleOK
    <2>1. CASE j = i
      BY <1>3, <2>1 DEF Effect
    <2>2. CASE j # i
      <3>1. d'[j] = d[j] /\ d[j] \in DaemonType
        BY <1>1, <1>2, <2>2 DEF ServiceType
      <3>2. /\ d[j].pc \in AfterOpen => d[j].seen = d[j].build
            /\ ~d[j].retry => d[j].moved = 0
        BY <1>1 DEF HandleOK
      <3>3. ASSUME d[j].pc \in AfterOpen \cup {"migrate"}
            PROVE  d[j].file \in 1..Len(dbs') /\ d[j].seen <= dbs'[d[j].file].schema
        <4>1. PICK f \in 1..Len(dbs) : f = d[j].file
          BY <1>1, <3>3 DEF HandleOK
        <4>2. d[j].seen <= dbs[f].schema /\ dbs[f].schema <= dbs'[f].schema /\ Len(dbs) <= Len(dbs')
          BY <1>1, <1>3, <3>3, <4>1 DEF HandleOK, FilesKept
        <4>3. Len(dbs) \in Nat /\ Len(dbs') \in Nat
          BY <1>1, <1>4 DEF ServiceType
        <4>4. dbs[f] \in DbType /\ dbs'[f] \in DbType
          BY <1>1, <1>4, <4>2, <4>3 DEF ServiceType
        <4>5. d[j].seen \in Int /\ dbs[f].schema \in Int /\ dbs'[f].schema \in Int
          BY <3>1, <4>4 DEF DbType, DaemonType
        <4>6. d[j].seen <= dbs'[f].schema
          BY <4>2, <4>5
        <4>7. f \in 1..Len(dbs')
          BY <4>1, <4>2, <4>3
        <4>. QED
          BY <4>1, <4>6, <4>7
      <3>. QED
        BY <3>1, <3>2, <3>3
    <2>. QED
      BY <2>1, <2>2
  <1>6. RecoveryAudited'
    <2>. SUFFICES ASSUME NEW f \in aside'
                  PROVE  \/ f \in lost'
                         \/ \E g \in 1..Len(dbs') : f \in dbs'[g].recovered
                         \/ \E j \in Daemons : d'[j].moved = f /\ d'[j].pc \in BeforeAudit
      BY DEF RecoveryAudited
    <2>1. CASE f \notin aside
      BY <1>3, <2>1 DEF AuditKept
    <2>2. CASE f \in aside
      <3>1. CASE f \in lost
        BY <1>3, <3>1 DEF AuditKept
      <3>2. ASSUME NEW g \in 1..Len(dbs), f \in dbs[g].recovered
            PROVE  \E h \in 1..Len(dbs') : f \in dbs'[h].recovered
        <4>1. Len(dbs) \in Nat /\ Len(dbs') \in Nat
          BY <1>1, <1>4 DEF ServiceType
        <4>. QED
          BY <1>3, <3>2, <4>1 DEF FilesKept
      <3>3. ASSUME NEW j \in Daemons, d[j].moved = f, d[j].pc \in BeforeAudit
            PROVE  \/ f \in lost'
                   \/ \E g \in 1..Len(dbs') : f \in dbs'[g].recovered
                   \/ \E k \in Daemons : d'[k].moved = f /\ d'[k].pc \in BeforeAudit
        <4>1. CASE j # i
          BY <1>2, <3>3, <4>1
        <4>2. CASE j = i
          <5>1. f # 0
            BY <1>1, <2>2 DEF ServiceType
          <5>. QED
            BY <1>3, <3>3, <4>2, <5>1 DEF AuditKept
        <4>. QED
          BY <4>1, <4>2
      <3>. QED
        BY <1>1, <2>2, <3>1, <3>2, <3>3 DEF RecoveryAudited
    <2>. QED
      BY <2>1, <2>2
  <1>. QED
    BY <1>4, <1>5, <1>6

\* Where a daemon is before it looks at the socket path.
Outside == {"off", "open", "migrate", "unusable", "audit", "stat"}

\* What a step of a daemon is to the socket.
Quiet(i) == UNCHANGED <<sock, history>> /\ d'[i].pc \in Outside
SocketStep(i) ==
    \/ Quiet(i)
    \/ /\ d[i].pc = "stat" /\ d'[i].pc = (IF sock = NoDaemon THEN "bind" ELSE "dial")
       /\ overlapped' = (overlapped \/ Overlaps(i)) /\ UNCHANGED <<sock, doubted>>
    \/ /\ d[i].pc = "dial" /\ d'[i].pc = "remove" /\ doubted' = TRUE /\ sock' = sock
       /\ (overlapped => overlapped') /\ (overlapped' \/ ~Answering(sock))
    \/ d[i].pc = "remove" /\ d'[i].pc = "bind" /\ sock' = NoDaemon /\ UNCHANGED history
    \/ d[i].pc = "bind" /\ d'[i].pc = "listen" /\ sock = NoDaemon /\ sock' = i /\ UNCHANGED history
    \/ d[i].pc = "listen" /\ d'[i].pc = "chmod" /\ UNCHANGED <<sock, history>>
    \/ /\ d[i].pc = "chmod" /\ d'[i].pc = (IF sock = NoDaemon THEN "abandon" ELSE "serve")
       /\ UNCHANGED <<sock, history>>
    \/ d[i].pc \in {"abandon", "closing"} /\ d'[i].pc = "off" /\ sock' = NoDaemon /\ UNCHANGED history
    \/ /\ d[i].pc = "serve" /\ d'[i].pc = "closing" /\ sock' = NoDaemon
       /\ doubted' = TRUE /\ overlapped' = (overlapped \/ Overlaps(i))

\* Every step of a daemon is one of these.
LEMMA DaemonSocketStep ==
    ASSUME ServiceInv, NEW i \in Daemons, DaemonStep(i)
    PROVE  SocketStep(i)
  <1>1. ServiceType /\ d[i] \in DaemonType
    BY DEF ServiceInv, ServiceType
  <1>2. Idle.pc = "off" /\ \A b \in Builds : [Idle EXCEPT !.pc = "open", !.build = b].pc = "open"
    BY DEF Idle
  <1>3. \A q : [d[i] EXCEPT !.pc = q].pc = q
    BY <1>1 DEF DaemonType
  <1>4. \A r : d' = [d EXCEPT ![i] = r] => d'[i] = r
    BY <1>1 DEF ServiceType
  <1>5. CASE Start(i) \/ MoveAside(i) \/ Once(i) \/ Crash(i)
    <2>1. [d[i] EXCEPT !.pc = "open", !.retry = TRUE, !.moved = path].pc = "open"
      BY <1>1 DEF DaemonType
    <2>2. \/ d' = [d EXCEPT ![i] = Idle]
          \/ \E b \in Builds : d' = [d EXCEPT ![i] = [Idle EXCEPT !.pc = "open", !.build = b]]
          \/ d' = [d EXCEPT ![i] = [d[i] EXCEPT !.pc = "open", !.retry = TRUE, !.moved = path]]
      BY <1>5 DEF Start, MoveAside, Once, Crash, Exit, Step
    <2>3. UNCHANGED <<sock, history>>
      BY <1>5 DEF Start, MoveAside, Once, Crash, Exit, Step, history
    <2>4. d'[i].pc \in Outside
      BY <1>2, <1>4, <2>1, <2>2 DEF Outside
    <2>. QED
      BY <2>3, <2>4 DEF SocketStep, Quiet
  <1>6. CASE OpenRead(i) \/ Migrate(i)
    BY <1>6, OpenReadEffect, MigrateEffect DEF SocketStep, Quiet, Outside
  <1>7. CASE Opened(i) \/ \E ok \in BOOLEAN : AuditRecovery(i, ok)
    <2>1. d'[i].pc \in {"stat", "audit"} /\ UNCHANGED <<sock, history>>
      BY <1>3, <1>4, <1>7 DEF Opened, AuditRecovery, Goto, Step
    <2>. QED
      BY <2>1 DEF SocketStep, Quiet, Outside
  <1>8. CASE ListenStat(i)
    BY <1>3, <1>4, <1>8 DEF ListenStat, Goto, Step, SocketStep
  <1>9. ASSUME NEW late \in BOOLEAN, ListenDial(i, late) PROVE SocketStep(i)
    <2>1. CASE Answering(sock) /\ ~late
      BY <1>2, <1>4, <1>9, <2>1 DEF ListenDial, Exit, Step, SocketStep, Quiet, Outside, history
    <2>2. CASE ~(Answering(sock) /\ ~late)
      BY <1>3, <1>4, <1>9, <2>2 DEF ListenDial, Goto, Step, SocketStep
    <2>. QED
      BY <2>1, <2>2
  <1>10. CASE ListenRemove(i)
    BY <1>2, <1>3, <1>4, <1>10 DEF ListenRemove, Exit, Goto, Step, SocketStep, Quiet, Outside
  <1>11. CASE ListenBind(i)
    BY <1>2, <1>3, <1>4, <1>11 DEF ListenBind, Exit, Goto, Step, SocketStep, Quiet, Outside
  <1>12. CASE ListenListen(i) \/ ListenChmod(i)
    BY <1>3, <1>4, <1>12 DEF ListenListen, ListenChmod, Goto, Step, SocketStep
  <1>13. CASE ListenAbandon(i) \/ ServeRemove(i)
    BY <1>2, <1>4, <1>13 DEF ListenAbandon, ServeRemove, Exit, Step, SocketStep
  <1>14. CASE ServeShutdown(i)
    BY <1>3, <1>4, <1>14 DEF ServeShutdown, Goto, Step, SocketStep
  <1>. QED
    BY <1>5, <1>6, <1>7, <1>8, <1>9, <1>10, <1>11, <1>12, <1>13, <1>14 DEF DaemonStep

\* The socket after a step of a daemon.
LEMMA DaemonSocket ==
    ASSUME ServiceInv, NEW i \in Daemons, DaemonStep(i)
    PROVE  SocketOK'
  <1>1. SocketOK /\ SocketStep(i) /\ NoDaemon \notin Daemons
    BY DaemonSocketStep, ServiceAssumption DEF ServiceInv
  <1>2. \A j \in Daemons : j # i => d'[j] = d[j]
    BY OnlyOne DEF ServiceInv
  <1>3. ASSUME ~doubted'
        PROVE  \A j \in Daemons : /\ d'[j].pc \in {"listen", "chmod", "serve"} => sock' = j
                                  /\ d'[j].pc \notin {"remove", "abandon", "closing"}
    <2>1. ~doubted
      BY <1>1, <1>3 DEF SocketStep, Quiet, history
    <2>2. \A j \in Daemons : /\ d[j].pc \in {"listen", "chmod", "serve"} => sock = j
                             /\ d[j].pc \notin {"remove", "abandon", "closing"}
      BY <1>1, <2>1 DEF SocketOK, UndoubtedOK
    <2>. QED
      BY <1>1, <1>2, <1>3, <2>2 DEF SocketStep, Quiet, Outside
  <1>4. ASSUME ~overlapped'
        PROVE  \A j \in Daemons :
                  /\ d'[j].pc \in Window => \A k \in Daemons : k # j => d'[k].pc \notin Window
                  /\ d'[j].pc \in {"listen", "chmod", "serve"} => sock' = j
                  /\ d'[j].pc \in {"bind", "closing"} => sock' = NoDaemon
                  /\ d'[j].pc = "remove" => \A k \in Daemons : d'[k].pc # "serve"
                  /\ d'[j].pc # "abandon"
    <2>1. ~overlapped
      BY <1>1, <1>4 DEF SocketStep, Quiet, history
    <2>2. \A j \in Daemons :
             /\ d[j].pc \in Window => \A k \in Daemons : k # j => d[k].pc \notin Window
             /\ d[j].pc \in {"listen", "chmod", "serve"} => sock = j
             /\ d[j].pc \in {"bind", "closing"} => sock = NoDaemon
             /\ d[j].pc = "remove" => \A k \in Daemons : d[k].pc # "serve"
             /\ d[j].pc # "abandon"
      BY <1>1, <2>1 DEF SocketOK, ApartOK
    <2>3. d'[i].pc \in Window => \A k \in Daemons : k # i => d[k].pc \notin Window
      BY <1>1, <1>4, <2>2 DEF SocketStep, Quiet, Outside, Window, Overlaps
    <2>4. \A j \in Daemons : d'[j].pc \in Window => \A k \in Daemons : k # j => d'[k].pc \notin Window
      BY <1>2, <2>2, <2>3
    <2>5. CASE Quiet(i)
      BY <1>2, <2>2, <2>4, <2>5 DEF Quiet, Outside
    <2>6. CASE /\ d[i].pc = "dial" /\ d'[i].pc = "remove" /\ sock' = sock
               /\ overlapped' \/ ~Answering(sock)
      <3>1. \A k \in Daemons : d[k].pc # "serve"
        BY <1>4, <2>1, <2>2, <2>6 DEF Answering
      <3>. QED
        BY <1>2, <2>2, <2>4, <2>6, <3>1
    <2>7. CASE \/ d[i].pc = "stat" /\ d'[i].pc = (IF sock = NoDaemon THEN "bind" ELSE "dial") /\ sock' = sock
               \/ d[i].pc = "listen" /\ d'[i].pc = "chmod" /\ sock' = sock
               \/ d[i].pc = "chmod" /\ d'[i].pc = (IF sock = NoDaemon THEN "abandon" ELSE "serve") /\ sock' = sock
      <3>1. d[i].pc = "chmod" => \A k \in Daemons : k # i => d[k].pc # "remove"
        BY <2>2 DEF Window
      <3>. QED
        BY <1>1, <1>2, <2>2, <2>4, <2>7, <3>1
    <2>8. CASE d[i].pc = "bind" /\ d'[i].pc = "listen" /\ sock = NoDaemon /\ sock' = i
      <3>1. \A k \in Daemons : k # i => d[k].pc \notin Window \cup {"serve"}
        BY <1>1, <2>2, <2>8 DEF Window
      <3>. QED
        BY <1>2, <2>4, <2>8, <3>1 DEF Window
    <2>9. CASE \/ d[i].pc = "remove" /\ d'[i].pc = "bind" /\ sock' = NoDaemon
               \/ d[i].pc \in {"abandon", "closing"} /\ d'[i].pc = "off" /\ sock' = NoDaemon
               \/ d[i].pc = "serve" /\ d'[i].pc = "closing" /\ sock' = NoDaemon
      <3>1. \A k \in Daemons : k # i => d[k].pc # "serve"
        BY <1>1, <2>2, <2>9
      <3>2. \A k \in Daemons : k # i => d[k].pc \notin Window
        BY <1>1, <1>4, <2>2, <2>3, <2>9 DEF Window
      <3>. QED
        BY <1>2, <2>4, <2>9, <3>1, <3>2 DEF Window
    <2>. QED
      BY <1>1, <2>5, <2>6, <2>7, <2>8, <2>9 DEF SocketStep
  <1>. QED
    BY <1>3, <1>4 DEF SocketOK, UndoubtedOK, ApartOK

\* Damage to the file touches neither its schema version nor its audit trail.
LEMMA DamageKeeps ==
    ASSUME ServiceInv, Damage
    PROVE  ServiceInv'
  <1>1. ServiceType /\ HandleOK /\ RecoveryAudited /\ SocketOK
    BY DEF ServiceInv
  <1>2. path \in 1..Len(dbs) /\ UNCHANGED <<path, aside, sock, d, history, lost>>
    BY <1>1 DEF Damage, ServiceType
  <1>3. dbs' = [dbs EXCEPT ![path] = [dbs[path] EXCEPT !.readable = FALSE]] /\ dbs[path] \in DbType
    BY <1>1, <1>2 DEF Damage, ServiceType
  <1>. DEFINE r == [dbs[path] EXCEPT !.readable = FALSE]
  <1>4. r \in DbType /\ r.schema = dbs[path].schema /\ r.recovered = dbs[path].recovered
    BY <1>3 DEF DbType
  <1>. HIDE DEF r
  <1>5. /\ dbs' \in Seq(DbType) /\ Len(dbs') = Len(dbs) /\ dbs'[path] = r
        /\ \A g \in 1..Len(dbs) : g # path => dbs'[g] = dbs[g]
    BY <1>1, <1>2, <1>3, <1>4, FileWritten DEF ServiceType, r
  <1>6. \A g \in 1..Len(dbs) : dbs'[g].schema = dbs[g].schema /\ dbs'[g].recovered = dbs[g].recovered
    BY <1>4, <1>5
  <1>7. ServiceType'
    BY <1>1, <1>2, <1>5 DEF ServiceType
  <1>8. HandleOK'
    BY <1>1, <1>2, <1>5, <1>6 DEF HandleOK
  <1>9. RecoveryAudited'
    BY <1>1, <1>2, <1>5, <1>6 DEF RecoveryAudited
  <1>10. SocketOK'
    BY <1>1, <1>2 DEF SocketOK, UndoubtedOK, ApartOK, history
  <1>. QED
    BY <1>7, <1>8, <1>9, <1>10 DEF ServiceInv

\* The four facts hold together in every reachable state of the service.
THEOREM ServiceInvCorrect == ServiceSpec => []ServiceInv
  <1>1. ServiceInv /\ UNCHANGED serviceVars => ServiceInv'
    BY DEF ServiceInv, ServiceType, HandleOK, RecoveryAudited, SocketOK, UndoubtedOK, ApartOK, serviceVars
  <1>2. ServiceInv /\ ServiceNext => ServiceInv'
    <2>. SUFFICES ASSUME ServiceInv, ServiceNext PROVE ServiceInv'
      OBVIOUS
    <2>1. Damage \/ \E i \in Daemons : DaemonStep(i)
      BY DEF ServiceNext, DaemonStep
    <2>. QED
      BY <2>1, DamageKeeps, DaemonKeeps, DaemonSocket DEF ServiceInv
  <1>. QED
    BY <1>1, <1>2, ServiceInvInit, PTL DEF ServiceSpec

\* Whatever other builds migrate, replace or damage meanwhile, a daemon past
\* Open works on a database that has every migration of its build (store.go:
\* Open, migrate), for any number of daemons and builds.
THEOREM MigratedCorrect == ServiceSpec => []OpenedIsMigrated
  <1>1. ServiceInv => OpenedIsMigrated
    <2>. SUFFICES ASSUME ServiceInv, NEW i \in Daemons,
                         d[i].pc \in {"audit", "stat", "serve"} \cup Window
                  PROVE  dbs[d[i].file].schema >= d[i].build
      BY DEF OpenedIsMigrated
    <2>1. d[i].pc \in AfterOpen
      BY DEF AfterOpen
    <2>2. /\ d[i].file \in 1..Len(dbs) /\ d[i].seen <= dbs[d[i].file].schema /\ d[i].seen = d[i].build
          /\ d[i] \in DaemonType /\ dbs \in Seq(DbType)
      BY <2>1 DEF ServiceInv, HandleOK, ServiceType
    <2>3. dbs[d[i].file] \in DbType
      BY <2>2
    <2>. QED
      BY <2>2, <2>3 DEF DbType, DaemonType
  <1>. QED
    BY <1>1, ServiceInvCorrect, PTL

\* A database that was moved aside is accounted for by an audit entry, or the
\* daemon that moved it is still on its way or was lost on it (store.go: Open;
\* cmdDaemon).
THEOREM RecoveryCorrect == ServiceSpec => []RecoveryAudited
  <1>1. ServiceInv => RecoveryAudited
    BY DEF ServiceInv
  <1>. QED
    BY <1>1, ServiceInvCorrect, PTL

\* Two daemons serve at once only when a socket was up for removal and two
\* starts or stops overlapped, or a live daemon's dial failed (server.go: Listen,
\* Serve), for any number of daemons, starts, stops and kills.
THEOREM ExclusiveCorrect == ServiceSpec => []ExclusiveStarts
  <1>1. ServiceInv => ExclusiveStarts
    <2>. SUFFICES ASSUME ServiceInv, ~doubted \/ ~overlapped
                  PROVE  Cardinality(Serving) <= 1
      BY DEF ExclusiveStarts
    <2>1. \A i \in Daemons : d[i].pc = "serve" => sock = i
      BY DEF ServiceInv, SocketOK, UndoubtedOK, ApartOK
    <2>2. Serving \in SUBSET {sock}
      BY <2>1 DEF Serving
    <2>3. IsFiniteSet({sock}) /\ Cardinality({sock}) = 1
      BY FS_Singleton
    <2>. QED
      BY <2>2, <2>3, FS_Subset
  <1>. QED
    BY <1>1, ServiceInvCorrect, PTL

(***************************************************************************)
(* The bounded log.                                                        *)
(***************************************************************************)

\* A set of naturals that is not empty has a least element.
LEMMA MinInSet ==
    ASSUME NEW S \in SUBSET Nat, S # {}
    PROVE  Min(S) \in S /\ \A y \in S : Min(S) <= y
  <1>1. IsWellFoundedOn(OpToRel(<, Nat), Nat)
    BY NatLessThanWellFounded
  <1>2. PICK x \in S : \A y \in S : ~(<<y, x>> \in OpToRel(<, Nat))
    BY <1>1, WFMin
  <1>3. \A y \in S : y < x => <<y, x>> \in OpToRel(<, Nat)
    BY DEF OpToRel
  <1>4. \A y \in S : ~(y < x)
    BY <1>2, <1>3, Zenon
  <1>5. \A y \in S : x =< y
    BY <1>4
  <1>. QED
    BY <1>5 DEF Min

\* Bytes(a, b): its length and its elements.
LEMMA BytesRead ==
    ASSUME NEW a \in Nat, NEW b \in Nat, a <= b + 1
    PROVE  /\ Bytes(a, b) \in Seq(Nat) /\ Len(Bytes(a, b)) = b + 1 - a
           /\ \A k \in 1..(b + 1 - a) : Bytes(a, b)[k] = a + k - 1
  <1>1. b + 1 - a \in Nat
    OBVIOUS
  <1>2. \A k \in 1..(b + 1 - a) : a + k - 1 \in Nat
    OBVIOUS
  <1>. QED
    BY <1>1, <1>2 DEF Bytes

\* What readTail keeps is the end of the file, no more than it was asked for, and
\* it starts after a newline unless the part it read holds none.
LEMMA TailRead ==
    ASSUME outFile \in Seq(Nat), NEW keep \in Nat
    PROVE  \E a \in 0..Len(outFile) :
              /\ ReadTail(keep) = SubSeq(outFile, a + 1, Len(outFile))
              /\ Len(outFile) - a <= keep
              /\ \/ a > 0 /\ outFile[a] \in lineEnds
                 \/ /\ \A k \in (a + 1)..Len(outFile) : outFile[k] \notin lineEnds
                    /\ a = 0 \/ Len(outFile) - a = keep
  <1>. DEFINE n == Len(outFile)
              m == IF keep > Len(outFile) THEN Len(outFile) ELSE keep
              kept == SubSeq(outFile, Len(outFile) + 1 - m, Len(outFile))
              ends == {k \in 1..Len(kept) : kept[k] \in lineEnds}
  <1>1. n \in Nat /\ m \in 0..n /\ m <= keep /\ (m = n \/ m = keep)
    OBVIOUS
  <1>2. ReadTail(keep) = IF ends = {} THEN kept ELSE SubSeq(kept, Min(ends) + 1, Len(kept))
    BY DEF ReadTail
  <1>3. /\ kept \in Seq(Nat) /\ Len(kept) = m
        /\ \A k \in 1..m : kept[k] = outFile[n - m + k]
    <2>1. n + 1 - m \in Int /\ n \in Int /\ \A k \in (n + 1 - m)..n : outFile[k] \in Nat
      BY <1>1
    <2>. HIDE DEF m
    <2>2. /\ kept \in Seq(Nat) /\ Len(kept) = (IF n + 1 - m <= n THEN n - (n + 1 - m) + 1 ELSE 0)
          /\ \A k \in 1..(n - (n + 1 - m) + 1) : kept[k] = outFile[(n + 1 - m) + k - 1]
      BY <2>1, SubSeqProperties
    <2>. HIDE DEF kept, n
    <2>3. m \in Nat /\ n - (n + 1 - m) + 1 = m /\ (n + 1 - m <= n \/ m = 0)
      BY <1>1
    <2>4. Len(kept) = m
      BY <1>1, <2>2, <2>3
    <2>5. ASSUME NEW k \in 1..m PROVE kept[k] = outFile[n - m + k]
      <3>1. (n + 1 - m) + k - 1 = n - m + k
        BY <1>1, <2>3
      <3>. QED
        BY <2>2, <2>3, <3>1
    <2>. QED
      BY <2>2, <2>4, <2>5
  <1>. HIDE DEF m
  <1>4. CASE ends = {}
    <2>1. PICK a \in 0..n : a = n - m /\ a + 1 = n + 1 - m
      <3>1. n - m \in 0..n /\ (n - m) + 1 = n + 1 - m
        BY <1>1
      <3>. QED
        BY <3>1
    <2>2. ReadTail(keep) = SubSeq(outFile, a + 1, n)
      <3>1. kept = SubSeq(outFile, a + 1, n)
        BY <2>1
      <3>. HIDE DEF kept, n, ends
      <3>. QED
        BY <1>2, <1>4, <3>1
    <2>3. \A k \in (a + 1)..n : outFile[k] \notin lineEnds
      <3>. SUFFICES ASSUME NEW k \in (a + 1)..n PROVE outFile[k] \notin lineEnds
        OBVIOUS
      <3>1. k - a \in 1..m /\ n - m + (k - a) = k
        BY <1>1, <2>1
      <3>2. kept[k - a] \notin lineEnds
        BY <1>3, <1>4, <3>1
      <3>. QED
        BY <1>3, <3>1, <3>2
    <2>4. n - a <= keep /\ (a = 0 \/ n - a = keep)
      BY <1>1, <2>1
    <2>. QED
      BY <2>2, <2>3, <2>4
  <1>5. CASE ends # {}
    <2>1. PICK e \in 1..m : e = Min(ends) /\ kept[e] \in lineEnds
      <3>1. ends \in SUBSET Nat
        BY <1>3
      <3>. HIDE DEF ends
      <3>2. Min(ends) \in ends
        BY <1>5, <3>1, MinInSet
      <3>. QED
        BY <1>3, <3>2 DEF ends
    <2>. DEFINE a == n - m + e
    <2>2. a \in 0..n /\ a > 0 /\ n - a <= keep
      BY <1>1
    <2>3. outFile[a] \in lineEnds
      BY <1>3, <2>1
    <2>4. SubSeq(kept, e + 1, m) = SubSeq(outFile, a + 1, n)
      <3>1. /\ SubSeq(kept, e + 1, m) \in Seq(Nat)
            /\ Len(SubSeq(kept, e + 1, m)) = (IF e + 1 <= m THEN m - (e + 1) + 1 ELSE 0)
            /\ \A k \in 1..(m - (e + 1) + 1) : SubSeq(kept, e + 1, m)[k] = kept[(e + 1) + k - 1]
        <4>. HIDE DEF kept
        <4>1. \A k \in (e + 1)..m : kept[k] \in Nat
          BY <1>1, <1>3
        <4>. QED
          BY <1>1, <4>1, SubSeqProperties
      <3>2. /\ SubSeq(outFile, a + 1, n) \in Seq(Nat)
            /\ Len(SubSeq(outFile, a + 1, n)) = (IF a + 1 <= n THEN n - (a + 1) + 1 ELSE 0)
            /\ \A k \in 1..(n - (a + 1) + 1) : SubSeq(outFile, a + 1, n)[k] = outFile[(a + 1) + k - 1]
        <4>1. \A k \in (a + 1)..n : outFile[k] \in Nat
          BY <1>1
        <4>2. a \in Int /\ n \in Int
          BY <1>1
        <4>. HIDE DEF a, n
        <4>. QED
          BY <4>1, <4>2, SubSeqProperties
      <3>3. n - (a + 1) + 1 = m - e /\ m - (e + 1) + 1 = m - e /\ m - e \in Nat
        BY <1>1
      <3>4. \A k \in 1..(m - e) : kept[(e + 1) + k - 1] = outFile[(a + 1) + k - 1]
        <4>. SUFFICES ASSUME NEW k \in 1..(m - e) PROVE kept[(e + 1) + k - 1] = outFile[(a + 1) + k - 1]
          OBVIOUS
        <4>1. (e + 1) + k - 1 \in 1..m /\ n - m + ((e + 1) + k - 1) = (a + 1) + k - 1
          BY <1>1
        <4>. QED
          BY <1>3, <4>1
      <3>5. Len(SubSeq(kept, e + 1, m)) = m - e /\ Len(SubSeq(outFile, a + 1, n)) = m - e
        BY <1>1, <3>1, <3>2, <3>3
      <3>. DEFINE s == SubSeq(kept, e + 1, m)
                  t == SubSeq(outFile, a + 1, n)
      <3>6. s \in Seq(Nat) /\ t \in Seq(Nat) /\ Len(s) = Len(t)
        BY <3>1, <3>2, <3>5
      <3>7. \A k \in 1..Len(s) : s[k] = t[k]
        BY <3>1, <3>2, <3>3, <3>4, <3>5
      <3>. HIDE DEF s, t
      <3>8. s = t
        BY <3>6, <3>7, SeqEqual
      <3>. QED
        BY <3>8 DEF s, t
    <2>5. ReadTail(keep) = SubSeq(outFile, a + 1, n)
      BY <1>2, <1>3, <1>5, <2>1, <2>4
    <2>. QED
      BY <2>2, <2>3, <2>5
  <1>. QED
    BY <1>4, <1>5

Ats == {"closed", "opening", "bound", "truncate", "write", "error log", "empty", "open"}
WriterType == [at : Ats, todo : Seq(Nat), opening : BOOLEAN]

\* The types of the log's state; newlines are bytes that were logged.
LogType ==
    /\ outFile \in Seq(Nat) /\ writer \in WriterType /\ stream \in Nat
    /\ lineEnds \subseteq 1..stream

\* f followed by t is in the order of the stream, whose last byte is e.
Rising(f, t, e) ==
    /\ \A j, k \in 1..Len(f) : j < k => f[j] < f[k]
    /\ \A j, k \in 1..Len(t) : j < k => t[j] < t[k]
    /\ \A j \in 1..Len(f), k \in 1..Len(t) : f[j] < t[k]
    /\ \A j \in 1..Len(f) : f[j] <= e
    /\ \A k \in 1..Len(t) : t[k] <= e

\* Where n kept bytes may begin after byte k, with newlines L.
Cut(k, n, L) == k = 0 \/ k \in L \/ n = LogLimit \/ (n = 0 /\ LogLimit = 1)

\* f followed by t is the newest part of the stream without a gap.
HoldsNewest(f, t, e, L) ==
    /\ Len(f) + Len(t) <= e
    /\ \A k \in 1..Len(f) : f[k] = e - Len(t) - Len(f) + k
    /\ \A k \in 1..Len(t) : t[k] = e - Len(t) + k
    /\ Cut(e - Len(f) - Len(t), Len(f) + Len(t), L)

\* The last byte of the stream is a newline, or the one an earlier build left
\* half a line with.
EndOK(e, L) == e \in {0, 1} \/ e \in L \/ e - 1 \in L

\* What the file holds once the truncation that is due has happened.
Base == IF writer.at = "truncate" THEN <<>> ELSE outFile

\* What holds of the file the writer works on.
LogCore ==
    /\ LogType /\ EndOK(stream, lineEnds)
    /\ writer.at \notin {"truncate", "write"} => writer.todo = <<>>
    /\ writer.at = "truncate" => /\ Len(writer.todo) <= LogLimit
                                 /\ writer.opening \/ Len(outFile) <= LogLimit
    /\ LogBounded
    /\ Rising(outFile, <<>>, stream) /\ Rising(Base, writer.todo, stream)
    /\ ~disturbed => /\ HoldsNewest(Base, writer.todo, stream, lineEnds)
                     /\ writer.todo = <<>> => HoldsNewest(outFile, <<>>, stream, lineEnds)

FileType == [bytes : Seq(Nat), safe : BOOLEAN]

\* Every file there is holds bytes in the order of the stream, so that whichever
\* of them the next daemon finds under the name can be logged to.
FilesOK ==
    /\ files \in Seq(FileType) /\ outFd \in 1..Len(files)
    /\ errFd \in 0..Len(files) /\ outName \in 0..Len(files) /\ errName \in 0..Len(files)
    /\ \A f \in 1..Len(files) : Rising(files[f].bytes, <<>>, stream)

\* The writer is about to change only a file the operation found.
TrustOK ==
    /\ writer.at \in {"truncate", "write"} => outFd \in trusted
    /\ writer.at = "empty" => errFd \in trusted /\ errFd # 0

LogInv == LogCore /\ FilesOK /\ TrustOK

\* The output file as long as its descriptor is open on the same one and no file's
\* bytes change.
LEMMA OutSame ==
    ASSUME files' = files, outFd' = outFd
    PROVE  outFile' = outFile
  BY DEF outFile

\* What the bytes of one file are set to.
LEMMA FillEffect ==
    ASSUME FilesOK, NEW f \in 1..Len(files), NEW b \in Seq(Nat), Fill(f, b)
    PROVE  /\ files' \in Seq(FileType) /\ Len(files') = Len(files) /\ files'[f].bytes = b
           /\ \A g \in 1..Len(files) : g # f => files'[g] = files[g]
  <1>1. files \in Seq(FileType) /\ files[f] \in FileType
    BY DEF FilesOK
  <1>. DEFINE r == [files[f] EXCEPT !.bytes = b]
  <1>2. r \in FileType /\ r.bytes = b
    BY <1>1 DEF FileType
  <1>3. files' = [files EXCEPT ![f] = r]
    BY DEF Fill
  <1>. HIDE DEF r
  <1>. QED
    BY <1>1, <1>2, <1>3

\* A new file leaves the others as they are.
LEMMA AppendEffect ==
    ASSUME FilesOK, NEW r \in FileType, files' = Append(files, r)
    PROVE  /\ files' \in Seq(FileType) /\ Len(files') = Len(files) + 1 /\ files'[Len(files) + 1] = r
           /\ \A g \in 1..Len(files) : files'[g] = files[g]
  <1>1. files \in Seq(FileType)
    BY DEF FilesOK
  <1>. QED
    BY <1>1

\* Bytes in the order of a stream are so in a longer one.
LEMMA RisingGrows ==
    ASSUME NEW b \in Seq(Nat), NEW e \in Nat, NEW n \in Nat, Rising(b, <<>>, e)
    PROVE  Rising(b, <<>>, e + n)
  <1>1. \A j \in 1..Len(b) : b[j] \in Nat /\ b[j] <= e
    BY DEF Rising
  <1>2. \A j \in 1..Len(b) : b[j] <= e + n
    BY <1>1
  <1>3. Len(<<>>) = 0
    OBVIOUS
  <1>. QED
    BY <1>2, <1>3 DEF Rising

\* The room a record smaller than the bound leaves.
LEMMA KeepRoom ==
    ASSUME NEW n \in Nat, n < LogLimit
    PROVE  Keep(n) \in Nat /\ Keep(n) <= LogLimit - n /\ (Keep(n) = 0 => LogLimit = 1)
  <1>1. LogLimit \in Nat
    BY ServiceLogAssumption
  <1>2. PICK q \in Nat : q = (LogLimit * 3) \div 4 /\ 4 * q <= 3 * LogLimit /\ 3 * LogLimit < 4 * q + 4
    BY <1>1
  <1>3. PICK r \in Nat : r = LogLimit - n /\ r > 0
    BY <1>1
  <1>4. Keep(n) = Min({q, r})
    BY <1>2, <1>3 DEF Keep
  <1>5. Keep(n) \in {q, r} /\ Keep(n) <= q /\ Keep(n) <= r
    BY <1>4, MinInSet
  <1>. QED
    BY <1>1, <1>2, <1>3, <1>5

\* What enforceBound plans for a record of n bytes: it fits the bound, it is in
\* order, and it is the newest part of the stream if the file was.
LEMMA PlanSound ==
    ASSUME LogType, EndOK(stream, lineEnds), Rising(outFile, <<>>, stream), NEW n \in Nat,
           NEW L, lineEnds \subseteq L,
           NEW p, p = Bytes(stream + 1, stream + n)
    PROVE  /\ Plan(p).todo \in Seq(Nat)
           /\ n > 0 => Plan(p).todo # <<>>
           /\ Plan(p).truncate =>
                 /\ Len(Plan(p).todo) <= LogLimit
                 /\ Rising(<<>>, Plan(p).todo, stream + n)
                 /\ HoldsNewest(outFile, <<>>, stream, lineEnds) => HoldsNewest(<<>>, Plan(p).todo, stream + n, L)
           /\ ~Plan(p).truncate =>
                 /\ Len(outFile) + Len(Plan(p).todo) <= LogLimit
                 /\ Rising(outFile, Plan(p).todo, stream + n)
                 /\ HoldsNewest(outFile, <<>>, stream, lineEnds) => HoldsNewest(outFile, Plan(p).todo, stream + n, L)
  <1>1. /\ outFile \in Seq(Nat) /\ stream \in Nat /\ Len(outFile) \in Nat /\ LogLimit \in Nat /\ LogLimit > 0
        /\ \A k \in 1..Len(outFile) : outFile[k] \in Nat
    BY ServiceLogAssumption DEF LogType
  <1>2. p \in Seq(Nat) /\ Len(p) = n /\ \A k \in 1..n : p[k] = stream + k
    <2>1. /\ stream + 1 \in Nat /\ stream + n \in Nat /\ stream + 1 <= (stream + n) + 1
          /\ (stream + n) + 1 - (stream + 1) = n
      BY <1>1
    <2>2. /\ p \in Seq(Nat) /\ Len(p) = (stream + n) + 1 - (stream + 1)
          /\ \A k \in 1..((stream + n) + 1 - (stream + 1)) : p[k] = (stream + 1) + k - 1
      BY <2>1, BytesRead
    <2>. QED
      BY <1>1, <2>1, <2>2
  <1>3. \A j, k \in 1..Len(outFile) : j < k => outFile[j] < outFile[k]
    BY DEF Rising
  <1>4. \A k \in 1..Len(outFile) : outFile[k] <= stream
    BY DEF Rising
  <1>5. Len(<<>>) = 0
    OBVIOUS
  <1>6. CASE Len(outFile) + Len(p) <= LogLimit
    <2>1. Plan(p) = [truncate |-> FALSE, todo |-> p]
      BY <1>6 DEF Plan
    <2>2. Rising(outFile, p, stream + n)
      BY <1>1, <1>2, <1>3, <1>4 DEF Rising
    <2>3. ASSUME HoldsNewest(outFile, <<>>, stream, lineEnds) PROVE HoldsNewest(outFile, p, stream + n, L)
      <3>1. /\ Len(outFile) <= stream
            /\ \A k \in 1..Len(outFile) : outFile[k] = stream - Len(outFile) + k
            /\ Cut(stream - Len(outFile), Len(outFile), lineEnds)
        BY <1>1, <1>5, <2>3 DEF HoldsNewest
      <3>2. Cut(stream - Len(outFile), Len(outFile) + n, L)
        BY <1>1, <1>2, <1>6, <3>1 DEF Cut
      <3>3. (stream + n) - Len(outFile) - n = stream - Len(outFile)
        BY <1>1
      <3>4. /\ \A k \in 1..Len(outFile) : outFile[k] = (stream + n) - n - Len(outFile) + k
            /\ \A k \in 1..n : p[k] = (stream + n) - n + k
            /\ Len(outFile) + n <= stream + n
        BY <1>1, <1>2, <3>1
      <3>. QED
        BY <1>2, <3>2, <3>3, <3>4 DEF HoldsNewest
    <2>. QED
      BY <1>2, <1>6, <2>1, <2>2, <2>3
  <1>7. CASE ~(Len(outFile) + Len(p) <= LogLimit) /\ Len(p) >= LogLimit
    <2>. DEFINE t == SubSeq(p, n + 1 - LogLimit, n)
    <2>1. Plan(p) = [truncate |-> TRUE, todo |-> t]
      BY <1>2, <1>7 DEF Plan
    <2>2. t \in Seq(Nat) /\ Len(t) = LogLimit /\ \A k \in 1..LogLimit : t[k] = stream + n - LogLimit + k
      <3>1. \A k \in (n + 1 - LogLimit)..n : p[k] \in Nat
        BY <1>1, <1>2, <1>7
      <3>2. /\ t \in Seq(Nat) /\ Len(t) = (IF n + 1 - LogLimit <= n THEN n - (n + 1 - LogLimit) + 1 ELSE 0)
            /\ \A k \in 1..(n - (n + 1 - LogLimit) + 1) : t[k] = p[(n + 1 - LogLimit) + k - 1]
        BY <1>1, <3>1, SubSeqProperties
      <3>. QED
        BY <1>1, <1>2, <1>7, <3>2
    <2>. HIDE DEF t
    <2>3. Rising(<<>>, t, stream + n)
      BY <1>1, <1>5, <2>2 DEF Rising
    <2>4. HoldsNewest(<<>>, t, stream + n, L)
      BY <1>1, <1>2, <1>5, <1>7, <2>2 DEF HoldsNewest, Cut
    <2>. QED
      BY <1>1, <2>1, <2>2, <2>3, <2>4
  <1>8. CASE ~(Len(outFile) + Len(p) <= LogLimit) /\ Len(p) < LogLimit
    <2>1. Plan(p) = [truncate |-> TRUE, todo |-> ReadTail(Keep(n)) \o p]
      <3>1. ~(Len(p) >= LogLimit)
        BY <1>1, <1>2, <1>8
      <3>2. Plan(p) = [truncate |-> TRUE, todo |-> ReadTail(Keep(Len(p))) \o p]
        BY <1>8, <3>1 DEF Plan
      <3>. QED
        BY <1>2, <3>2, Zenon
    <2>2. Keep(n) \in Nat /\ Keep(n) <= LogLimit - n /\ (Keep(n) = 0 => LogLimit = 1)
      BY <1>2, <1>8, KeepRoom
    <2>3. PICK a \in 0..Len(outFile) :
             /\ ReadTail(Keep(n)) = SubSeq(outFile, a + 1, Len(outFile))
             /\ Len(outFile) - a <= Keep(n)
             /\ \/ a > 0 /\ outFile[a] \in lineEnds
                \/ /\ \A k \in (a + 1)..Len(outFile) : outFile[k] \notin lineEnds
                   /\ a = 0 \/ Len(outFile) - a = Keep(n)
      BY <1>1, <2>2, TailRead
    <2>4. PICK b \in Nat : b = Len(outFile) - a
      <3>1. Len(outFile) - a \in Nat
        BY <1>1
      <3>. QED
        BY <3>1
    <2>. DEFINE r == SubSeq(outFile, a + 1, Len(outFile))
                t == r \o p
    <2>5. r \in Seq(Nat) /\ Len(r) = b /\ \A k \in 1..b : r[k] = outFile[a + k]
      <3>1. \A k \in (a + 1)..Len(outFile) : outFile[k] \in Nat
        BY <1>1
      <3>2. /\ r \in Seq(Nat) /\ Len(r) = (IF a + 1 <= Len(outFile) THEN Len(outFile) - (a + 1) + 1 ELSE 0)
            /\ \A k \in 1..(Len(outFile) - (a + 1) + 1) : r[k] = outFile[(a + 1) + k - 1]
        BY <1>1, <3>1, SubSeqProperties
      <3>. QED
        BY <1>1, <2>4, <3>2
    <2>. HIDE DEF r
    <2>6. /\ t \in Seq(Nat) /\ Len(t) = b + n
          /\ \A k \in 1..(b + n) : t[k] = IF k <= b THEN outFile[a + k] ELSE stream + (k - b)
      <3>1. /\ t \in Seq(Nat) /\ Len(t) = b + n
            /\ \A k \in 1..(b + n) : t[k] = IF k <= b THEN r[k] ELSE p[k - b]
        <4>1. /\ t \in Seq(Nat) /\ Len(t) = Len(r) + Len(p)
              /\ \A k \in 1..(Len(r) + Len(p)) : t[k] = IF k <= Len(r) THEN r[k] ELSE p[k - Len(r)]
          BY <1>2, <2>5, ConcatProperties
        <4>. HIDE DEF t
        <4>2. Len(r) = b /\ Len(p) = n
          BY <1>2, <2>5
        <4>. QED
          BY <4>1, <4>2
      <3>2. \A k \in 1..(b + n) : IF k <= b THEN k \in 1..b ELSE k - b \in 1..n
        OBVIOUS
      <3>. QED
        BY <1>2, <2>5, <3>1, <3>2
    <2>7. Plan(p).truncate /\ Plan(p).todo = t
      <3>1. ReadTail(Keep(n)) = r
        BY <2>3 DEF r
      <3>2. Plan(p) = [truncate |-> TRUE, todo |-> t]
        BY <2>1, <3>1, Zenon
      <3>. QED
        BY <3>2
    <2>. HIDE DEF t
    <2>8. Len(t) <= LogLimit
      BY <1>1, <2>2, <2>3, <2>4, <2>6
    <2>9. Rising(<<>>, t, stream + n)
      <3>1. \A k \in 1..b : a + k \in 1..Len(outFile)
        BY <1>1, <2>4
      <3>2. \A k \in 1..(b + n) : t[k] <= stream + n
        <4>. SUFFICES ASSUME NEW k \in 1..(b + n) PROVE t[k] <= stream + n
          OBVIOUS
        <4>1. CASE k <= b
          <5>1. k \in 1..b /\ t[k] = outFile[a + k]
            BY <2>6, <4>1
          <5>2. a + k \in 1..Len(outFile)
            BY <3>1, <5>1
          <5>. QED
            BY <1>1, <1>4, <5>1, <5>2
        <4>2. CASE ~(k <= b)
          BY <1>1, <2>6, <4>2
        <4>. QED
          BY <4>1, <4>2
      <3>3. \A j, k \in 1..(b + n) : j < k => t[j] < t[k]
        <4>. SUFFICES ASSUME NEW j \in 1..(b + n), NEW k \in 1..(b + n), j < k PROVE t[j] < t[k]
          OBVIOUS
        <4>1. CASE k <= b
          <5>1. a + j \in 1..Len(outFile) /\ a + k \in 1..Len(outFile) /\ a + j < a + k
            BY <3>1, <4>1
          <5>2. t[j] = outFile[a + j] /\ t[k] = outFile[a + k]
            BY <2>6, <4>1
          <5>. QED
            BY <1>3, <5>1, <5>2
        <4>2. CASE j <= b /\ ~(k <= b)
          <5>1. a + j \in 1..Len(outFile)
            BY <3>1, <4>2
          <5>2. t[j] = outFile[a + j] /\ t[k] = stream + (k - b)
            BY <2>6, <4>2
          <5>. QED
            BY <1>1, <1>4, <4>2, <5>1, <5>2
        <4>3. CASE ~(j <= b) /\ ~(k <= b)
          BY <1>1, <2>6, <4>3
        <4>. QED
          BY <4>1, <4>2, <4>3
      <3>. QED
        BY <1>5, <2>6, <3>2, <3>3 DEF Rising
    <2>10. ASSUME HoldsNewest(outFile, <<>>, stream, lineEnds) PROVE HoldsNewest(<<>>, t, stream + n, L)
      <3>1. /\ Len(outFile) <= stream
            /\ \A k \in 1..Len(outFile) : outFile[k] = stream - Len(outFile) + k
        BY <1>1, <1>5, <2>10 DEF HoldsNewest
      <3>2. \A k \in 1..(b + n) : t[k] = (stream + n) - (b + n) + k
        <4>1. \A k \in 1..b : a + k \in 1..Len(outFile)
          BY <1>1, <2>4
        <4>. QED
          BY <1>1, <2>4, <2>6, <3>1, <4>1
      <3>3. Cut(stream - b, b + n, L)
        <4>1. CASE a > 0 /\ outFile[a] \in lineEnds
          <5>1. outFile[a] = stream - b
            BY <1>1, <2>4, <3>1, <4>1
          <5>. QED
            BY <4>1, <5>1 DEF Cut
        <4>2. CASE /\ \A k \in (a + 1)..Len(outFile) : outFile[k] \notin lineEnds
                   /\ a = 0 \/ b = Keep(n)
          <5>1. CASE b = 0
            BY <1>1, <1>2, <1>8, <2>2, <2>4, <4>2, <5>1 DEF Cut
          <5>2. CASE b = 1
            <6>1. outFile[Len(outFile)] = stream /\ stream \notin lineEnds /\ stream >= 1
              BY <1>1, <2>4, <3>1, <4>2, <5>2
            <6>. QED
              BY <1>1, <5>2, <6>1 DEF Cut, EndOK
          <5>3. CASE b >= 2
            <6>1. /\ outFile[Len(outFile)] = stream /\ outFile[Len(outFile)] \notin lineEnds
                  /\ outFile[Len(outFile) - 1] = stream - 1 /\ outFile[Len(outFile) - 1] \notin lineEnds
                  /\ stream >= 2
              <7>1. /\ Len(outFile) \in (a + 1)..Len(outFile) /\ Len(outFile) - 1 \in (a + 1)..Len(outFile)
                    /\ Len(outFile) \in 1..Len(outFile) /\ Len(outFile) - 1 \in 1..Len(outFile)
                BY <1>1, <2>4, <5>3
              <7>2. outFile[Len(outFile)] \notin lineEnds /\ outFile[Len(outFile) - 1] \notin lineEnds
                BY <4>2, <7>1
              <7>3. /\ outFile[Len(outFile)] = stream - Len(outFile) + Len(outFile)
                    /\ outFile[Len(outFile) - 1] = stream - Len(outFile) + (Len(outFile) - 1)
                BY <3>1, <7>1
              <7>4. /\ stream - Len(outFile) + Len(outFile) = stream
                    /\ stream - Len(outFile) + (Len(outFile) - 1) = stream - 1 /\ stream >= 2
                BY <1>1, <2>4, <3>1, <5>3
              <7>. QED
                BY <7>2, <7>3, <7>4
            <6>. QED
              BY <1>1, <6>1 DEF EndOK
          <5>. QED
            BY <5>1, <5>2, <5>3
        <4>. QED
          BY <2>3, <2>4, <4>1, <4>2
      <3>4. (stream + n) - 0 - (b + n) = stream - b /\ 0 + (b + n) = b + n /\ 0 + (b + n) <= stream + n
        BY <1>1, <2>4, <3>1
      <3>. QED
        BY <1>5, <2>6, <3>2, <3>3, <3>4 DEF HoldsNewest
    <2>11. n > 0 => t # <<>>
      BY <1>5, <2>6
    <2>. QED
      BY <2>6, <2>7, <2>8, <2>9, <2>10, <2>11
  <1>. QED
    BY <1>1, <1>2, <1>6, <1>7, <1>8

\* The parts of the invariant about what the file holds, for a step that leaves
\* the stream alone.
LEMMA LogStill ==
    ASSUME LogCore, UNCHANGED <<stream, lineEnds>>, outFile' \in Seq(Nat), writer' \in WriterType,
           writer'.at \notin {"truncate", "write"} => writer'.todo = <<>>,
           writer'.at = "truncate" => /\ Len(writer'.todo) <= LogLimit
                                      /\ writer'.opening \/ Len(outFile') <= LogLimit,
           LogBounded',
           Rising(outFile', <<>>, stream), Rising(Base', writer'.todo, stream),
           ~disturbed' => /\ HoldsNewest(Base', writer'.todo, stream, lineEnds)
                          /\ writer'.todo = <<>> => HoldsNewest(outFile', <<>>, stream, lineEnds)
    PROVE  LogCore'
  BY DEF LogCore, LogType

\* The writer moves on with nothing left to write.
LEMMA LogMove ==
    ASSUME LogCore, UNCHANGED <<stream, lineEnds, outFile>>, disturbed => disturbed', writer.at # "truncate",
           writer.todo = <<>>, NEW to \in Ats, to # "truncate", writer' = [writer EXCEPT !.at = to],
           writer.at \notin {"closed", "opening", "bound"}
    PROVE  LogCore'
  <1>1. /\ outFile \in Seq(Nat) /\ writer \in WriterType /\ LogBounded
        /\ Rising(outFile, <<>>, stream)
        /\ ~disturbed => HoldsNewest(outFile, <<>>, stream, lineEnds)
    BY DEF LogCore, LogType
  <1>2. writer' \in WriterType /\ writer'.at = to /\ writer'.todo = <<>>
    BY <1>1 DEF WriterType
  <1>3. Base' = outFile
    BY <1>2 DEF Base
  <1>4. LogBounded'
    BY <1>1, <1>2 DEF LogBounded, WriterType, Ats
  <1>. QED
    BY <1>1, <1>2, <1>3, <1>4, LogStill

\* The plan of a record is carried out from the next step on.
LEMMA LogApply ==
    ASSUME LogCore, writer.at \in {"bound", "open"}, NEW n \in Nat, NEW opening \in BOOLEAN,
           Apply(Bytes(stream + 1, stream + n), opening), opening \/ writer.at = "open",
           UNCHANGED <<outFile, disturbed>>, stream' = stream + n,
           lineEnds' = IF n = 0 THEN lineEnds ELSE lineEnds \cup {stream + n}
    PROVE  LogCore'
  <1>. DEFINE p == Bytes(stream + 1, stream + n)
              at == IF Plan(p).truncate THEN "truncate" ELSE "write"
  <1>1. /\ LogType /\ EndOK(stream, lineEnds) /\ writer.todo = <<>> /\ Base = outFile
        /\ Rising(outFile, <<>>, stream)
        /\ ~disturbed => HoldsNewest(outFile, <<>>, stream, lineEnds)
    BY DEF LogCore, Base
  <1>2. lineEnds \subseteq lineEnds' /\ stream \in Nat /\ lineEnds' \subseteq 1..stream' /\ outFile \in Seq(Nat)
    BY <1>1 DEF LogType
  <1>3. writer' = [at |-> at, todo |-> Plan(p).todo, opening |-> opening]
    BY DEF Apply
  <1>4. /\ Plan(p).todo \in Seq(Nat)
        /\ n > 0 => Plan(p).todo # <<>>
        /\ Plan(p).truncate =>
              /\ Len(Plan(p).todo) <= LogLimit
              /\ Rising(<<>>, Plan(p).todo, stream + n)
              /\ HoldsNewest(outFile, <<>>, stream, lineEnds) => HoldsNewest(<<>>, Plan(p).todo, stream + n, lineEnds')
        /\ ~Plan(p).truncate =>
              /\ Len(outFile) + Len(Plan(p).todo) <= LogLimit
              /\ Rising(outFile, Plan(p).todo, stream + n)
              /\ HoldsNewest(outFile, <<>>, stream, lineEnds) => HoldsNewest(outFile, Plan(p).todo, stream + n, lineEnds')
    BY <1>1, <1>2, PlanSound
  <1>. HIDE DEF p
  <1>5. /\ writer' \in WriterType /\ writer'.todo = Plan(p).todo /\ writer'.opening = opening
        /\ writer'.at = IF Plan(p).truncate THEN "truncate" ELSE "write"
    BY <1>3, <1>4 DEF WriterType, Ats
  <1>6. Base' = IF Plan(p).truncate THEN <<>> ELSE outFile
    BY <1>5 DEF Base
  <1>7. LogType' /\ EndOK(stream', lineEnds')
    BY <1>1, <1>2, <1>5 DEF LogType, EndOK
  <1>8. LogBounded'
    BY <1>4, <1>5 DEF LogBounded
  <1>9. Rising(outFile, <<>>, stream + n)
    <2>1. \A j \in 1..Len(outFile) : outFile[j] \in Nat /\ outFile[j] <= stream
      BY <1>1, <1>2 DEF Rising
    <2>2. \A j \in 1..Len(outFile) : outFile[j] <= stream + n
      BY <1>2, <2>1
    <2>3. Len(<<>>) = 0
      OBVIOUS
    <2>. QED
      BY <1>1, <2>2, <2>3 DEF Rising
  <1>10. Rising(Base', writer'.todo, stream + n)
    BY <1>4, <1>5, <1>6
  <1>11. ~disturbed => HoldsNewest(Base', writer'.todo, stream + n, lineEnds')
    BY <1>1, <1>4, <1>5, <1>6
  <1>12. ~disturbed /\ writer'.todo = <<>> => HoldsNewest(outFile, <<>>, stream + n, lineEnds')
    BY <1>1, <1>2, <1>4, <1>5
  <1>13. writer.at = "open" => Len(outFile) <= LogLimit
    <2>1. Len(outFile) \in Nat /\ LogLimit \in Nat /\ Len(<<>>) = 0
      BY <1>2, ServiceLogAssumption
    <2>. QED
      BY <1>1, <2>1 DEF LogCore, LogBounded
  <1>. QED
    BY <1>4, <1>5, <1>7, <1>8, <1>9, <1>10, <1>11, <1>12, <1>13 DEF LogCore

\* A short write moves bytes from what is left to the end of the file.
LEMMA LogPutKeeps ==
    ASSUME LogCore, FilesOK, LogPut
    PROVE  LogCore'
  <1>. DEFINE f == outFile
              t == writer.todo
  <1>1. /\ f \in Seq(Nat) /\ writer \in WriterType /\ t \in Seq(Nat) /\ stream \in Nat /\ LogBounded
        /\ writer.at = "write" /\ Base = f /\ Rising(f, t, stream)
        /\ ~disturbed => HoldsNewest(f, t, stream, lineEnds)
    BY DEF LogCore, LogType, LogPut, Base, WriterType
  <1>2. PICK k \in 1..Len(t) :
            /\ Fill(outFd, f \o SubSeq(t, 1, k))
            /\ writer' = [writer EXCEPT !.todo = SubSeq(t, k + 1, Len(t))]
    BY DEF LogPut
  <1>3. UNCHANGED <<stream, lineEnds, disturbed, outFd>> /\ outFd \in 1..Len(files)
    BY DEF LogPut, logged, FilesOK
  <1>. DEFINE u == SubSeq(t, k + 1, Len(t))
              g == f \o SubSeq(t, 1, k)
              a == Len(f)
              b == Len(t)
  <1>4. a \in Nat /\ b \in Nat /\ k \in 1..b /\ \A j \in 1..b : t[j] \in Nat
    BY <1>1
  <1>5. u \in Seq(Nat) /\ Len(u) = b - k /\ \A j \in 1..(b - k) : u[j] = t[k + j]
    <2>. HIDE DEF t
    <2>1. \A j \in (k + 1)..b : t[j] \in Nat
      BY <1>4
    <2>2. /\ u \in Seq(Nat) /\ Len(u) = (IF k + 1 <= b THEN b - (k + 1) + 1 ELSE 0)
          /\ \A j \in 1..(b - (k + 1) + 1) : u[j] = t[(k + 1) + j - 1]
      BY <1>4, <2>1, SubSeqProperties
    <2>. QED
      BY <1>4, <2>2
  <1>6. /\ g \in Seq(Nat) /\ Len(g) = a + k
        /\ \A j \in 1..(a + k) : g[j] = IF j <= a THEN f[j] ELSE t[j - a]
    <2>. HIDE DEF t, f
    <2>. DEFINE h == SubSeq(t, 1, k)
    <2>1. h \in Seq(Nat) /\ Len(h) = k /\ \A j \in 1..k : h[j] = t[j]
      <3>1. \A j \in 1..k : t[j] \in Nat
        BY <1>4
      <3>2. /\ h \in Seq(Nat) /\ Len(h) = (IF 1 <= k THEN k - 1 + 1 ELSE 0)
            /\ \A j \in 1..(k - 1 + 1) : h[j] = t[1 + j - 1]
        BY <1>4, <3>1, SubSeqProperties
      <3>. QED
        BY <1>4, <3>2
    <2>. HIDE DEF h
    <2>2. /\ f \o h \in Seq(Nat) /\ Len(f \o h) = Len(f) + Len(h)
          /\ \A j \in 1..(Len(f) + Len(h)) : (f \o h)[j] = IF j <= Len(f) THEN f[j] ELSE h[j - Len(f)]
      BY <1>1, <2>1, ConcatProperties
    <2>3. \A j \in 1..(a + k) : ~(j <= a) => j - a \in 1..k
      BY <1>4
    <2>4. g = f \o h
      BY DEF h
    <2>. HIDE DEF g
    <2>. QED
      BY <2>1, <2>2, <2>3, <2>4
  <1>7. writer' \in WriterType /\ writer'.at = "write" /\ writer'.todo = u /\ outFile' = g
    <2>. HIDE DEF u
    <2>1. writer' = [writer EXCEPT !.todo = u]
      BY <1>2 DEF u
    <2>. HIDE DEF f, t
    <2>2. Fill(outFd, g) /\ g \in Seq(Nat)
      BY <1>2, <1>6
    <2>. HIDE DEF g
    <2>3. files'[outFd].bytes = g
      BY <1>3, <2>2, FillEffect
    <2>4. outFile' = g
      BY <1>3, <2>3 DEF outFile
    <2>. QED
      BY <1>1, <1>5, <2>1, <2>4 DEF WriterType, t
  <1>. HIDE DEF u, g, f, t
  <1>8. Base' = g
    BY <1>7 DEF Base
  <1>9. LogBounded'
    <2>1. a + b <= LogLimit
      BY <1>1 DEF LogBounded, f, t
    <2>2. Len(g) + Len(u) = a + b
      BY <1>4, <1>5, <1>6
    <2>. QED
      BY <1>7, <2>1, <2>2 DEF LogBounded
  <1>10. /\ \A i, j \in 1..a : i < j => f[i] < f[j]
         /\ \A i, j \in 1..b : i < j => t[i] < t[j]
         /\ \A i \in 1..a, j \in 1..b : f[i] < t[j]
         /\ \A i \in 1..a : f[i] <= stream
         /\ \A i \in 1..b : t[i] <= stream
    BY <1>1 DEF Rising
  <1>11. /\ \A i, j \in 1..(a + k) : i < j => g[i] < g[j]
         /\ \A i \in 1..(a + k) : g[i] <= stream
    <2>1. \A i \in 1..(a + k) : \/ i \in 1..a /\ g[i] = f[i]
                                \/ i > a /\ i - a \in 1..b /\ g[i] = t[i - a]
      BY <1>4, <1>6
    <2>2. ASSUME NEW i \in 1..(a + k), NEW j \in 1..(a + k), i < j PROVE g[i] < g[j]
      <3>1. CASE j \in 1..a /\ g[j] = f[j]
        BY <1>4, <1>10, <2>1, <2>2, <3>1
      <3>2. CASE j > a /\ j - a \in 1..b /\ g[j] = t[j - a]
        <4>1. CASE i \in 1..a /\ g[i] = f[i]
          BY <1>10, <3>2, <4>1
        <4>2. CASE i > a /\ i - a \in 1..b /\ g[i] = t[i - a]
          <5>1. i - a < j - a
            BY <1>4, <2>2
          <5>. QED
            BY <1>10, <3>2, <4>2, <5>1
        <4>. QED
          BY <2>1, <4>1, <4>2
      <3>. QED
        BY <2>1, <3>1, <3>2
    <2>3. \A i \in 1..(a + k) : g[i] <= stream
      BY <1>10, <2>1
    <2>. QED
      BY <2>2, <2>3
  <1>12. \A j \in 1..(b - k) : k + j \in 1..b
    BY <1>4
  <1>13. \A i \in 1..(a + k), j \in 1..(b - k) : g[i] < u[j]
    <2>. SUFFICES ASSUME NEW i \in 1..(a + k), NEW j \in 1..(b - k) PROVE g[i] < u[j]
      OBVIOUS
    <2>1. u[j] = t[k + j] /\ k + j \in 1..b
      BY <1>5, <1>12
    <2>2. CASE i <= a
      <3>1. i \in 1..a /\ g[i] = f[i]
        BY <1>4, <1>6, <2>2
      <3>. QED
        BY <1>10, <2>1, <3>1
    <2>3. CASE ~(i <= a)
      <3>1. i - a \in 1..b /\ i - a < k + j /\ g[i] = t[i - a]
        BY <1>4, <1>6, <2>3
      <3>. QED
        BY <1>10, <2>1, <3>1
    <2>. QED
      BY <2>2, <2>3
  <1>14. /\ \A i, j \in 1..(b - k) : i < j => u[i] < u[j]
         /\ \A i \in 1..(b - k) : u[i] <= stream
    <2>1. ASSUME NEW i \in 1..(b - k), NEW j \in 1..(b - k), i < j PROVE u[i] < u[j]
      <3>1. k + i \in 1..b /\ k + j \in 1..b /\ k + i < k + j
        BY <1>4, <2>1
      <3>. QED
        BY <1>5, <1>10, <3>1
    <2>2. \A i \in 1..(b - k) : u[i] <= stream
      BY <1>5, <1>10, <1>12
    <2>. QED
      BY <2>1, <2>2
  <1>15. Rising(g, u, stream)
    BY <1>5, <1>6, <1>11, <1>13, <1>14 DEF Rising
  <1>16. Rising(g, <<>>, stream)
    <2>1. Len(<<>>) = 0
      OBVIOUS
    <2>. QED
      BY <1>6, <1>11, <2>1 DEF Rising
  <1>17. ASSUME ~disturbed PROVE HoldsNewest(g, u, stream, lineEnds)
    <2>1. /\ a + b <= stream
          /\ \A i \in 1..a : f[i] = stream - b - a + i
          /\ \A i \in 1..b : t[i] = stream - b + i
          /\ Cut(stream - a - b, a + b, lineEnds)
      BY <1>1, <1>17 DEF HoldsNewest
    <2>2. \A i \in 1..(a + k) : g[i] = stream - (b - k) - (a + k) + i
      <3>. SUFFICES ASSUME NEW i \in 1..(a + k) PROVE g[i] = stream - (b - k) - (a + k) + i
        OBVIOUS
      <3>1. CASE i <= a
        <4>1. i \in 1..a /\ g[i] = f[i]
          BY <1>4, <1>6, <3>1
        <4>2. f[i] = stream - b - a + i
          BY <2>1, <4>1
        <4>3. stream - b - a + i = stream - (b - k) - (a + k) + i
          BY <1>1, <1>4
        <4>. QED
          BY <4>1, <4>2, <4>3
      <3>2. CASE ~(i <= a)
        <4>1. i - a \in 1..b /\ g[i] = t[i - a]
          BY <1>4, <1>6, <3>2
        <4>. QED
          BY <1>1, <1>4, <2>1, <4>1
      <3>. QED
        BY <3>1, <3>2
    <2>3. \A i \in 1..(b - k) : u[i] = stream - (b - k) + i
      <3>. SUFFICES ASSUME NEW i \in 1..(b - k) PROVE u[i] = stream - (b - k) + i
        OBVIOUS
      <3>1. k + i \in 1..b /\ u[i] = t[k + i]
        BY <1>5, <1>12
      <3>. QED
        BY <1>1, <1>4, <2>1, <3>1
    <2>4. stream - (a + k) - (b - k) = stream - a - b /\ (a + k) + (b - k) = a + b
      BY <1>1, <1>4
    <2>. QED
      BY <1>5, <1>6, <2>1, <2>2, <2>3, <2>4 DEF HoldsNewest
  <1>18. u = <<>> => (HoldsNewest(g, u, stream, lineEnds) => HoldsNewest(g, <<>>, stream, lineEnds))
    OBVIOUS
  <1>. QED
    BY <1>3, <1>5, <1>6, <1>7, <1>8, <1>9, <1>15, <1>16, <1>17, <1>18, LogStill

\* The log's invariant holds of whatever file an earlier build left.
LEMMA LogInvInit == LogInit => LogInv
  <1>. SUFFICES ASSUME LogInit PROVE LogInv
    OBVIOUS
  <1>. DEFINE e == [bytes |-> <<0>>, safe |-> TRUE]
              o(n) == [bytes |-> Bytes(1, n), safe |-> TRUE]
  <1>1. PICK n \in OldSizes : files = <<o(n), e>> /\ stream = n /\ lineEnds = {x \in 1..n : x % 2 = 0}
    BY DEF LogInit
  <1>2. n \in Nat /\ LogLimit \in Nat
    BY ServiceLogAssumption
  <1>3. outFile \in Seq(Nat) /\ Len(outFile) = n /\ \A k \in 1..n : outFile[k] = k
    <2>1. /\ Bytes(1, n) \in Seq(Nat) /\ Len(Bytes(1, n)) = n + 1 - 1
          /\ \A k \in 1..(n + 1 - 1) : Bytes(1, n)[k] = 1 + k - 1
      <3>1. 1 \in Nat /\ 1 <= n + 1
        BY <1>2
      <3>. QED
        BY <1>2, <3>1, BytesRead
    <2>2. outFd = 1 /\ files[1] = o(n)
      BY <1>1 DEF LogInit
    <2>3. outFile = Bytes(1, n)
      BY <2>2 DEF outFile
    <2>. QED
      BY <1>2, <2>1, <2>3
  <1>4. writer = Closed /\ Closed \in WriterType /\ Closed.at = "closed" /\ Closed.todo = <<>>
    BY DEF LogInit, Closed, WriterType, Ats
  <1>5. Base = outFile /\ Len(<<>>) = 0
    BY <1>4 DEF Base
  <1>6. LogType
    BY <1>1, <1>2, <1>3, <1>4 DEF LogType
  <1>7. EndOK(stream, lineEnds)
    BY <1>1, <1>2 DEF EndOK
  <1>8. Rising(outFile, <<>>, stream)
    BY <1>1, <1>2, <1>3, <1>5 DEF Rising
  <1>9. HoldsNewest(outFile, <<>>, stream, lineEnds)
    <2>1. stream = n
      BY <1>1
    <2>. HIDE DEF o, e
    <2>2. /\ Len(outFile) + 0 <= stream /\ stream - 0 - Len(outFile) = 0 /\ stream - Len(outFile) - 0 = 0
          /\ \A k \in 1..Len(outFile) : outFile[k] = stream - 0 - Len(outFile) + k
      BY <1>2, <1>3, <2>1
    <2>. QED
      BY <1>5, <2>2 DEF HoldsNewest, Cut
  <1>10. LogBounded
    BY <1>4 DEF LogBounded
  <1>11. LogCore
    BY <1>4, <1>5, <1>6, <1>7, <1>8, <1>9, <1>10 DEF LogCore
  <1>12. FilesOK
    <2>1. outFd = 1 /\ errFd = 2 /\ outName = 1 /\ errName = 2
      BY DEF LogInit
    <2>2. o(n).bytes = outFile /\ o(n).safe = TRUE /\ e.bytes = <<0>> /\ e.safe = TRUE
      BY <1>1, <2>1 DEF outFile
    <2>3. o(n) \in FileType /\ e \in FileType
      <3>1. Bytes(1, n) \in Seq(Nat) /\ <<0>> \in Seq(Nat)
        BY <1>3, <2>2
      <3>. QED
        BY <3>1 DEF FileType
    <2>. HIDE DEF o, e
    <2>4. files \in Seq(FileType) /\ Len(files) = 2 /\ files[1] = o(n) /\ files[2] = e
      BY <1>1, <2>3
    <2>5. Rising(<<0>>, <<>>, stream)
      <3>1. Len(<<0>>) = 1 /\ <<0>>[1] = 0 /\ Len(<<>>) = 0
        OBVIOUS
      <3>. QED
        BY <1>1, <1>2, <3>1 DEF Rising
    <2>6. \A f \in 1..2 : f = 1 \/ f = 2
      OBVIOUS
    <2>7. \A f \in 1..Len(files) : Rising(files[f].bytes, <<>>, stream)
      BY <1>8, <2>2, <2>4, <2>5, <2>6
    <2>. QED
      BY <2>1, <2>4, <2>7 DEF FilesOK
  <1>. QED
    BY <1>4, <1>11, <1>12 DEF LogInv, TrustOK

\* Opening: the descriptors are taken, and the file that is there is bounded.
LEMMA LogOpenKeeps ==
    ASSUME LogCore, FilesOK, LogOpenError \/ LogOpen \/ LogBound
    PROVE  LogCore'
  <1>1. /\ LogType /\ stream \in Nat /\ stream + 0 = stream /\ writer \in WriterType
        /\ Rising(outFile, <<>>, stream)
        /\ writer.at \notin {"truncate", "write"} => writer.todo = <<>>
        /\ ~disturbed /\ writer.todo = <<>> => HoldsNewest(outFile, <<>>, stream, lineEnds)
    BY DEF LogCore, LogType
  <1>2. Closed \in WriterType /\ Closed.at = "closed" /\ Closed.todo = <<>>
    BY DEF Closed, WriterType, Ats
  <1>3. ASSUME writer.at \in {"closed", "opening", "bound"}, UNCHANGED <<stream, lineEnds>>,
               writer' \in WriterType, writer'.at \in {"closed", "opening", "bound"}, writer'.todo = <<>>,
               outFile' \in Seq(Nat), Rising(outFile', <<>>, stream),
               (outFile' = outFile /\ (disturbed => disturbed')) \/ disturbed'
        PROVE  LogCore'
    <2>1. Base' = outFile' /\ LogBounded'
      BY <1>3 DEF Base, LogBounded
    <2>2. ~disturbed' => HoldsNewest(outFile', <<>>, stream, lineEnds)
      BY <1>1, <1>3
    <2>. QED
      BY <1>3, <2>1, <2>2, LogStill
  <1>4. CASE LogOpenError
    <2>1. writer.at = "closed" /\ writer' = [Closed EXCEPT !.at = "opening"]
      BY <1>4 DEF LogOpenError
    <2>2. writer' \in WriterType /\ writer'.at = "opening" /\ writer'.todo = <<>>
      BY <1>2, <2>1 DEF WriterType, Ats
    <2>3. UNCHANGED <<stream, lineEnds, disturbed, files, outFd>>
      BY <1>4 DEF LogOpenError, logged
    <2>4. outFile' = outFile /\ outFile \in Seq(Nat)
      BY <1>1, <2>3, OutSame DEF LogType
    <2>. QED
      BY <1>1, <1>3, <2>1, <2>2, <2>3, <2>4
  <1>5. CASE LogOpen
    <2>1. PICK to \in {"bound", "closed"} : writer' = [writer EXCEPT !.at = to]
      BY <1>5 DEF LogOpen, At
    <2>2. writer.at = "opening" /\ UNCHANGED <<stream, lineEnds>>
      BY <1>5 DEF LogOpen, At, logged
    <2>3. writer' \in WriterType /\ writer'.at \in {"closed", "opening", "bound"} /\ writer'.todo = <<>>
      BY <1>1, <2>1, <2>2 DEF WriterType, Ats
    <2>4. disturbed' = (disturbed \/ outFd' # outFd)
      BY <1>5 DEF LogOpen
    <2>5. CASE outName = 0
      <3>. DEFINE r == [bytes |-> <<>>, safe |-> TRUE]
      <3>1. r \in FileType /\ r.bytes = <<>> /\ Len(<<>>) = 0 /\ <<>> \in Seq(Nat)
        BY DEF FileType
      <3>2. files' = Append(files, r) /\ outFd' = Len(files')
        BY <1>5, <2>5 DEF LogOpen
      <3>. HIDE DEF r
      <3>3. Len(files') = Len(files) + 1 /\ files'[Len(files) + 1] = r /\ Len(files) \in Nat
        BY <3>1, <3>2, AppendEffect DEF FilesOK
      <3>4. outFile' = <<>> /\ outFd' # outFd
        BY <3>1, <3>2, <3>3 DEF outFile, FilesOK
      <3>5. Rising(<<>>, <<>>, stream)
        BY <3>1 DEF Rising
      <3>. QED
        BY <1>3, <2>2, <2>3, <2>4, <3>1, <3>4, <3>5
    <2>6. CASE outName # 0 /\ outName \in Found(outName)
      <3>1. files' = files /\ outFd' = outName
        BY <1>5, <2>6 DEF LogOpen
      <3>2. outName \in 1..Len(files) /\ files \in Seq(FileType)
        BY <2>6 DEF FilesOK
      <3>3. outFile' = files[outName].bytes /\ files[outName] \in FileType
        BY <3>1, <3>2 DEF outFile
      <3>4. outFile' \in Seq(Nat) /\ Rising(outFile', <<>>, stream)
        BY <3>2, <3>3 DEF FilesOK, FileType
      <3>5. (outFile' = outFile /\ (disturbed => disturbed')) \/ disturbed'
        <4>1. CASE outFd' = outFd
          BY <2>4, <3>1, <4>1, OutSame
        <4>2. CASE outFd' # outFd
          BY <2>4, <4>2
        <4>. QED
          BY <4>1, <4>2
      <3>. QED
        BY <1>3, <2>2, <2>3, <3>4, <3>5
    <2>7. CASE outName # 0 /\ outName \notin Found(outName)
      <3>1. files' = files /\ outFd' = outFd
        BY <1>5, <2>7 DEF LogOpen
      <3>2. outFile' = outFile /\ outFile \in Seq(Nat) /\ (disturbed => disturbed')
        BY <1>1, <2>4, <3>1, OutSame DEF LogType
      <3>. QED
        BY <1>1, <1>3, <2>2, <2>3, <3>2
    <2>. QED
      BY <2>5, <2>6, <2>7
  <1>6. CASE LogBound
    <2>1. writer.at = "bound" /\ UNCHANGED <<files, outFd, disturbed, stream, lineEnds>>
      BY <1>6 DEF LogBound, logged
    <2>2. outFile' = outFile /\ outFile \in Seq(Nat)
      BY <1>1, <2>1, OutSame DEF LogType
    <2>3. CASE writer' = Closed
      BY <1>1, <1>2, <1>3, <2>1, <2>2, <2>3
    <2>4. CASE Apply(<<>>, TRUE)
      <3>1. Bytes(stream + 1, stream + 0) = <<>>
        <4>1. /\ Bytes(stream + 1, stream + 0) \in Seq(Nat)
              /\ Len(Bytes(stream + 1, stream + 0)) = (stream + 0) + 1 - (stream + 1)
          <5>1. stream + 1 \in Nat /\ stream + 0 \in Nat /\ stream + 1 <= (stream + 0) + 1
            BY <1>1
          <5>. QED
            BY <5>1, BytesRead
        <4>2. (stream + 0) + 1 - (stream + 1) = 0
          BY <1>1
        <4>. QED
          BY <4>1, <4>2, EmptySeq
      <3>2. Apply(Bytes(stream + 1, stream + 0), TRUE)
        BY <2>4, <3>1, Zenon
      <3>. QED
        BY <1>1, <2>1, <2>2, <3>2, LogApply
    <2>. QED
      BY <1>6, <2>3, <2>4 DEF LogBound
  <1>. QED
    BY <1>4, <1>5, <1>6

\* A record is planned, or refused because the name leads elsewhere.
LEMMA LogWriteKeeps ==
    ASSUME LogCore, LogWrite
    PROVE  LogCore'
  <1>1. LogType /\ EndOK(stream, lineEnds)
    BY DEF LogCore
  <1>2. PICK n \in RecordSizes :
            /\ stream' = stream + n /\ lineEnds' = lineEnds \cup {stream + n}
            /\ IF outFd \in Found(outName)
               THEN /\ Apply(Bytes(stream + 1, stream + n), FALSE)
                    /\ UNCHANGED disturbed
               ELSE disturbed' = TRUE /\ UNCHANGED writer
    BY DEF LogWrite
  <1>3. n \in Nat /\ n # 0 /\ stream \in Nat
    BY <1>1, ServiceLogAssumption DEF LogType
  <1>4. writer.at = "open" /\ UNCHANGED outFile
    BY OutSame DEF LogWrite
  <1>5. CASE outFd \in Found(outName)
    BY <1>2, <1>3, <1>4, <1>5, LogApply
  <1>6. CASE outFd \notin Found(outName)
    <2>1. /\ disturbed' /\ UNCHANGED <<writer, outFile>> /\ writer.todo = <<>> /\ Base = outFile
          /\ Rising(outFile, <<>>, stream) /\ LogBounded
      BY <1>2, <1>4, <1>6 DEF LogCore, Base
    <2>2. LogType' /\ EndOK(stream', lineEnds')
      BY <1>1, <1>2, <1>3, <2>1 DEF LogType, EndOK
    <2>3. Rising(outFile, <<>>, stream + n)
      <3>1. \A j \in 1..Len(outFile) : outFile[j] \in Nat /\ outFile[j] <= stream
        BY <1>1, <2>1 DEF Rising, LogType
      <3>2. \A j \in 1..Len(outFile) : outFile[j] <= stream + n
        BY <1>3, <3>1
      <3>3. Len(<<>>) = 0
        OBVIOUS
      <3>. QED
        BY <2>1, <3>2, <3>3 DEF Rising
    <2>4. Base' = outFile /\ LogBounded'
      BY <1>4, <2>1 DEF Base, LogBounded
    <2>. QED
      BY <1>2, <1>4, <2>1, <2>2, <2>3, <2>4 DEF LogCore
  <1>. QED
    BY <1>5, <1>6

\* What renames do to the files and names.
LEMMA RenameEffect ==
    ASSUME FilesOK, LogRename
    PROVE  /\ files' \in Seq(FileType) /\ Len(files) <= Len(files') /\ Len(files) \in Nat /\ Len(files') \in Nat
           /\ \A g \in 1..Len(files) : files'[g] = files[g]
           /\ outName' \in 0..Len(files') /\ errName' \in 0..Len(files')
           /\ stream \in Nat => \A f \in 1..Len(files') : Rising(files'[f].bytes, <<>>, stream)
  <1>1. /\ files \in Seq(FileType) /\ Len(files) \in Nat /\ outName \in 0..Len(files) /\ errName \in 0..Len(files)
        /\ \A f \in 1..Len(files) : Rising(files[f].bytes, <<>>, stream)
    BY DEF FilesOK
  <1>2. PICK f \in 0..(Len(files) + 1), safe \in BOOLEAN :
            /\ files' = IF f > Len(files) THEN Append(files, [bytes |-> <<0>>, safe |-> safe]) ELSE files
            /\ \/ outName' = f /\ errName' = (IF errName = f THEN 0 ELSE errName)
               \/ errName' = f /\ outName' = (IF outName = f THEN 0 ELSE outName)
    BY DEF LogRename
  <1>3. CASE f > Len(files)
    <2>. DEFINE r == [bytes |-> <<0>>, safe |-> safe]
    <2>1. r \in FileType /\ r.bytes = <<0>>
      BY DEF FileType
    <2>2. files' = Append(files, r) /\ f = Len(files) + 1
      BY <1>1, <1>2, <1>3
    <2>. HIDE DEF r
    <2>3. /\ files' \in Seq(FileType) /\ Len(files') = Len(files) + 1 /\ files'[Len(files) + 1] = r
          /\ \A g \in 1..Len(files) : files'[g] = files[g]
      BY <2>1, <2>2, AppendEffect
    <2>4. outName' \in 0..Len(files') /\ errName' \in 0..Len(files')
      BY <1>1, <1>2, <2>3
    <2>5. ASSUME stream \in Nat, NEW g \in 1..Len(files') PROVE Rising(files'[g].bytes, <<>>, stream)
      <3>1. Len(<<0>>) = 1 /\ <<0>>[1] = 0 /\ Len(<<>>) = 0
        OBVIOUS
      <3>2. Rising(<<0>>, <<>>, stream)
        BY <2>5, <3>1 DEF Rising
      <3>3. g \in 1..Len(files) \/ g = Len(files) + 1
        BY <1>1, <2>3
      <3>. QED
        BY <1>1, <2>1, <2>3, <3>2, <3>3
    <2>. QED
      BY <1>1, <2>3, <2>4, <2>5
  <1>4. CASE ~(f > Len(files))
    <2>1. files' = files /\ f \in 0..Len(files)
      BY <1>1, <1>2, <1>4
    <2>2. outName' \in 0..Len(files) /\ errName' \in 0..Len(files)
      BY <1>1, <1>2, <2>1
    <2>. QED
      BY <1>1, <2>1, <2>2
  <1>. QED
    BY <1>3, <1>4

\* A link or a mode changes no byte.
LEMMA LinkEffect ==
    ASSUME FilesOK, LogLink
    PROVE  /\ files' \in Seq(FileType) /\ Len(files') = Len(files)
           /\ \A g \in 1..Len(files) : files'[g].bytes = files[g].bytes
  <1>1. files \in Seq(FileType)
    BY DEF FilesOK
  <1>2. PICK f \in 1..Len(files) : files' = [files EXCEPT ![f].safe = ~files[f].safe]
    BY DEF LogLink
  <1>. DEFINE r == [files[f] EXCEPT !.safe = ~files[f].safe]
  <1>3. files[f] \in FileType
    BY <1>1
  <1>4. r \in FileType /\ r.bytes = files[f].bytes
    BY <1>3 DEF FileType
  <1>5. files' = [files EXCEPT ![f] = r]
    BY <1>2
  <1>. HIDE DEF r
  <1>. QED
    BY <1>1, <1>4, <1>5

\* The other steps: truncation, the end of a write, the error log, failures.
LEMMA LogOtherKeeps ==
    ASSUME LogCore, FilesOK, TrustOK,
           \/ LogTruncate \/ LogDone \/ LogErrorCheck \/ LogErrorTruncate \/ LogPutFails \/ LogKill
           \/ LogRename \/ LogLink
    PROVE  LogCore'
  <1>1. /\ LogType /\ writer \in WriterType /\ outFile \in Seq(Nat) /\ LogBounded
        /\ writer.at \notin {"truncate", "write"} => writer.todo = <<>>
        /\ Rising(outFile, <<>>, stream) /\ Rising(Base, writer.todo, stream)
        /\ ~disturbed => /\ HoldsNewest(Base, writer.todo, stream, lineEnds)
                         /\ writer.todo = <<>> => HoldsNewest(outFile, <<>>, stream, lineEnds)
    BY DEF LogCore, LogType
  <1>2. CASE LogTruncate
    <2>1. /\ writer.at = "truncate" /\ writer' = [writer EXCEPT !.at = "write"] /\ outFile' = <<>>
          /\ UNCHANGED <<stream, lineEnds, disturbed>> /\ Len(writer.todo) <= LogLimit
      <3>1. Fill(outFd, <<>>) /\ <<>> \in Seq(Nat) /\ outFd \in 1..Len(files) /\ outFd' = outFd
        BY <1>2 DEF LogTruncate, FilesOK
      <3>2. files'[outFd].bytes = <<>>
        BY <3>1, FillEffect
      <3>3. outFile' = <<>>
        BY <3>1, <3>2 DEF outFile
      <3>. QED
        BY <1>2, <3>3 DEF LogTruncate, At, LogCore, logged
    <2>2. writer' \in WriterType /\ writer'.at = "write" /\ writer'.todo = writer.todo
      BY <1>1, <2>1 DEF WriterType, Ats
    <2>3. Base' = <<>> /\ Base = <<>> /\ <<>> \in Seq(Nat) /\ Len(<<>>) = 0
      BY <2>1, <2>2 DEF Base
    <2>4. LogBounded'
      <3>1. Len(writer.todo) \in Nat
        BY <1>1 DEF WriterType
      <3>. QED
        BY <2>1, <2>2, <2>3, <3>1 DEF LogBounded
    <2>5. Rising(<<>>, <<>>, stream)
      BY <2>3 DEF Rising
    <2>. QED
      BY <1>1, <2>1, <2>2, <2>3, <2>4, <2>5, LogStill
  <1>3. CASE LogDone
    <2>1. PICK to \in {"error log", "open"} : writer' = [writer EXCEPT !.at = to]
      BY <1>3 DEF LogDone, At
    <2>2. to \in Ats /\ to # "truncate"
      BY DEF Ats
    <2>. QED
      BY <1>3, <2>1, <2>2, LogMove, OutSame DEF LogDone, At, logged
  <1>4. CASE LogErrorCheck
    <2>1. PICK to \in {"empty", "closed"} : writer' = [writer EXCEPT !.at = to]
      BY <1>4 DEF LogErrorCheck, At
    <2>2. to \in Ats /\ to # "truncate"
      BY DEF Ats
    <2>. QED
      BY <1>1, <1>4, <2>1, <2>2, LogMove, OutSame DEF LogErrorCheck, At, logged
  <1>5. CASE LogErrorTruncate
    <2>1. /\ writer.at = "empty" /\ writer' = [writer EXCEPT !.at = "open"] /\ outFd' = outFd
          /\ Fill(errFd, <<>>) /\ UNCHANGED <<stream, lineEnds>> /\ disturbed' = (disturbed \/ errFd = outFd)
      BY <1>5 DEF LogErrorTruncate, At, logged
    <2>2. errFd \in 1..Len(files) /\ outFd \in 1..Len(files) /\ <<>> \in Seq(Nat) /\ Len(<<>>) = 0
      BY <2>1 DEF FilesOK, TrustOK
    <2>3. files'[errFd].bytes = <<>> /\ \A g \in 1..Len(files) : g # errFd => files'[g] = files[g]
      BY <2>1, <2>2, FillEffect
    <2>4. "open" \in Ats /\ "open" # "truncate"
      BY DEF Ats
    <2>5. CASE errFd # outFd
      <3>1. outFile' = outFile /\ (disturbed => disturbed')
        BY <2>1, <2>2, <2>3, <2>5 DEF outFile
      <3>. QED
        BY <1>1, <2>1, <2>4, <3>1, LogMove
    <2>6. CASE errFd = outFd
      <3>1. outFile' = <<>> /\ disturbed'
        BY <2>1, <2>3, <2>6 DEF outFile
      <3>2. writer' \in WriterType /\ writer'.at = "open" /\ writer'.todo = <<>>
        BY <1>1, <2>1, <2>4 DEF WriterType
      <3>3. Base' = <<>> /\ LogBounded'
        BY <2>2, <3>1, <3>2, ServiceLogAssumption DEF Base, LogBounded
      <3>4. Rising(<<>>, <<>>, stream)
        BY <2>2 DEF Rising
      <3>. QED
        BY <2>1, <2>2, <3>1, <3>2, <3>3, <3>4, LogStill
    <2>. QED
      BY <2>5, <2>6
  <1>6. CASE LogPutFails
    <2>1. /\ writer' = Closed \/ writer' = [writer EXCEPT !.at = "open", !.todo = <<>>]
          /\ writer' = Closed \/ ~writer.opening
          /\ disturbed' /\ UNCHANGED <<outFile, stream, lineEnds>>
          /\ writer.at = "truncate" \/ writer.at = "write"
      BY <1>6, OutSame DEF LogPutFails, logged
    <2>2. Closed \in WriterType /\ Closed.at = "closed" /\ Closed.todo = <<>>
      BY DEF Closed, WriterType, Ats
    <2>3. /\ writer' \in WriterType /\ writer'.at \in {"closed", "open"} /\ writer'.todo = <<>>
          /\ writer'.at = "open" => ~writer.opening
      BY <1>1, <2>1, <2>2 DEF WriterType, Ats
    <2>4. ~writer.opening => Len(outFile) <= LogLimit
      <3>1. Len(outFile) \in Nat /\ LogLimit \in Nat /\ Len(writer.todo) \in Nat
        BY <1>1, ServiceLogAssumption DEF WriterType
      <3>2. CASE writer.at = "truncate"
        BY <3>2 DEF LogCore
      <3>3. CASE writer.at = "write"
        <4>1. Len(outFile) + Len(writer.todo) <= LogLimit
          BY <1>1, <3>3 DEF LogBounded
        <4>. QED
          BY <3>1, <4>1
      <3>. QED
        BY <2>1, <3>2, <3>3
    <2>5. Base' = outFile /\ LogBounded'
      <3>1. Len(outFile) \in Nat /\ LogLimit \in Nat /\ Len(<<>>) = 0
        BY <1>1, ServiceLogAssumption
      <3>2. writer'.at = "open" => Len(outFile') + Len(writer'.todo) <= LogLimit
        BY <2>1, <2>3, <2>4, <3>1
      <3>. QED
        BY <2>1, <2>3, <3>2 DEF Base, LogBounded
    <2>. QED
      BY <1>1, <2>1, <2>3, <2>5, LogStill
  <1>7. CASE LogKill
    <2>1. /\ writer' = Closed /\ disturbed' = (disturbed \/ writer.todo # <<>>)
          /\ UNCHANGED <<outFile, stream, lineEnds>>
      BY <1>7, OutSame DEF LogKill, logged
    <2>2. Closed \in WriterType /\ Closed.at = "closed" /\ Closed.todo = <<>>
      BY DEF Closed, WriterType, Ats
    <2>3. Base' = outFile /\ LogBounded'
      BY <2>1, <2>2 DEF Base, LogBounded
    <2>4. ~disturbed' => HoldsNewest(outFile, <<>>, stream, lineEnds)
      BY <1>1, <2>1
    <2>. QED
      BY <1>1, <2>1, <2>2, <2>3, <2>4, LogStill
  <1>8. CASE LogRename \/ LogLink
    <2>1. UNCHANGED <<writer, stream, lineEnds, disturbed, outFd>> /\ outFd \in 1..Len(files)
      BY <1>8 DEF LogRename, LogLink, logged, FilesOK
    <2>2. files'[outFd].bytes = files[outFd].bytes
      BY <1>8, <2>1, RenameEffect, LinkEffect
    <2>3. outFile' = outFile
      BY <2>1, <2>2 DEF outFile
    <2>. QED
      BY <2>1, <2>3 DEF LogCore, LogType, Base, LogBounded
  <1>. QED
    BY <1>2, <1>3, <1>4, <1>5, <1>6, <1>7, <1>8

\* Every file's bytes stay in the order of the stream, and names and descriptors
\* lead to files.
LEMMA LogFilesKeep ==
    ASSUME LogInv, LogCore', LogNext
    PROVE  FilesOK'
  <1>1. /\ FilesOK /\ TrustOK /\ stream \in Nat /\ files \in Seq(FileType) /\ Len(files) \in Nat
        /\ outFd \in 1..Len(files) /\ errFd \in 0..Len(files) /\ outName \in 0..Len(files)
        /\ errName \in 0..Len(files) /\ \A f \in 1..Len(files) : Rising(files[f].bytes, <<>>, stream)
    BY DEF LogInv, LogCore, LogType, FilesOK
  <1>2. <<>> \in Seq(Nat) /\ Len(<<>>) = 0 /\ Rising(<<>>, <<>>, stream)
    BY DEF Rising
  <1>3. CASE LogWrite
    <2>1. PICK n \in RecordSizes : stream' = stream + n
      BY <1>3 DEF LogWrite
    <2>2. n \in Nat
      BY ServiceLogAssumption
    <2>3. \A f \in 1..Len(files) : files[f].bytes \in Seq(Nat)
      <3>1. \A f \in 1..Len(files) : files[f] \in FileType
        BY <1>1
      <3>. QED
        BY <3>1 DEF FileType
    <2>4. \A f \in 1..Len(files) : Rising(files[f].bytes, <<>>, stream')
      BY <1>1, <2>1, <2>2, <2>3, RisingGrows
    <2>. QED
      BY <1>1, <1>3, <2>4 DEF LogWrite, FilesOK, names
  <1>4. CASE LogTruncate \/ LogPut
    <2>1. /\ outFile' \in Seq(Nat) /\ Rising(outFile', <<>>, stream')
          /\ UNCHANGED <<outName, errName, outFd, errFd, stream>>
      BY <1>4 DEF LogCore, LogType, LogTruncate, LogPut, names, logged
    <2>2. PICK b : Fill(outFd, b)
      BY <1>4 DEF LogTruncate, LogPut
    <2>3. /\ files' \in Seq(FileType) /\ Len(files') = Len(files)
          /\ \A g \in 1..Len(files) : g # outFd => files'[g] = files[g]
      <3>1. CASE LogTruncate
        BY <1>1, <1>2, <3>1, FillEffect DEF LogTruncate
      <3>2. CASE LogPut
        <4>1. PICK k \in 1..Len(writer.todo) : Fill(outFd, outFile \o SubSeq(writer.todo, 1, k))
          BY <3>2 DEF LogPut
        <4>2. outFile \in Seq(Nat) /\ writer.todo \in Seq(Nat)
          BY DEF LogInv, LogCore, LogType, WriterType
        <4>3. outFile \o SubSeq(writer.todo, 1, k) \in Seq(Nat)
          BY <4>2
        <4>. QED
          BY <1>1, <4>1, <4>3, FillEffect
      <3>. QED
        BY <1>4, <3>1, <3>2
    <2>4. files'[outFd].bytes = outFile'
      BY <2>1 DEF outFile
    <2>5. \A f \in 1..Len(files') : Rising(files'[f].bytes, <<>>, stream')
      BY <1>1, <2>1, <2>3, <2>4
    <2>. QED
      BY <1>1, <2>1, <2>3, <2>5 DEF FilesOK
  <1>5. CASE LogErrorTruncate
    <2>1. Fill(errFd, <<>>) /\ UNCHANGED <<outName, errName, outFd, errFd, stream>> /\ errFd \in 1..Len(files)
      BY <1>1, <1>5 DEF LogErrorTruncate, At, names, logged, TrustOK
    <2>2. /\ files' \in Seq(FileType) /\ Len(files') = Len(files) /\ files'[errFd].bytes = <<>>
          /\ \A g \in 1..Len(files) : g # errFd => files'[g] = files[g]
      BY <1>1, <1>2, <2>1, FillEffect
    <2>3. \A f \in 1..Len(files') : Rising(files'[f].bytes, <<>>, stream')
      BY <1>1, <1>2, <2>1, <2>2
    <2>. QED
      BY <1>1, <2>1, <2>2, <2>3 DEF FilesOK
  <1>6. CASE LogRename
    <2>1. UNCHANGED <<outFd, errFd, stream>>
      BY <1>6 DEF LogRename, logged
    <2>. QED
      BY <1>1, <1>6, <2>1, RenameEffect DEF FilesOK
  <1>7. CASE LogLink
    <2>1. UNCHANGED <<outName, errName, outFd, errFd, stream>>
      BY <1>7 DEF LogLink, logged, names
    <2>. QED
      BY <1>1, <1>7, <2>1, LinkEffect DEF FilesOK
  <1>8. CASE LogOpen
    <2>1. UNCHANGED <<errName, errFd, stream>>
      BY <1>8 DEF LogOpen, logged
    <2>2. CASE outName = 0
      <3>. DEFINE r == [bytes |-> <<>>, safe |-> TRUE]
      <3>1. r \in FileType /\ r.bytes = <<>>
        BY DEF FileType
      <3>2. files' = Append(files, r) /\ outFd' = Len(files') /\ outName' = Len(files')
        BY <1>8, <2>2 DEF LogOpen
      <3>. HIDE DEF r
      <3>3. /\ files' \in Seq(FileType) /\ Len(files') = Len(files) + 1 /\ files'[Len(files) + 1] = r
            /\ \A g \in 1..Len(files) : files'[g] = files[g]
        BY <1>1, <3>1, <3>2, AppendEffect
      <3>4. \A f \in 1..Len(files') : f \in 1..Len(files) \/ f = Len(files) + 1
        BY <1>1, <3>3
      <3>5. \A f \in 1..Len(files') : Rising(files'[f].bytes, <<>>, stream')
        BY <1>1, <1>2, <2>1, <3>1, <3>3, <3>4
      <3>6. outFd' \in 1..Len(files') /\ outName' \in 0..Len(files') /\ errFd' \in 0..Len(files') /\ errName' \in 0..Len(files')
        BY <1>1, <2>1, <3>2, <3>3
      <3>. QED
        BY <3>3, <3>5, <3>6 DEF FilesOK
    <2>3. CASE outName # 0
      <3>1. files' = files /\ outName' = outName /\ outFd' \in {outName, outFd}
        BY <1>8, <2>3 DEF LogOpen
      <3>. QED
        BY <1>1, <2>1, <2>3, <3>1 DEF FilesOK
    <2>. QED
      BY <2>2, <2>3
  <1>9. CASE LogOpenError \/ LogBound \/ LogDone \/ LogErrorCheck \/ LogPutFails \/ LogKill
    <2>1. UNCHANGED <<files, outName, errName, outFd, stream>> /\ errFd' \in {errFd, errName}
      BY <1>9 DEF LogOpenError, LogBound, LogDone, LogErrorCheck, LogPutFails, LogKill, names, logged
    <2>. QED
      BY <1>1, <2>1 DEF FilesOK
  <1>. QED
    BY <1>3, <1>4, <1>5, <1>6, <1>7, <1>8, <1>9 DEF LogNext

\* The writer only gets to change a file the operation found.
LEMMA LogTrustKeeps ==
    ASSUME LogInv, LogNext
    PROVE  TrustOK'
  <1>1. TrustOK /\ writer \in WriterType
    BY DEF LogInv, LogCore, LogType
  <1>2. Closed.at = "closed"
    BY DEF Closed
  <1>3. CASE LogBound \/ LogWrite
    <2>1. writer'.at \in {"closed", "open"} \/ (outFd \in Found(outName) /\ writer'.at \in {"truncate", "write"})
      <3>1. CASE LogBound
        BY <1>2, <3>1 DEF LogBound, Apply
      <3>2. CASE LogWrite
        BY <3>2 DEF LogWrite, Apply
      <3>. QED
        BY <1>3, <3>1, <3>2
    <2>2. trusted' = Found(outName) /\ outFd' = outFd
      BY <1>3 DEF LogBound, LogWrite
    <2>. QED
      BY <2>1, <2>2 DEF TrustOK
  <1>4. CASE LogErrorCheck
    <2>1. writer'.at = IF errFd \in Found(errName) THEN "empty" ELSE "closed"
      BY <1>1, <1>4 DEF LogErrorCheck, At, WriterType
    <2>2. trusted' = Found(errName) /\ errFd' = errFd
      BY <1>4 DEF LogErrorCheck
    <2>. QED
      BY <2>1, <2>2 DEF TrustOK, Found
  <1>5. CASE LogTruncate \/ LogPut
    <2>1. writer'.at = "write" /\ writer.at \in {"truncate", "write"} /\ UNCHANGED <<outFd, trusted>>
      BY <1>1, <1>5 DEF LogTruncate, LogPut, At, WriterType
    <2>. QED
      BY <1>1, <2>1 DEF TrustOK
  <1>6. CASE LogRename \/ LogLink
    BY <1>1, <1>6 DEF LogRename, LogLink, TrustOK
  <1>7. CASE LogOpenError \/ LogOpen \/ LogDone \/ LogErrorTruncate \/ LogPutFails \/ LogKill
    <2>1. writer'.at \in {"opening", "bound", "closed", "error log", "open"}
      <3>1. CASE LogOpenError \/ LogKill
        <4>1. [Closed EXCEPT !.at = "opening"].at = "opening"
          BY DEF Closed
        <4>. QED
          BY <1>2, <3>1, <4>1 DEF LogOpenError, LogKill
      <3>2. CASE LogOpen
        BY <1>1, <3>2 DEF LogOpen, At, WriterType
      <3>3. CASE LogDone \/ LogErrorTruncate
        BY <1>1, <3>3 DEF LogDone, LogErrorTruncate, At, WriterType
      <3>4. CASE LogPutFails
        BY <1>1, <1>2, <3>4 DEF LogPutFails, WriterType
      <3>. QED
        BY <1>7, <3>1, <3>2, <3>3, <3>4
    <2>. QED
      BY <2>1 DEF TrustOK
  <1>. QED
    BY <1>3, <1>4, <1>5, <1>6, <1>7 DEF LogNext

\* The bound, the order and the gapless tail hold in every reachable state, of
\* whatever file the writer was given.
THEOREM LogInvCorrect == LogSpec => []LogInv
  <1>1. LogInv /\ UNCHANGED logVars => LogInv'
    <2>. SUFFICES ASSUME LogInv, UNCHANGED logVars PROVE LogInv'
      OBVIOUS
    <2>1. UNCHANGED <<files, outFd, errFd, outName, errName, trusted, writer, stream, lineEnds, disturbed>>
      BY DEF logVars
    <2>2. outFile' = outFile
      BY <2>1, OutSame
    <2>3. UNCHANGED Base /\ (LogBounded <=> LogBounded')
      BY <2>1, <2>2 DEF Base, LogBounded
    <2>4. LogCore'
      BY <2>1, <2>2, <2>3 DEF LogInv, LogCore, LogType
    <2>. QED
      BY <2>1, <2>4 DEF LogInv, FilesOK, TrustOK
  <1>2. LogInv /\ LogNext => LogInv'
    <2>. SUFFICES ASSUME LogInv, LogNext PROVE LogInv'
      OBVIOUS
    <2>1. LogCore'
      BY LogOpenKeeps, LogWriteKeeps, LogPutKeeps, LogOtherKeeps DEF LogNext, LogInv
    <2>. QED
      BY <2>1, LogFilesKeep, LogTrustKeeps DEF LogInv
  <1>. QED
    BY <1>1, <1>2, LogInvInit, PTL DEF LogSpec

\* For every bound, record size and file left behind, the log never exceeds its
\* bound once it is opened, at any step of a compaction and after any failure
\* inside one (writer_unix.go: enforceBound, writeAll).
THEOREM BoundCorrect == LogSpec => []LogBounded
  <1>1. LogInv => LogBounded
    BY DEF LogInv, LogCore
  <1>. QED
    BY <1>1, LogInvCorrect, PTL

\* Nothing is logged twice or out of order, and without a kill, an error, a
\* refusal or a change of file the log is the newest part of the stream with no gap, cut at a line
\* end or to exactly the bound (readTail, enforceBound).
THEOREM NewestCorrect == LogSpec => []NewestKept
  <1>1. LogInv => NewestKept
    <2>. SUFFICES ASSUME LogCore PROVE NewestKept
      BY DEF LogInv
    <2>1. \A j, k \in 1..Len(outFile) : j < k => outFile[j] < outFile[k]
      BY DEF LogCore, Rising
    <2>2. ASSUME ~disturbed, writer.at = "open"
          PROVE  \E k \in 0..stream :
                    /\ outFile = Bytes(k + 1, stream)
                    /\ k = 0 \/ k \in lineEnds \/ Len(outFile) = LogLimit \/ outFile = <<>>
      <3>1. outFile \in Seq(Nat) /\ stream \in Nat /\ HoldsNewest(outFile, <<>>, stream, lineEnds)
        BY <2>2 DEF LogCore, LogType
      <3>2. Len(<<>>) = 0 /\ Len(outFile) \in Nat
        BY <3>1
      <3>3. /\ Len(outFile) <= stream
            /\ \A k \in 1..Len(outFile) : outFile[k] = stream - Len(outFile) + k
            /\ Cut(stream - Len(outFile), Len(outFile), lineEnds)
        BY <3>1, <3>2 DEF HoldsNewest
      <3>4. PICK k \in 0..stream : k = stream - Len(outFile)
        <4>1. stream - Len(outFile) \in 0..stream
          BY <3>1, <3>2, <3>3
        <4>. QED
          BY <4>1
      <3>5. outFile = Bytes(k + 1, stream)
        <4>1. k + 1 \in Nat /\ k + 1 <= stream + 1 /\ stream + 1 - (k + 1) = Len(outFile)
          BY <3>1, <3>2, <3>4
        <4>. DEFINE s == Bytes(k + 1, stream)
        <4>2. /\ s \in Seq(Nat) /\ Len(s) = stream + 1 - (k + 1)
              /\ \A j \in 1..(stream + 1 - (k + 1)) : s[j] = (k + 1) + j - 1
          BY <3>1, <4>1, BytesRead
        <4>. HIDE DEF s
        <4>3. Len(s) = Len(outFile) /\ \A j \in 1..Len(outFile) : s[j] = (k + 1) + j - 1
          BY <4>1, <4>2
        <4>4. \A j \in 1..Len(outFile) : outFile[j] = s[j]
          <5>1. \A j \in 1..Len(outFile) : (k + 1) + j - 1 = stream - Len(outFile) + j
            BY <3>1, <3>2, <3>4
          <5>. QED
            BY <3>3, <4>3, <5>1
        <4>5. outFile = s
          BY <3>1, <4>2, <4>3, <4>4, SeqEqual
        <4>. QED
          BY <4>5 DEF s
      <3>6. Len(outFile) = 0 => outFile = <<>>
        BY <3>1, EmptySeq
      <3>. QED
        BY <3>3, <3>4, <3>5, <3>6 DEF Cut
    <2>. QED
      BY <2>1, <2>2 DEF NewestKept
  <1>. QED
    BY <1>1, LogInvCorrect, PTL

\* A file is written or emptied only by an operation that found that very file,
\* safe, under its managed name when it began, however names and links change
\* meanwhile (writer_unix.go: enforceBound, openWithLimit; path_unix.go:
\* validateOpenPath).
THEOREM CheckedCorrect == LogSpec => OnlyCheckedFilesChange
  <1>1. ASSUME LogInv, LogNext, NEW f \in 1..Len(files), files'[f].bytes # files[f].bytes
        PROVE  f \in trusted
    <2>1. FilesOK /\ TrustOK /\ outFd \in 1..Len(files) /\ <<>> \in Seq(Nat)
      BY <1>1 DEF LogInv, FilesOK
    <2>2. CASE LogTruncate
      BY <1>1, <2>1, <2>2, FillEffect DEF LogTruncate, At, TrustOK
    <2>3. CASE LogPut
      <3>1. PICK k \in 1..Len(writer.todo) : Fill(outFd, outFile \o SubSeq(writer.todo, 1, k))
        BY <2>3 DEF LogPut
      <3>2. outFile \in Seq(Nat) /\ writer.todo \in Seq(Nat)
        BY <1>1 DEF LogInv, LogCore, LogType, WriterType
      <3>3. outFile \o SubSeq(writer.todo, 1, k) \in Seq(Nat)
        BY <3>2
      <3>4. f = outFd
        BY <1>1, <2>1, <3>1, <3>3, FillEffect
      <3>. QED
        BY <2>1, <2>3, <3>4 DEF LogPut, TrustOK
    <2>4. CASE LogErrorTruncate
      <3>1. errFd \in 1..Len(files) /\ errFd \in trusted /\ Fill(errFd, <<>>)
        BY <2>1, <2>4 DEF LogErrorTruncate, At, TrustOK, FilesOK
      <3>. QED
        BY <1>1, <2>1, <3>1, FillEffect
    <2>5. ~LogRename /\ ~LogLink
      BY <1>1, <2>1, RenameEffect, LinkEffect
    <2>6. ~LogOpen
      <3>. SUFFICES ASSUME LogOpen PROVE FALSE
        OBVIOUS
      <3>1. [bytes |-> <<>>, safe |-> TRUE] \in FileType
        BY DEF FileType
      <3>. QED
        BY <1>1, <2>1, <3>1, AppendEffect DEF LogOpen
    <2>7. ~LogOpenError /\ ~LogBound /\ ~LogWrite /\ ~LogDone /\ ~LogErrorCheck /\ ~LogPutFails /\ ~LogKill
      BY <1>1 DEF LogOpenError, LogBound, LogWrite, LogDone, LogErrorCheck, LogPutFails, LogKill
    <2>. QED
      BY <1>1, <2>2, <2>3, <2>4, <2>5, <2>6, <2>7 DEF LogNext
  <1>2. LogInv /\ [LogNext]_logVars =>
            [\A f \in 1..Len(files) : files'[f].bytes # files[f].bytes => f \in trusted]_logVars
    BY <1>1
  <1>. QED
    BY <1>2, LogInvCorrect, PTL DEF LogSpec, OnlyCheckedFilesChange

(***************************************************************************)
(* The compaction of the tables.                                           *)
(***************************************************************************)

EvaluationType == [id : Nat, ts : Nat]
DecisionType == [evaluation : Nat, ts : Nat, result : {"refused", "cooldown", "candidate"}, until : Nat]
PolicyType == [evaluations : SUBSET EvaluationType, decisions : SUBSET DecisionType]
GhostType == [newest : Nat, current : SUBSET DecisionType, cooling : Nat,
              open : SUBSET Nat, held : SUBSET Nat, gone : SUBSET Nat]

\* The types of the clocks, of the policy tables and of what was promised.
RetType ==
    /\ retNow \in Nat /\ retSeq \in Nat /\ retPolicy \in PolicyType /\ retGhost \in GhostType

\* Ids are never reused, an evaluation has at most one decision, and a cooldown
\* that still runs is that of the newest candidate.
PolicyOK ==
    /\ \A e \in retPolicy.evaluations : e.id <= retSeq
    /\ \A x, y \in retPolicy.decisions : x.evaluation = y.evaluation => x = y
    /\ \A x \in retPolicy.decisions : \E e \in retPolicy.evaluations : e.id = x.evaluation
    /\ retGhost.cooling > retNow =>
          \E c \in retPolicy.decisions :
              /\ c.result = "candidate" /\ c.until = retGhost.cooling
              /\ \A x \in retPolicy.decisions : x.result = "candidate" => x.evaluation <= c.evaluation
    /\ retGhost.newest > 0 =>
          /\ Newest(retPolicy.evaluations, retGhost.newest)
          /\ {x \in retPolicy.decisions : x.evaluation = retGhost.newest} = retGhost.current

\* The newest candidate is the one LastCandidateCooldown reads.
LEMMA CooldownRead ==
    ASSUME RetType, NEW c \in retPolicy.decisions, c.result = "candidate",
           \A x, y \in retPolicy.decisions : x.evaluation = y.evaluation => x = y,
           \A x \in retPolicy.decisions : x.result = "candidate" => x.evaluation <= c.evaluation
    PROVE  LastCandidateCooldown(retPolicy) = c.until
  <1>. DEFINE S == {x \in retPolicy.decisions : x.result = "candidate"}
              m == CHOOSE x \in S : \A e \in S : e.evaluation <= x.evaluation
  <1>1. \A x \in retPolicy.decisions : x.evaluation \in Nat
    BY DEF RetType, PolicyType, DecisionType
  <1>2. c \in S /\ \A e \in S : e.evaluation <= c.evaluation
    OBVIOUS
  <1>3. m \in S /\ \A e \in S : e.evaluation <= m.evaluation
    BY <1>2
  <1>4. m.evaluation <= c.evaluation /\ c.evaluation <= m.evaluation /\ m \in retPolicy.decisions
    BY <1>2, <1>3
  <1>. HIDE DEF m
  <1>5. m.evaluation = c.evaluation
    BY <1>1, <1>4
  <1>6. m = c
    BY <1>4, <1>5
  <1>7. S # {}
    BY <1>2
  <1>. QED
    BY <1>6, <1>7 DEF LastCandidateCooldown, m

\* One pass over the policy tables, whatever the window: the newest evaluation,
\* its decisions and the candidate whose cooldown runs are kept, and an
\* evaluation is kept as long as one of its decisions is.
LEMMA PolicyPassKeeps ==
    ASSUME RetType, PolicyOK, NEW w, retPolicy' = PolicyPass(retPolicy, w),
           UNCHANGED <<retNow, retSeq, retGhost>>
    PROVE  retPolicy' \in PolicyType /\ PolicyOK'
  <1>. DEFINE ev == retPolicy.evaluations
              de == retPolicy.decisions
              kept == {x \in de : ~(/\ Old(x.ts, w.actions)
                                    /\ ~Newest(ev, x.evaluation)
                                    /\ x.result # "candidate" \/ x.until <= retNow)}
              held == {e \in ev : \/ ~Old(e.ts, w.actions) \/ Newest(ev, e.id)
                                  \/ \E x \in kept : x.evaluation = e.id}
  <1>1. retPolicy' = [evaluations |-> held, decisions |-> kept]
    BY DEF PolicyPass
  <1>2. ev \subseteq EvaluationType /\ de \subseteq DecisionType
    BY DEF RetType, PolicyType
  <1>3. kept \subseteq de /\ held \subseteq ev
    OBVIOUS
  <1>4. /\ \A x \in de : Newest(ev, x.evaluation) => x \in kept
        /\ \A x \in de : x.result = "candidate" /\ ~(x.until <= retNow) => x \in kept
        /\ \A e \in ev : Newest(ev, e.id) => e \in held
        /\ \A e \in ev : (\E x \in kept : x.evaluation = e.id) => e \in held
    OBVIOUS
  <1>. HIDE DEF kept, held
  <1>5. retPolicy'.evaluations = held /\ retPolicy'.decisions = kept
    BY <1>1
  <1>6. retPolicy' \in PolicyType
    BY <1>1, <1>2, <1>3 DEF PolicyType
  <1>7. \A x \in kept : \E e \in held : e.id = x.evaluation
    BY <1>3, <1>4 DEF PolicyOK
  <1>8. ASSUME retGhost.cooling > retNow
        PROVE  \E c \in kept : /\ c.result = "candidate" /\ c.until = retGhost.cooling
                               /\ \A x \in kept : x.result = "candidate" => x.evaluation <= c.evaluation
    <2>1. PICK c \in de : /\ c.result = "candidate" /\ c.until = retGhost.cooling
                          /\ \A x \in de : x.result = "candidate" => x.evaluation <= c.evaluation
      BY <1>8 DEF PolicyOK
    <2>2. ~(c.until <= retNow)
      BY <1>8, <2>1 DEF RetType, GhostType
    <2>3. c \in kept
      BY <1>4, <2>1, <2>2
    <2>. QED
      BY <1>3, <2>1, <2>3
  <1>9. ASSUME retGhost.newest > 0
        PROVE  /\ Newest(held, retGhost.newest)
               /\ {x \in kept : x.evaluation = retGhost.newest} = retGhost.current
    <2>1. Newest(ev, retGhost.newest) /\ {x \in de : x.evaluation = retGhost.newest} = retGhost.current
      BY <1>9 DEF PolicyOK
    <2>2. Newest(held, retGhost.newest)
      BY <1>3, <1>4, <2>1 DEF Newest
    <2>3. \A x \in de : x.evaluation = retGhost.newest => x \in kept
      BY <1>4, <2>1
    <2>4. {x \in kept : x.evaluation = retGhost.newest} = {x \in de : x.evaluation = retGhost.newest}
      BY <1>3, <2>3
    <2>. QED
      BY <2>1, <2>2, <2>4
  <1>10. /\ \A e \in held : e.id <= retSeq
         /\ \A x, y \in kept : x.evaluation = y.evaluation => x = y
    BY <1>3 DEF PolicyOK
  <1>. QED
    BY <1>5, <1>6, <1>7, <1>8, <1>9, <1>10 DEF PolicyOK

\* A bounded set of naturals that is not empty has a greatest element.
LEMMA MaxInSet ==
    ASSUME NEW S \in SUBSET Nat, S # {}, NEW n \in Nat, \A x \in S : x <= n
    PROVE  \E m \in S : \A y \in S : y <= m
  <1>. DEFINE T == {n - x : x \in S}
  <1>1. T \in SUBSET Nat /\ T # {}
    <2>1. \A x \in S : n - x \in Nat
      OBVIOUS
    <2>2. PICK x \in S : n - x \in T
      OBVIOUS
    <2>. QED
      BY <2>1, <2>2
  <1>. HIDE DEF T
  <1>2. Min(T) \in T /\ \A y \in T : Min(T) <= y
    BY <1>1, MinInSet
  <1>3. PICK m \in S : Min(T) = n - m
    BY <1>2 DEF T
  <1>4. \A y \in S : n - m <= n - y
    BY <1>2, <1>3 DEF T
  <1>. QED
    BY <1>4

\* The cooldown that is read is a time.
LEMMA CooldownType ==
    ASSUME RetType, PolicyOK
    PROVE  LastCandidateCooldown(retPolicy) \in Nat
  <1>. DEFINE S == {x \in retPolicy.decisions : x.result = "candidate"}
              T == {x.evaluation : x \in S}
              m == CHOOSE x \in S : \A e \in S : e.evaluation <= x.evaluation
  <1>1. retPolicy.decisions \subseteq DecisionType /\ retPolicy.evaluations \subseteq EvaluationType /\ retSeq \in Nat
    BY DEF RetType, PolicyType
  <1>2. CASE S = {}
    BY <1>2 DEF LastCandidateCooldown
  <1>3. CASE S # {}
    <2>1. T \in SUBSET Nat /\ T # {}
      BY <1>1, <1>3 DEF DecisionType
    <2>2. \A x \in T : x <= retSeq
      BY DEF PolicyOK
    <2>. HIDE DEF T
    <2>3. PICK b \in T : \A y \in T : y <= b
      BY <1>1, <2>1, <2>2, MaxInSet
    <2>4. \E x \in S : \A e \in S : e.evaluation <= x.evaluation
      BY <2>3 DEF T
    <2>5. m \in S
      BY <2>4
    <2>6. m.until \in Nat
      BY <1>1, <2>5 DEF DecisionType
    <2>. QED
      BY <1>3, <2>6 DEF LastCandidateCooldown
  <1>. QED
    BY <1>2, <1>3

\* A committed evaluation.
LEMMA EvaluateKeeps ==
    ASSUME RetType, PolicyOK, RetEvaluate
    PROVE  RetType' /\ PolicyOK'
  <1>1. /\ retNow \in Nat /\ retSeq \in Nat /\ retPolicy \in PolicyType /\ retGhost \in GhostType
        /\ retPolicy.evaluations \subseteq EvaluationType /\ retPolicy.decisions \subseteq DecisionType
        /\ UNCHANGED retNow
    BY DEF RetType, PolicyType, RetEvaluate
  <1>. DEFINE ev == retPolicy.evaluations
              de == retPolicy.decisions
              id == retSeq + 1
              cooling == LastCandidateCooldown(retPolicy)
              result(match) == IF match = "refused" THEN "refused"
                               ELSE IF cooling > retNow THEN "cooldown" ELSE "candidate"
              until(match) == CASE result(match) = "refused" -> 0 [] result(match) = "cooldown" -> cooling
                                [] OTHER -> retNow + RetCooldown
              row(match) == [evaluation |-> id, ts |-> retNow, result |-> result(match), until |-> until(match)]
              new(match) == IF match = "none" THEN {} ELSE {row(match)}
  <1>2. PICK match \in {"none", "refused", "matched"} :
          /\ retSeq' = id
          /\ retPolicy' = [evaluations |-> ev \cup {[id |-> id, ts |-> retNow]}, decisions |-> de \cup new(match)]
          /\ retGhost' = [retGhost EXCEPT !.newest = id, !.current = new(match),
                            !.cooling = IF match = "matched" /\ result(match) = "candidate" THEN until(match) ELSE @]
    BY DEF RetEvaluate
  <1>3. cooling \in Nat /\ RetCooldown \in Nat
    BY CooldownType, RetentionAssumption
  <1>4. PICK r \in {"refused", "cooldown", "candidate"}, u \in Nat :
            r = result(match) /\ u = until(match) /\ (match = "refused" => r = "refused")
            /\ (cooling > retNow => r # "candidate")
    <2>1. result(match) \in {"refused", "cooldown", "candidate"} /\ (match = "refused" => result(match) = "refused")
          /\ (cooling > retNow => result(match) # "candidate")
      OBVIOUS
    <2>. HIDE DEF result, cooling
    <2>2. until(match) \in Nat
      BY <1>1, <1>3, <2>1
    <2>. HIDE DEF until
    <2>. QED
      BY <2>1, <2>2
  <1>5. PICK new1 : new1 = new(match)
    OBVIOUS
  <1>6. PICK n : n = [evaluation |-> id, ts |-> retNow, result |-> r, until |-> u]
    OBVIOUS
  <1>7. n \in DecisionType /\ n.evaluation = id /\ n.result = r /\ n.until = u
    BY <1>1, <1>6 DEF DecisionType
  <1>8. new1 = IF match = "none" THEN {} ELSE {n}
    BY <1>4, <1>5, <1>6
  <1>9. retGhost' = [retGhost EXCEPT !.newest = id, !.current = new1,
                            !.cooling = IF match = "matched" /\ r = "candidate" THEN u ELSE retGhost.cooling]
    BY <1>2, <1>4, <1>5
  <1>10. retPolicy'.evaluations = ev \cup {[id |-> id, ts |-> retNow]} /\ retPolicy'.decisions = de \cup new1
    BY <1>2, <1>5
  <1>11. retPolicy' = [evaluations |-> ev \cup {[id |-> id, ts |-> retNow]}, decisions |-> de \cup new1]
    BY <1>2, <1>5
  <1>. HIDE DEF new, row, until, result, cooling
  <1>12. new1 \subseteq DecisionType /\ \A x \in new1 : x = n
    BY <1>7, <1>8
  <1>13. /\ retGhost' \in GhostType /\ retGhost'.newest = id /\ retGhost'.current = new1
         /\ retGhost'.cooling = IF match = "matched" /\ r = "candidate" THEN u ELSE retGhost.cooling
    <2>1. PICK v \in Nat : v = IF match = "matched" /\ r = "candidate" THEN u ELSE retGhost.cooling
      <3>1. retGhost.cooling \in Nat
        BY <1>1 DEF GhostType
      <3>. QED
        BY <3>1
    <2>2. retGhost' = [retGhost EXCEPT !.newest = id, !.current = new1, !.cooling = v] /\ id \in Nat
      BY <1>1, <1>9, <2>1
    <2>3. retGhost' \in GhostType /\ retGhost'.newest = id /\ retGhost'.current = new1 /\ retGhost'.cooling = v
      <3>. HIDE DEF id
      <3>. QED
        BY <1>1, <1>12, <2>2 DEF GhostType
    <2>. QED
      BY <2>1, <2>3
  <1>14. PICK e1 \in EvaluationType : e1 = [id |-> id, ts |-> retNow] /\ e1.id = id
    <2>1. [id |-> id, ts |-> retNow] \in EvaluationType /\ [id |-> id, ts |-> retNow].id = id
      BY <1>1 DEF EvaluationType
    <2>. QED
      BY <2>1
  <1>15. retPolicy' \in PolicyType
    BY <1>1, <1>11, <1>12, <1>14 DEF PolicyType
  <1>16. RetType'
    BY <1>1, <1>2, <1>13, <1>15 DEF RetType
  <1>17. /\ \A e \in ev : e.id \in Nat /\ e.id <= retSeq
         /\ \A x \in de : x.evaluation \in Nat /\ x.evaluation <= retSeq
    BY <1>1 DEF PolicyOK, EvaluationType, DecisionType
  <1>18. \A e \in retPolicy'.evaluations : e.id <= retSeq'
    BY <1>1, <1>2, <1>10, <1>14, <1>17
  <1>19. \A x, y \in retPolicy'.decisions : x.evaluation = y.evaluation => x = y
    <2>1. \A x \in de : x.evaluation # id
      BY <1>1, <1>17
    <2>. QED
      BY <1>7, <1>10, <1>12, <2>1 DEF PolicyOK
  <1>20. \A x \in retPolicy'.decisions : \E e \in retPolicy'.evaluations : e.id = x.evaluation
    BY <1>7, <1>10, <1>12, <1>14 DEF PolicyOK
  <1>21. ASSUME retGhost'.cooling > retNow
         PROVE  \E c \in retPolicy'.decisions :
                    /\ c.result = "candidate" /\ c.until = retGhost'.cooling
                    /\ \A x \in retPolicy'.decisions : x.result = "candidate" => x.evaluation <= c.evaluation
    <2>1. CASE match = "matched" /\ r = "candidate"
      <3>1. n \in retPolicy'.decisions
        BY <1>8, <1>10, <2>1
      <3>2. \A x \in retPolicy'.decisions : x.evaluation <= n.evaluation
        BY <1>1, <1>7, <1>10, <1>12, <1>17
      <3>. QED
        BY <1>7, <1>13, <2>1, <3>1, <3>2
    <2>2. CASE ~(match = "matched" /\ r = "candidate")
      <3>1. retGhost.cooling > retNow /\ retGhost'.cooling = retGhost.cooling
        BY <1>13, <1>21, <2>2
      <3>2. PICK c \in de : /\ c.result = "candidate" /\ c.until = retGhost.cooling
                            /\ \A x \in de : x.result = "candidate" => x.evaluation <= c.evaluation
        BY <3>1 DEF PolicyOK
      <3>3. cooling = retGhost.cooling
        BY <3>2, CooldownRead DEF PolicyOK, cooling
      <3>4. r # "candidate"
        BY <1>4, <3>1, <3>3
      <3>. QED
        BY <1>7, <1>10, <1>12, <3>1, <3>2, <3>4
    <2>. QED
      BY <2>1, <2>2
  <1>22. Newest(retPolicy'.evaluations, id)
    BY <1>1, <1>10, <1>14, <1>17 DEF Newest
  <1>23. {x \in retPolicy'.decisions : x.evaluation = id} = new1
    <2>1. \A x \in de : x.evaluation # id
      BY <1>1, <1>17
    <2>. QED
      BY <1>7, <1>10, <1>12, <2>1
  <1>. QED
    BY <1>1, <1>13, <1>16, <1>18, <1>19, <1>20, <1>21, <1>22, <1>23 DEF PolicyOK

\* A step that adds no evaluation: time and ids may go on.
LEMMA PolicyFrame ==
    ASSUME RetType, PolicyOK, UNCHANGED retPolicy, retNow' \in Nat, retSeq' \in Nat,
           retNow <= retNow', retSeq <= retSeq', retGhost' \in GhostType,
           retGhost'.newest = retGhost.newest, retGhost'.current = retGhost.current,
           retGhost'.cooling = retGhost.cooling
    PROVE  RetType' /\ PolicyOK'
  <1>1. RetType'
    BY DEF RetType
  <1>2. \A e \in retPolicy.evaluations : e.id <= retSeq'
    <2>1. \A e \in retPolicy.evaluations : e.id \in Nat /\ e.id <= retSeq
      BY DEF RetType, PolicyType, EvaluationType, PolicyOK
    <2>. QED
      BY <2>1 DEF RetType
  <1>3. retGhost'.cooling > retNow' => retGhost.cooling > retNow
    BY DEF RetType, GhostType
  <1>. QED
    BY <1>1, <1>2, <1>3 DEF PolicyOK

ResultTypes == {"attempting", "purging", "partial", "done", "failed"}
TreeRowType == [worktree : RetWorktrees, registered : BOOLEAN,
                state : {"active", "missing", "unknown", "retired", "removed"}, seen : Nat, removed : Nat]

TreeActionType == [id : Nat, subject : RetWorktrees, kind : {"retire", "restore", "purge"},
                   ts : Nat, result : ResultTypes]

TreeType == [rows : SUBSET TreeRowType, actions : SUBSET TreeActionType]
CacheActionType == [id : Nat, kind : {"quarantine", "restore", "purge"}, ts : Nat, result : ResultTypes]

\* A worktree has at most one row, and one that is recorded as removed is gone.
TreeOK ==
    /\ retTree \in TreeType
    /\ \A r, s \in retTree.rows : r.worktree = s.worktree => r = s
    /\ \A r \in retTree.rows : r.state = "removed" => r.worktree \in retGhost.gone

\* The row of an artifact outlives its quarantine row and its unresolved actions,
\* and no observation or decision outlives its evaluation.
CacheOK ==
    /\ retCache = [evaluations |-> retCache.evaluations, observations |-> retCache.observations,
                   decisions |-> retCache.decisions, actions |-> retCache.actions,
                   quarantine |-> retCache.quarantine, artifact |-> retCache.artifact]
    /\ retCache.actions \subseteq CacheActionType
    /\ (\E a \in retCache.actions : a.result \in Unresolved) => retCache.artifact # {}
    /\ (\E q \in retCache.quarantine : q.status = "quarantined") => retCache.artifact # {}
    /\ \A o \in retCache.observations \cup retCache.decisions :
          \E e \in retCache.evaluations : e.id = o.evaluation

\* TracesKept by table: what is held aside and what is unresolved.
TreeHeld(x) == \E r \in retTree.rows : r.worktree = x /\ r.state = "retired"
CacheHeld == retCache.artifact # {} /\ \E q \in retCache.quarantine : q.status = "quarantined"
TreeOpen(i) ==
    \E a \in retTree.actions :
        /\ a.id = i /\ a.result \in Unresolved
        /\ (\E r \in retTree.rows : r.worktree = a.subject) \/ a.subject \in retGhost.gone

CacheOpen(i) == (\E a \in retCache.actions : a.id = i /\ a.result \in Unresolved) /\ retCache.artifact # {}
TraceOK ==
    /\ \A x \in retGhost.held : IF x \in RetWorktrees THEN TreeHeld(x) ELSE CacheHeld
    /\ \A i \in retGhost.open : TreeOpen(i) \/ CacheOpen(i)

RetInv == RetType /\ PolicyOK /\ TreeOK /\ CacheOK /\ TraceOK

\* The invariant is what the two properties say, and more.
LEMMA RetInvMeans == RetInv => DecisionsKept /\ TracesKept
  <1>. SUFFICES ASSUME RetInv PROVE DecisionsKept /\ TracesKept
    OBVIOUS
  <1>1. ASSUME retGhost.cooling > retNow PROVE LastCandidateCooldown(retPolicy) = retGhost.cooling
    <2>1. PICK c \in retPolicy.decisions :
              /\ c.result = "candidate" /\ c.until = retGhost.cooling
              /\ \A x \in retPolicy.decisions : x.result = "candidate" => x.evaluation <= c.evaluation
      BY <1>1 DEF RetInv, PolicyOK
    <2>. QED
      BY <2>1, CooldownRead DEF RetInv, PolicyOK
  <1>2. DecisionsKept
    BY <1>1 DEF DecisionsKept, RetInv, PolicyOK, CacheOK
  <1>3. \A x : TreeHeld(x) => \E r \in RowOf(x) : r.state = "retired"
    BY DEF TreeHeld, RowOf
  <1>4. \A x : (\E r \in retTree.rows : r.worktree = x) => RowOf(x) # {}
    BY DEF RowOf
  <1>5. TracesKept
    BY <1>3, <1>4 DEF TracesKept, RetInv, TraceOK, CacheHeld, TreeOpen, CacheOpen
  <1>. QED
    BY <1>2, <1>5

\* One pass over the worktree tables, whatever the window.
LEMMA TreePassKeeps ==
    ASSUME TreeOK, NEW w, retTree' = TreePass(retTree, w), UNCHANGED retGhost
    PROVE  /\ TreeOK'
           /\ \A x : TreeHeld(x) => TreeHeld(x)'
           /\ \A i : TreeOpen(i) => TreeOpen(i)'
  <1>. DEFINE actions == {a \in retTree.actions : ~(Old(a.ts, w.actions) /\ a.result \notin Unresolved)}
              rows == {r \in retTree.rows :
                         /\ ~(/\ ~r.registered /\ r.state \notin {"removed", "retired"}
                              /\ Old(r.seen, w.actions) /\ ~OpenOn(actions, r.worktree))
                         /\ ~(r.state = "removed" /\ Old(r.removed, w.actions))}
  <1>1. retTree' = [actions |-> actions, rows |-> rows]
    BY DEF TreePass
  <1>2. actions \subseteq retTree.actions /\ \A a \in retTree.actions : a.result \in Unresolved => a \in actions
    OBVIOUS
  <1>. HIDE DEF actions
  <1>3. /\ rows \subseteq retTree.rows
        /\ \A r \in retTree.rows : r.state = "retired" => r \in rows
        /\ \A r \in retTree.rows : OpenOn(actions, r.worktree) => r \in rows \/ r.state = "removed"
    OBVIOUS
  <1>. HIDE DEF rows
  <1>4. retTree'.rows = rows /\ retTree'.actions = actions
    BY <1>1
  <1>5. TreeOK'
    BY <1>1, <1>2, <1>3, <1>4 DEF TreeOK, TreeType
  <1>6. \A x : TreeHeld(x) => TreeHeld(x)'
    BY <1>3, <1>4 DEF TreeHeld
  <1>7. ASSUME NEW i, TreeOpen(i) PROVE TreeOpen(i)'
    <2>1. PICK a \in retTree.actions :
            /\ a.id = i /\ a.result \in Unresolved
            /\ (\E r \in retTree.rows : r.worktree = a.subject) \/ a.subject \in retGhost.gone
      BY <1>7 DEF TreeOpen
    <2>2. a \in actions /\ OpenOn(actions, a.subject)
      BY <1>2, <2>1 DEF OpenOn
    <2>3. \A r \in retTree.rows : r.worktree = a.subject => r \in rows \/ a.subject \in retGhost.gone
      BY <1>3, <2>2 DEF TreeOK
    <2>. QED
      BY <1>4, <2>1, <2>2, <2>3 DEF TreeOpen
  <1>. QED
    BY <1>5, <1>6, <1>7

\* One pass over the cache tables, whatever the window.
LEMMA CachePassKeeps ==
    ASSUME CacheOK, NEW w, retCache' = CachePass(retCache, w)
    PROVE  /\ CacheOK'
           /\ CacheHeld => CacheHeld'
           /\ \A i : CacheOpen(i) => CacheOpen(i)'
  <1>. DEFINE c == CacheChildren(retCache, w)
              evaluations == {e \in retCache.evaluations :
                                 \/ ~Old(e.ts, w.actions) \/ Newest(retCache.evaluations, e.id)
                                 \/ \E o \in c.observations : o.evaluation = e.id
                                 \/ \E x \in c.decisions : x.evaluation = e.id}
              artifact == CacheArtifactRow(retCache, c, evaluations, w)
  <1>1. retCache' = [evaluations |-> evaluations, observations |-> c.observations, decisions |-> c.decisions,
                     actions |-> c.actions, quarantine |-> c.quarantine, artifact |-> artifact]
    BY DEF CachePass
  <1>2. /\ c.observations \subseteq retCache.observations /\ c.decisions \subseteq retCache.decisions
        /\ c.actions \subseteq retCache.actions /\ c.quarantine \subseteq retCache.quarantine
        /\ \A a \in retCache.actions : a.result \in Unresolved => a \in c.actions
        /\ \A q \in retCache.quarantine : q.status = "quarantined" => q \in c.quarantine
    BY DEF CacheChildren
  <1>. HIDE DEF c
  <1>3. /\ evaluations \subseteq retCache.evaluations
        /\ \A o \in c.observations \cup c.decisions :
              \A e \in retCache.evaluations : e.id = o.evaluation => e \in evaluations
    OBVIOUS
  <1>. HIDE DEF evaluations
  <1>4. /\ (\E q \in c.quarantine : q.status = "quarantined") => artifact = retCache.artifact
        /\ (\E a \in c.actions : a.result \in Unresolved) => artifact = retCache.artifact
    BY DEF CacheArtifactRow
  <1>. HIDE DEF artifact
  <1>5. /\ retCache'.evaluations = evaluations /\ retCache'.observations = c.observations
        /\ retCache'.decisions = c.decisions /\ retCache'.actions = c.actions
        /\ retCache'.quarantine = c.quarantine /\ retCache'.artifact = artifact
    BY <1>1
  <1>6. CacheOK'
    <2>1. \A o \in c.observations \cup c.decisions : \E e \in evaluations : e.id = o.evaluation
      BY <1>2, <1>3 DEF CacheOK
    <2>2. (\E a \in c.actions : a.result \in Unresolved) => artifact # {}
      BY <1>2, <1>4 DEF CacheOK
    <2>3. (\E q \in c.quarantine : q.status = "quarantined") => artifact # {}
      BY <1>2, <1>4 DEF CacheOK
    <2>4. c.actions \subseteq CacheActionType
      BY <1>2 DEF CacheOK
    <2>. QED
      BY <1>1, <1>5, <2>1, <2>2, <2>3, <2>4 DEF CacheOK
  <1>7. CacheHeld => CacheHeld'
    BY <1>2, <1>4, <1>5 DEF CacheHeld
  <1>8. \A i : CacheOpen(i) => CacheOpen(i)'
    BY <1>2, <1>4, <1>5 DEF CacheOpen
  <1>. QED
    BY <1>6, <1>7, <1>8

\* A transaction of the compaction keeps the invariant, whatever the window.
LEMMA PassKeeps ==
    ASSUME RetInv, NEW w, PassOver(w), UNCHANGED <<retNow, retSeq, retGhost>>
    PROVE  RetInv'
  <1>1. RetType' /\ PolicyOK'
    BY PolicyPassKeeps DEF PassOver, RetInv, RetType
  <1>2. TreeOK' /\ (\A x : TreeHeld(x) => TreeHeld(x)') /\ (\A i : TreeOpen(i) => TreeOpen(i)')
    BY TreePassKeeps DEF PassOver, RetInv
  <1>3. CacheOK' /\ (CacheHeld => CacheHeld') /\ (\A i : CacheOpen(i) => CacheOpen(i)')
    BY CachePassKeeps DEF PassOver, RetInv
  <1>4. TraceOK'
    BY <1>2, <1>3 DEF RetInv, TraceOK
  <1>. QED
    BY <1>1, <1>2, <1>3, <1>4 DEF RetInv

\* Rows that may be stored together: one for a worktree, and none of them removed.
Batch(rows) ==
    /\ rows \subseteq TreeRowType
    /\ \A r, s \in rows : r.worktree = s.worktree => r = s
    /\ \A r \in rows : r.state # "removed"

\* A table that a scan may start from: the same actions, and a row for every row,
\* retired for a retired one.
Covers(t) ==
    /\ t = [rows |-> t.rows, actions |-> retTree.actions]
    /\ t.rows \subseteq TreeRowType
    /\ \A r, s \in t.rows : r.worktree = s.worktree => r = s
    /\ \A r \in t.rows : r.state = "removed" => r.worktree \in retGhost.gone
    /\ \A r \in retTree.rows :
          \E s \in t.rows : s.worktree = r.worktree /\ (r.state = "retired" => s.state = "retired")

\* What storing a batch keeps: the retired rows outside the batch, or retired in
\* it, and everything an unresolved action is about.
LEMMA StoreKeeps ==
    ASSUME TreeOK, NEW t, Covers(t), NEW batch, Batch(batch), retTree' = Store(t, batch),
           retGhost'.gone = retGhost.gone
    PROVE  /\ TreeOK'
           /\ \A x : TreeHeld(x) /\ (\A b \in batch : b.worktree = x => b.state = "retired") => TreeHeld(x)'
           /\ \A i : TreeOpen(i) => TreeOpen(i)'
  <1>. DEFINE actions == retTree.actions
              all == {r \in t.rows : \A b \in batch : b.worktree # r.worktree} \cup batch
              u == [rows |-> all, actions |-> actions]
              rows == {r \in all : \/ r.registered \/ r.state \in {"removed", "retired"}
                                   \/ OpenOn(actions, r.worktree) \/ r \in Kept(u)}
  <1>1. retTree' = [rows |-> rows, actions |-> actions]
    <2>1. t = [rows |-> t.rows, actions |-> actions]
      BY Zenon DEF Covers
    <2>2. [t EXCEPT !.rows = all] = u
      <3>. HIDE DEF all, actions
      <3>. QED
        BY <2>1
    <2>3. retTree' = PruneAbsentWorktrees(u)
      <3>. HIDE DEF u
      <3>. QED
        BY <2>2 DEF Store
    <2>. HIDE DEF all, actions
    <2>4. u.rows = all /\ u.actions = actions
      OBVIOUS
    <2>5. PruneAbsentWorktrees(u) = [u EXCEPT !.rows = rows]
      BY <2>4 DEF PruneAbsentWorktrees
    <2>6. [u EXCEPT !.rows = rows] = [rows |-> rows, actions |-> actions]
      <3>. HIDE DEF rows
      <3>. QED
        OBVIOUS
    <2>. QED
      BY <2>3, <2>5, <2>6
  <1>2. /\ rows \subseteq all
        /\ \A r \in all : r.state = "retired" => r \in rows
        /\ \A r \in all : OpenOn(actions, r.worktree) => r \in rows
    <2>. HIDE DEF all, u
    <2>. QED
      OBVIOUS
  <1>. HIDE DEF rows, u
  <1>3. retTree'.rows = rows /\ retTree'.actions = actions
    BY <1>1
  <1>4. /\ all \subseteq TreeRowType
        /\ \A r, s \in all : r.worktree = s.worktree => r = s
        /\ \A r \in all : r.state = "removed" => r.worktree \in retGhost.gone
    BY DEF Covers, Batch
  <1>5. \A r \in retTree.rows : \E s \in all : s.worktree = r.worktree
    BY DEF Covers
  <1>6. ASSUME NEW r \in retTree.rows, r.state = "retired",
               \A b \in batch : b.worktree = r.worktree => b.state = "retired"
        PROVE  \E s \in all : s.worktree = r.worktree /\ s.state = "retired"
    <2>1. PICK s \in t.rows : s.worktree = r.worktree /\ s.state = "retired"
      BY <1>6 DEF Covers
    <2>2. CASE \E b \in batch : b.worktree = r.worktree
      BY <1>6, <2>2
    <2>3. CASE \A b \in batch : b.worktree # r.worktree
      BY <2>1, <2>3
    <2>. QED
      BY <2>2, <2>3
  <1>. HIDE DEF all
  <1>7. TreeOK'
    <2>1. actions \subseteq TreeActionType
      BY DEF TreeOK, TreeType
    <2>2. retTree' \in TreeType
      <3>. HIDE DEF actions
      <3>. QED
        BY <1>1, <1>2, <1>4, <2>1 DEF TreeType
    <2>. QED
      BY <1>2, <1>3, <1>4, <2>2 DEF TreeOK
  <1>8. ASSUME NEW x, TreeHeld(x), \A b \in batch : b.worktree = x => b.state = "retired"
        PROVE  TreeHeld(x)'
    <2>1. PICK r \in retTree.rows : r.worktree = x /\ r.state = "retired"
      BY <1>8 DEF TreeHeld
    <2>2. PICK s \in all : s.worktree = x /\ s.state = "retired"
      BY <1>6, <1>8, <2>1
    <2>. QED
      BY <1>2, <1>3, <2>2 DEF TreeHeld
  <1>9. ASSUME NEW i, TreeOpen(i) PROVE TreeOpen(i)'
    <2>1. PICK a \in actions :
            /\ a.id = i /\ a.result \in Unresolved
            /\ (\E r \in retTree.rows : r.worktree = a.subject) \/ a.subject \in retGhost.gone
      BY <1>9 DEF TreeOpen
    <2>2. OpenOn(actions, a.subject)
      BY <2>1 DEF OpenOn
    <2>3. ASSUME NEW r \in retTree.rows, r.worktree = a.subject
          PROVE  \E s \in rows : s.worktree = a.subject
      <3>1. PICK s \in all : s.worktree = r.worktree
        BY <1>5
      <3>. QED
        BY <1>2, <2>2, <2>3, <3>1
    <2>. QED
      BY <1>3, <2>1, <2>3 DEF TreeOpen
  <1>. QED
    BY <1>7, <1>8, <1>9

\* The table as it is, and the table with every live row reset, may be started from.
LEMMA ScanStarts ==
    ASSUME TreeOK
    PROVE  Covers(retTree) /\ Covers(ResetInactivity(retTree))
  <1>1. /\ retTree = [rows |-> retTree.rows, actions |-> retTree.actions]
        /\ retTree.rows \subseteq TreeRowType
    BY DEF TreeOK, TreeType
  <1>2. Covers(retTree)
    BY <1>1 DEF Covers, TreeOK
  <1>. DEFINE live == {r \in retTree.rows : r.state \notin {"removed", "retired"}}
              un(r) == [r EXCEPT !.state = "unknown"]
              rows == (retTree.rows \ live) \cup {un(r) : r \in live}
  <1>3. ResetInactivity(retTree) = [rows |-> rows, actions |-> retTree.actions]
    <2>1. ResetInactivity(retTree) = [retTree EXCEPT !.rows = rows]
      BY DEF ResetInactivity, AsUnknown
    <2>. HIDE DEF rows
    <2>. QED
      BY <1>1, <2>1
  <1>4. \A r \in live : un(r) \in TreeRowType /\ un(r).worktree = r.worktree /\ un(r).state = "unknown"
    BY <1>1 DEF TreeRowType
  <1>. HIDE DEF un
  <1>5. /\ rows \subseteq TreeRowType
        /\ \A r, s \in rows : r.worktree = s.worktree => r = s
        /\ \A r \in rows : r.state = "removed" => r.worktree \in retGhost.gone
    BY <1>1, <1>4 DEF TreeOK
  <1>6. \A r \in retTree.rows : \E s \in rows : s.worktree = r.worktree /\ (r.state = "retired" => s.state = "retired")
    BY <1>4
  <1>. HIDE DEF rows
  <1>. QED
    BY <1>2, <1>3, <1>5, <1>6 DEF Covers

\* The rows a scan has read, the records of an inventory, and either of them as
\* unknown, may be stored together.
LEMMA ScanBatches ==
    ASSUME TreeOK, retNow \in Nat
    PROVE  /\ Batch({}) /\ Batch(Kept(retTree))
           /\ \A seen \in SUBSET RetWorktrees : Batch(Observed(seen))
           /\ \A rows : Batch(rows) => Batch(AsUnknown(rows))
           /\ \A rows : Batch(rows) => {r.worktree : r \in AsUnknown(rows)} = {r.worktree : r \in rows}
  <1>1. retTree.rows \subseteq TreeRowType
    BY DEF TreeOK, TreeType
  <1>2. Batch({})
    BY DEF Batch
  <1>3. Kept(retTree) \subseteq retTree.rows /\ \A r \in Kept(retTree) : r.state # "removed"
    BY DEF Kept
  <1>4. Batch(Kept(retTree))
    BY <1>1, <1>3 DEF Batch, TreeOK
  <1>5. ASSUME NEW seen \in SUBSET RetWorktrees PROVE Batch(Observed(seen))
    <2>. DEFINE new(w) == [worktree |-> w, registered |-> TRUE, state |-> "active", seen |-> retNow, removed |-> 0]
                ret(r) == [r EXCEPT !.registered = (r.worktree \in seen), !.seen = retNow]
                mis(r) == [r EXCEPT !.registered = FALSE, !.state = "missing"]
                absent == {s \in Kept(retTree) : s.state # "retired" /\ s.worktree \notin seen}
    <2>1. Observed(seen) = {new(w) : w \in Unlisted(seen)} \cup {ret(r) : r \in ListedRetired} \cup {mis(r) : r \in absent}
      BY DEF Observed
    <2>2. \A w \in Unlisted(seen) : new(w) \in TreeRowType /\ new(w).worktree = w /\ new(w).state = "active" /\ w \in seen
      BY DEF Unlisted, TreeRowType
    <2>3. ASSUME NEW r \in ListedRetired
          PROVE  ret(r) \in TreeRowType /\ ret(r).worktree = r.worktree /\ ret(r).state = "retired"
      <3>1. r \in TreeRowType /\ r.state = "retired"
        BY <1>1, <1>3 DEF ListedRetired
      <3>2. CASE r.worktree \in seen
        <4>1. ret(r) = [r EXCEPT !.registered = TRUE, !.seen = retNow]
          BY <3>2
        <4>. QED
          BY <3>1, <4>1 DEF TreeRowType
      <3>3. CASE r.worktree \notin seen
        <4>0. (r.worktree \in seen) = FALSE
          BY <3>3
        <4>1. ret(r) = [r EXCEPT !.registered = FALSE, !.seen = retNow]
          BY <4>0, Zenon
        <4>. QED
          BY <3>1, <4>1 DEF TreeRowType
      <3>. QED
        BY <3>2, <3>3
    <2>4. \A r \in absent : mis(r) \in TreeRowType /\ mis(r).worktree = r.worktree /\ mis(r).state = "missing"
      BY <1>1, <1>3 DEF TreeRowType
    <2>. HIDE DEF new, ret, mis
    <2>5. ListedRetired \subseteq retTree.rows /\ absent \subseteq retTree.rows
      BY <1>3 DEF ListedRetired
    <2>6. \A w \in Unlisted(seen) : \A r \in ListedRetired : r.worktree # w
      BY DEF Unlisted
    <2>7. \A r \in absent : r.worktree \notin seen /\ r.state # "retired"
      OBVIOUS
    <2>8. \A r \in ListedRetired : r.state = "retired"
      BY DEF ListedRetired
    <2>. HIDE DEF absent
    <2>9. \A r, s \in retTree.rows : r.worktree = s.worktree => r = s
      BY DEF TreeOK
    <2>10. ASSUME NEW r \in Observed(seen), NEW s \in Observed(seen), r.worktree = s.worktree PROVE r = s
      <3>1. \A x \in Observed(seen) : \/ \E w \in Unlisted(seen) : x = new(w)
                                      \/ \E y \in ListedRetired : x = ret(y)
                                      \/ \E y \in absent : x = mis(y)
        BY <2>1
      <3>2. CASE \E w \in Unlisted(seen) : r = new(w)
        BY <2>2, <2>3, <2>4, <2>6, <2>7, <2>10, <3>1, <3>2
      <3>3. CASE \E y \in ListedRetired : r = ret(y)
        BY <2>2, <2>3, <2>4, <2>5, <2>6, <2>7, <2>8, <2>9, <2>10, <3>1, <3>3
      <3>4. CASE \E y \in absent : r = mis(y)
        BY <2>2, <2>3, <2>4, <2>5, <2>6, <2>7, <2>8, <2>9, <2>10, <3>1, <3>4
      <3>. QED
        BY <3>1, <3>2, <3>3, <3>4
    <2>11. Observed(seen) \subseteq TreeRowType /\ \A r \in Observed(seen) : r.state # "removed"
      BY <2>1, <2>2, <2>3, <2>4
    <2>. QED
      BY <2>10, <2>11 DEF Batch
  <1>6. ASSUME NEW rows, Batch(rows)
        PROVE  Batch(AsUnknown(rows)) /\ {r.worktree : r \in AsUnknown(rows)} = {r.worktree : r \in rows}
    <2>. DEFINE un(r) == [r EXCEPT !.state = "unknown"]
    <2>1. AsUnknown(rows) = {un(r) : r \in rows}
      BY DEF AsUnknown
    <2>2. \A r \in rows : un(r) \in TreeRowType /\ un(r).worktree = r.worktree /\ un(r).state = "unknown"
      BY <1>6 DEF Batch, TreeRowType
    <2>. HIDE DEF un
    <2>3. Batch(AsUnknown(rows))
      BY <1>6, <2>1, <2>2 DEF Batch
    <2>. QED
      BY <2>1, <2>2, <2>3
  <1>. QED
    BY <1>2, <1>4, <1>5, <1>6

\* A step of the worktree tables that keeps what is still promised keeps the invariant.
LEMMA TreeFrame ==
    ASSUME RetInv, NEW held, retGhost' = [retGhost EXCEPT !.held = held], held \subseteq retGhost.held,
           retSeq' = retSeq + 1, UNCHANGED <<retNow, retPolicy, retCache>>,
           TreeOK', \A x \in held \cap RetWorktrees : TreeHeld(x)', \A i : TreeOpen(i) => TreeOpen(i)'
    PROVE  RetInv'
  <1>1. /\ CacheOK /\ TraceOK /\ RetType /\ retGhost \in GhostType /\ retSeq \in Nat
    BY DEF RetInv, RetType
  <1>2. held \in SUBSET Nat
    BY <1>1 DEF GhostType
  <1>3. /\ retGhost' \in GhostType /\ retGhost'.held = held /\ retGhost'.open = retGhost.open
        /\ retGhost'.newest = retGhost.newest /\ retGhost'.current = retGhost.current
        /\ retGhost'.cooling = retGhost.cooling /\ retGhost'.gone = retGhost.gone
    BY <1>1, <1>2 DEF GhostType
  <1>4. RetType' /\ PolicyOK'
    BY <1>1, <1>3, PolicyFrame DEF RetInv, RetType
  <1>5. CacheOK' /\ (CacheHeld => CacheHeld') /\ \A i : CacheOpen(i) => CacheOpen(i)'
    BY <1>1 DEF CacheOK, CacheHeld, CacheOpen
  <1>6. TraceOK'
    BY <1>1, <1>3, <1>5 DEF TraceOK
  <1>. QED
    BY <1>4, <1>5, <1>6 DEF RetInv

\* A committed worktree scan: the retired worktrees it has read, or did not see,
\* keep their rows, and so does everything an unresolved action is about.
LEMMA TreeScanKeeps ==
    ASSUME RetInv, RetTreeScan
    PROVE  RetInv'
  <1>1. /\ TreeOK /\ TraceOK /\ retNow \in Nat /\ retGhost \in GhostType
        /\ UNCHANGED <<retNow, retPolicy, retCache>> /\ retSeq' = retSeq + 1
    BY DEF RetInv, RetType, RetTreeScan
  <1>2. PICK seen \in Inventories : /\ retTree' = Store(retTree, Observed(seen))
                                    /\ retGhost' = [retGhost EXCEPT !.held = @ \ Unlisted(seen)]
    BY DEF RetTreeScan
  <1>3. seen \in SUBSET RetWorktrees
    BY <1>2 DEF Inventories
  <1>4. Covers(retTree) /\ Batch(Observed(seen))
    BY <1>1, <1>3, ScanStarts, ScanBatches
  <1>. DEFINE held == retGhost.held \ Unlisted(seen)
  <1>5. retGhost' = [retGhost EXCEPT !.held = held] /\ held \subseteq retGhost.held
    BY <1>1, <1>2 DEF GhostType
  <1>6. retGhost'.gone = retGhost.gone
    BY <1>1, <1>2 DEF GhostType
  <1>7. /\ TreeOK' /\ \A i : TreeOpen(i) => TreeOpen(i)'
        /\ \A x : TreeHeld(x) /\ (\A b \in Observed(seen) : b.worktree = x => b.state = "retired") => TreeHeld(x)'
    BY <1>1, <1>2, <1>4, <1>6, StoreKeeps
  <1>8. ASSUME NEW x \in held \cap RetWorktrees PROVE TreeHeld(x)'
    <2>1. TreeHeld(x) /\ x \notin Unlisted(seen)
      BY <1>1, <1>8 DEF TraceOK
    <2>2. PICK r \in retTree.rows : r.worktree = x /\ r.state = "retired"
      BY <2>1 DEF TreeHeld
    <2>3. Kept(retTree) \subseteq retTree.rows /\ retTree.rows \subseteq TreeRowType
      BY <1>1 DEF Kept, TreeOK, TreeType
    <2>4. ASSUME NEW b \in Observed(seen), b.worktree = x PROVE b.state = "retired"
      <3>1. CASE \E w \in Unlisted(seen) : b = [worktree |-> w, registered |-> TRUE, state |-> "active",
                                               seen |-> retNow, removed |-> 0]
        BY <2>1, <2>4, <3>1
      <3>2. CASE \E s \in ListedRetired : b = [s EXCEPT !.registered = (s.worktree \in seen), !.seen = retNow]
        <4>1. PICK s \in ListedRetired : b = [s EXCEPT !.registered = (s.worktree \in seen), !.seen = retNow]
          BY <3>2
        <4>2. s \in TreeRowType /\ s.state = "retired"
          BY <2>3 DEF ListedRetired
        <4>. QED
          BY <4>1, <4>2 DEF TreeRowType
      <3>3. CASE \E s \in Kept(retTree) : s.state # "retired" /\ b = [s EXCEPT !.registered = FALSE, !.state = "missing"]
        <4>1. PICK s \in Kept(retTree) : s.state # "retired" /\ b = [s EXCEPT !.registered = FALSE, !.state = "missing"]
          BY <3>3
        <4>2. s \in TreeRowType /\ s \in retTree.rows
          BY <2>3
        <4>3. s.worktree = x
          BY <2>4, <4>1, <4>2 DEF TreeRowType
        <4>. QED
          BY <1>1, <2>2, <4>1, <4>2, <4>3 DEF TreeOK
      <3>4. \/ \E w \in Unlisted(seen) : b = [worktree |-> w, registered |-> TRUE, state |-> "active",
                                              seen |-> retNow, removed |-> 0]
            \/ \E s \in ListedRetired : b = [s EXCEPT !.registered = (s.worktree \in seen), !.seen = retNow]
            \/ \E s \in Kept(retTree) : s.state # "retired" /\ b = [s EXCEPT !.registered = FALSE, !.state = "missing"]
        BY <2>4, Zenon DEF Observed
      <3>. QED
        BY <3>1, <3>2, <3>3, <3>4
    <2>. QED
      BY <1>7, <2>1, <2>4
  <1>. HIDE DEF held
  <1>. QED
    BY <1>1, <1>5, <1>7, <1>8, TreeFrame

\* A failed scan: what it rewrites as unknown is no longer promised, the rest is.
LEMMA TreeScanFailsKeeps ==
    ASSUME RetInv, RetTreeScanFails
    PROVE  RetInv'
  <1>1. /\ TreeOK /\ TraceOK /\ retNow \in Nat /\ retGhost \in GhostType
        /\ UNCHANGED <<retNow, retPolicy, retCache>> /\ retSeq' = retSeq + 1
    BY DEF RetInv, RetType, RetTreeScanFails
  <1>. DEFINE from(reset) == IF reset THEN ResetInactivity(retTree) ELSE retTree
  <1>2. PICK reset \in BOOLEAN, due \in BOOLEAN, batch \in {{}, Kept(retTree)} \cup {Observed(seen) : seen \in Inventories} :
            /\ retTree' = IF due THEN Store(from(reset), AsUnknown(batch)) ELSE from(reset)
            /\ retGhost' = [retGhost EXCEPT !.held = IF due THEN @ \ {r.worktree : r \in batch} ELSE @]
    BY DEF RetTreeScanFails
  <1>3. Batch(batch)
    BY <1>1, <1>2, ScanBatches DEF Inventories
  <1>4. Batch(AsUnknown(batch)) /\ {r.worktree : r \in AsUnknown(batch)} = {r.worktree : r \in batch}
    BY <1>1, <1>3, ScanBatches
  <1>5. Covers(from(reset))
    BY <1>1, ScanStarts
  <1>. HIDE DEF from
  <1>. DEFINE held == IF due THEN retGhost.held \ {r.worktree : r \in batch} ELSE retGhost.held
  <1>6. retGhost' = [retGhost EXCEPT !.held = held] /\ held \subseteq retGhost.held
    BY <1>1, <1>2 DEF GhostType
  <1>7. retGhost'.gone = retGhost.gone
    BY <1>1, <1>2 DEF GhostType
  <1>8. /\ TreeOK' /\ (\A i : TreeOpen(i) => TreeOpen(i)')
        /\ \A x \in held \cap RetWorktrees : TreeHeld(x)'
    <2>1. CASE due
      <3>1. /\ TreeOK' /\ \A i : TreeOpen(i) => TreeOpen(i)'
            /\ \A x : TreeHeld(x) /\ (\A b \in AsUnknown(batch) : b.worktree = x => b.state = "retired") => TreeHeld(x)'
        BY <1>1, <1>2, <1>4, <1>5, <1>7, <2>1, StoreKeeps
      <3>2. ASSUME NEW x \in held \cap RetWorktrees PROVE TreeHeld(x)'
        <4>1. TreeHeld(x) /\ x \notin {r.worktree : r \in batch}
          BY <1>1, <2>1, <3>2 DEF TraceOK
        <4>2. \A b \in AsUnknown(batch) : b.worktree # x
          BY <1>4, <4>1
        <4>. QED
          BY <3>1, <4>1, <4>2
      <3>. QED
        BY <3>1, <3>2
    <2>2. CASE ~due
      <3>. DEFINE t == from(reset)
      <3>1. retTree' = t /\ Covers(t)
        BY <1>2, <1>5, <2>2
      <3>. HIDE DEF t
      <3>2. t.actions = retTree.actions /\ retTree.actions \subseteq TreeActionType
        BY <1>1, <3>1 DEF Covers, TreeOK, TreeType
      <3>3. t \in TreeType
        BY <3>1, <3>2 DEF Covers, TreeType
      <3>4. TreeOK'
        BY <1>7, <3>1, <3>3 DEF TreeOK, Covers
      <3>5. \A x : TreeHeld(x) => TreeHeld(x)'
        BY <3>1 DEF TreeHeld, Covers
      <3>6. \A i : TreeOpen(i) => TreeOpen(i)'
        BY <1>7, <3>1, <3>2 DEF TreeOpen, Covers
      <3>7. \A x \in held \cap RetWorktrees : TreeHeld(x)
        BY <1>1, <2>2 DEF TraceOK
      <3>. QED
        BY <3>4, <3>5, <3>6, <3>7
    <2>. QED
      BY <2>1, <2>2
  <1>. HIDE DEF held
  <1>. QED
    BY <1>1, <1>6, <1>8, TreeFrame

\* The intent to act on a worktree is written.
LEMMA TreeBeginKeeps ==
    ASSUME RetInv, RetTreeBegin
    PROVE  RetInv'
  <1>1. /\ TreeOK /\ TraceOK /\ CacheOK /\ RetType /\ retTree \in TreeType /\ retNow \in Nat /\ retSeq \in Nat
        /\ retGhost \in GhostType
        /\ UNCHANGED <<retNow, retPolicy, retCache>> /\ retSeq' = retSeq + 1
    BY DEF RetInv, TreeOK, RetType, RetTreeBegin
  <1>2. retTree.rows \subseteq TreeRowType /\ retTree.actions \subseteq TreeActionType
    BY <1>1 DEF TreeType
  <1>3. PICK n \in Nat : n = retSeq + 1
    BY <1>1
  <1>4. PICK r \in retTree.rows, kind \in {"retire", "restore", "purge"}, result \in {"purging", "attempting"} :
          /\ retTree' = [retTree EXCEPT !.actions = @ \cup
                {[id |-> n, subject |-> r.worktree, kind |-> kind, ts |-> retNow, result |-> result]}]
          /\ retGhost' = [retGhost EXCEPT !.open = @ \cup {n}]
    BY <1>3 DEF RetTreeBegin
  <1>5. PICK a : a = [id |-> n, subject |-> r.worktree, kind |-> kind, ts |-> retNow, result |-> result]
    OBVIOUS
  <1>6. result \in Unresolved /\ result \in ResultTypes /\ r.worktree \in RetWorktrees
    BY <1>2 DEF Unresolved, ResultTypes, TreeRowType
  <1>7. /\ a \in TreeActionType /\ a.id = n /\ a.subject = r.worktree /\ a.result = result
    BY <1>1, <1>5, <1>6 DEF TreeActionType
  <1>8. /\ retTree' = [retTree EXCEPT !.actions = retTree.actions \cup {a}]
        /\ retGhost' = [retGhost EXCEPT !.open = retGhost.open \cup {n}]
    BY <1>4, <1>5
  <1>9. /\ retTree' \in TreeType /\ retTree'.rows = retTree.rows /\ retTree'.actions = retTree.actions \cup {a}
    BY <1>1, <1>7, <1>8 DEF TreeType
  <1>10. /\ retGhost' \in GhostType /\ retGhost'.open = retGhost.open \cup {n}
         /\ retGhost'.newest = retGhost.newest /\ retGhost'.current = retGhost.current
         /\ retGhost'.cooling = retGhost.cooling /\ retGhost'.held = retGhost.held /\ retGhost'.gone = retGhost.gone
    BY <1>1, <1>8 DEF GhostType
  <1>11. TreeOK'
    BY <1>1, <1>9, <1>10 DEF TreeOK
  <1>12. \A i : TreeOpen(i) => TreeOpen(i)'
    BY <1>9, <1>10 DEF TreeOpen
  <1>13. TreeOpen(n)'
    BY <1>6, <1>7, <1>9 DEF TreeOpen
  <1>14. TraceOK'
    BY <1>1, <1>9, <1>10, <1>12, <1>13 DEF TraceOK, TreeHeld, CacheHeld, CacheOpen
  <1>15. RetType' /\ PolicyOK'
    BY <1>1, <1>10, PolicyFrame DEF RetInv
  <1>. QED
    BY <1>1, <1>11, <1>14, <1>15 DEF RetInv, CacheOK

\* The outcome of an action on a worktree, written with the worktree's row.
LEMMA TreeFinishKeeps ==
    ASSUME RetInv, RetTreeFinish
    PROVE  RetInv'
  <1>1. /\ TreeOK /\ TraceOK /\ CacheOK /\ RetType /\ retTree \in TreeType /\ retNow \in Nat /\ retSeq \in Nat
        /\ retGhost \in GhostType /\ RetWorktrees \subseteq Nat
        /\ UNCHANGED <<retNow, retPolicy, retCache, retSeq>>
    BY RetentionAssumption DEF RetInv, TreeOK, RetType, RetTreeFinish
  <1>2. retTree.rows \subseteq TreeRowType /\ retTree.actions \subseteq TreeActionType
    BY <1>1 DEF TreeType
  <1>. DEFINE moved(a, r) == CASE a.kind = "retire" -> [r EXCEPT !.state = "retired", !.registered = TRUE, !.seen = retNow]
                               [] a.kind = "restore" -> [r EXCEPT !.state = "active", !.registered = TRUE, !.seen = retNow]
                               [] OTHER -> [r EXCEPT !.state = "removed", !.registered = FALSE, !.removed = retNow]
  <1>3. PICK a \in retTree.actions, result \in {"done", "failed", "partial"} :
          /\ a.result \in {"attempting", "purging"}
          /\ \E r \in RowOf(a.subject) :
               /\ retTree' = Put([retTree EXCEPT !.actions = (@ \ {a}) \cup {[a EXCEPT !.result = result]}],
                                 IF result = "done" THEN moved(a, r) ELSE r)
               /\ retGhost' = [retGhost EXCEPT !.open = IF result = "partial" THEN @ ELSE @ \ {a.id},
                                 !.held = IF result = "done"
                                          THEN IF a.kind = "retire" THEN @ \cup {a.subject} ELSE @ \ {a.subject}
                                          ELSE @,
                                 !.gone = IF result = "done" /\ a.kind = "purge" THEN @ \cup {a.subject} ELSE @]
    BY Zenon DEF RetTreeFinish
  <1>4. PICK r \in RowOf(a.subject) :
          /\ retTree' = Put([retTree EXCEPT !.actions = (@ \ {a}) \cup {[a EXCEPT !.result = result]}],
                            IF result = "done" THEN moved(a, r) ELSE r)
          /\ retGhost' = [retGhost EXCEPT !.open = IF result = "partial" THEN @ ELSE @ \ {a.id},
                            !.held = IF result = "done"
                                     THEN IF a.kind = "retire" THEN @ \cup {a.subject} ELSE @ \ {a.subject}
                                     ELSE @,
                            !.gone = IF result = "done" /\ a.kind = "purge" THEN @ \cup {a.subject} ELSE @]
    BY Zenon, <1>3
  <1>5. /\ a \in TreeActionType /\ r \in TreeRowType /\ r \in retTree.rows /\ r.worktree = a.subject
        /\ a.subject \in RetWorktrees /\ a.id \in Nat /\ a.kind \in {"retire", "restore", "purge"}
    BY <1>2, <1>4 DEF RowOf, TreeActionType
  <1>6. PICK b \in TreeActionType : b = [a EXCEPT !.result = result] /\ b.id = a.id /\ b.subject = a.subject
                                    /\ b.result = result
    <2>1. /\ [a EXCEPT !.result = result] \in TreeActionType /\ [a EXCEPT !.result = result].id = a.id
          /\ [a EXCEPT !.result = result].subject = a.subject /\ [a EXCEPT !.result = result].result = result
      BY <1>5 DEF TreeActionType, ResultTypes
    <2>. QED
      BY <2>1
  <1>7. /\ moved(a, r) \in TreeRowType /\ moved(a, r).worktree = a.subject
        /\ a.kind = "retire" => moved(a, r).state = "retired"
        /\ moved(a, r).state = "removed" => a.kind = "purge"
    <2>1. CASE a.kind = "retire"
      <3>1. moved(a, r) = [r EXCEPT !.state = "retired", !.registered = TRUE, !.seen = retNow]
        BY <2>1
      <3>. HIDE DEF moved
      <3>. QED
        BY <1>1, <1>5, <2>1, <3>1 DEF TreeRowType
    <2>2. CASE a.kind = "restore"
      <3>1. moved(a, r) = [r EXCEPT !.state = "active", !.registered = TRUE, !.seen = retNow]
        BY <2>2
      <3>. HIDE DEF moved
      <3>. QED
        BY <1>1, <1>5, <2>2, <3>1 DEF TreeRowType
    <2>3. CASE a.kind = "purge"
      <3>1. moved(a, r) = [r EXCEPT !.state = "removed", !.registered = FALSE, !.removed = retNow]
        BY <2>3
      <3>. HIDE DEF moved
      <3>. QED
        BY <1>1, <1>5, <2>3, <3>1 DEF TreeRowType
    <2>. QED
      BY <1>5, <2>1, <2>2, <2>3
  <1>. HIDE DEF moved
  <1>8. PICK s \in TreeRowType :
            /\ s = IF result = "done" THEN moved(a, r) ELSE r
            /\ s.worktree = a.subject
            /\ result = "done" /\ a.kind = "retire" => s.state = "retired"
            /\ result = "done" /\ s.state = "removed" => a.kind = "purge"
            /\ result # "done" => s = r
    BY <1>5, <1>7
  <1>. DEFINE others == {x \in retTree.rows : x.worktree # a.subject}
              acts == (retTree.actions \ {a}) \cup {b}
  <1>9. /\ retTree' \in TreeType /\ retTree'.rows = others \cup {s} /\ retTree'.actions = acts
    <2>1. retTree = [rows |-> retTree.rows, actions |-> retTree.actions]
      BY <1>1 DEF TreeType
    <2>2. retTree' = Put([retTree EXCEPT !.actions = acts], s)
      BY <1>4, <1>6, <1>8
    <2>3. acts \subseteq TreeActionType /\ others \subseteq TreeRowType
      BY <1>2, <1>6
    <2>. HIDE DEF acts
    <2>4. [retTree EXCEPT !.actions = acts] = [rows |-> retTree.rows, actions |-> acts]
      BY <2>1
    <2>5. retTree' = [rows |-> others \cup {s}, actions |-> acts]
      BY <1>8, <2>2, <2>4 DEF Put
    <2>. QED
      BY <2>3, <2>5 DEF TreeType
  <1>10. PICK op \in SUBSET Nat, he \in SUBSET Nat, go \in SUBSET Nat :
           /\ op = IF result = "partial" THEN retGhost.open ELSE retGhost.open \ {a.id}
           /\ he = IF result = "done"
                   THEN IF a.kind = "retire" THEN retGhost.held \cup {a.subject} ELSE retGhost.held \ {a.subject}
                   ELSE retGhost.held
           /\ go = IF result = "done" /\ a.kind = "purge" THEN retGhost.gone \cup {a.subject} ELSE retGhost.gone
    <2>1. retGhost.open \in SUBSET Nat /\ retGhost.held \in SUBSET Nat /\ retGhost.gone \in SUBSET Nat
      BY <1>1 DEF GhostType
    <2>2. a.subject \in Nat
      BY <1>1, <1>5
    <2>. QED
      BY <2>1, <2>2
  <1>11. retGhost' = [retGhost EXCEPT !.open = op, !.held = he, !.gone = go]
    BY <1>4, <1>10
  <1>12. /\ retGhost' \in GhostType /\ retGhost'.open = op /\ retGhost'.held = he /\ retGhost'.gone = go
         /\ retGhost'.newest = retGhost.newest /\ retGhost'.current = retGhost.current
         /\ retGhost'.cooling = retGhost.cooling
    BY <1>1, <1>11 DEF GhostType
  <1>13. RetType' /\ PolicyOK'
    BY <1>1, <1>12, PolicyFrame DEF RetInv
  <1>14. TreeOK'
    <2>1. \A x, y \in others \cup {s} : x.worktree = y.worktree => x = y
      BY <1>1, <1>8 DEF TreeOK
    <2>2. \A x \in others \cup {s} : x.state = "removed" => x.worktree \in go
      BY <1>1, <1>5, <1>8, <1>10 DEF TreeOK
    <2>. QED
      BY <1>9, <1>12, <2>1, <2>2 DEF TreeOK
  <1>15. \A x \in he \cap RetWorktrees : TreeHeld(x)'
    <2>. SUFFICES ASSUME NEW x \in he, x \in RetWorktrees
                  PROVE  \E y \in others \cup {s} : y.worktree = x /\ y.state = "retired"
      BY <1>9 DEF TreeHeld
    <2>1. CASE x # a.subject
      <3>1. TreeHeld(x)
        BY <1>1, <1>10, <2>1 DEF TraceOK
      <3>. QED
        BY <2>1, <3>1 DEF TreeHeld
    <2>2. CASE x = a.subject
      <3>1. CASE result = "done"
        BY <1>8, <1>10, <2>2, <3>1
      <3>2. CASE result # "done"
        <4>1. TreeHeld(x)
          BY <1>1, <1>10, <3>2 DEF TraceOK
        <4>2. r.state = "retired"
          BY <1>1, <1>5, <2>2, <4>1 DEF TreeHeld, TreeOK
        <4>. QED
          BY <1>8, <2>2, <3>2, <4>2
      <3>. QED
        BY <3>1, <3>2
    <2>. QED
      BY <2>1, <2>2
  <1>16. \A x \in he : x \notin RetWorktrees => CacheHeld'
    <2>1. \A x \in he : x \notin RetWorktrees => x \in retGhost.held
      BY <1>5, <1>10
    <2>. QED
      BY <1>1, <2>1 DEF TraceOK, CacheHeld
  <1>17. ASSUME NEW i \in op, TreeOpen(i) PROVE TreeOpen(i)'
    <2>1. PICK c \in retTree.actions :
            /\ c.id = i /\ c.result \in Unresolved
            /\ (\E x \in retTree.rows : x.worktree = c.subject) \/ c.subject \in retGhost.gone
      BY <1>17 DEF TreeOpen
    <2>2. CASE c = a
      <3>1. result = "partial"
        BY <1>10, <2>1, <2>2
      <3>2. b \in acts /\ b.id = i /\ b.result \in Unresolved /\ b.subject = s.worktree
        BY <1>6, <1>8, <2>1, <2>2, <3>1 DEF Unresolved
      <3>. QED
        BY <1>9, <3>2 DEF TreeOpen
    <2>3. CASE c # a
      <3>1. c \in acts
        BY <2>3
      <3>2. (\E x \in others \cup {s} : x.worktree = c.subject) \/ c.subject \in go
        BY <1>8, <1>10, <2>1
      <3>. QED
        BY <1>9, <1>12, <2>1, <3>1, <3>2 DEF TreeOpen
    <2>. QED
      BY <2>2, <2>3
  <1>18. \A i : CacheOpen(i) => CacheOpen(i)'
    BY <1>1 DEF CacheOpen
  <1>19. op \subseteq retGhost.open
    BY <1>10
  <1>20. TraceOK'
    BY <1>1, <1>12, <1>15, <1>16, <1>17, <1>18, <1>19 DEF TraceOK
  <1>. QED
    BY <1>1, <1>13, <1>14, <1>20 DEF RetInv, CacheOK

\* A persisted cache evaluation: what it finds replaces the artifact's row.
LEMMA CacheScanKeeps ==
    ASSUME RetInv, RetCacheScan
    PROVE  RetInv'
  <1>1. /\ TreeOK /\ TraceOK /\ CacheOK /\ RetType /\ retNow \in Nat /\ retSeq \in Nat
        /\ retGhost \in GhostType
        /\ UNCHANGED <<retNow, retPolicy, retTree, retGhost>> /\ retSeq' = retSeq + 1
    BY DEF RetInv, RetType, RetCacheScan
  <1>2. PICK n : n = retSeq + 1
    OBVIOUS
  <1>3. PICK found \in BOOLEAN : retCache' = [retCache EXCEPT
              !.evaluations = @ \cup {[id |-> n, ts |-> retNow]},
              !.observations = @ \cup (IF found THEN {[evaluation |-> n, ts |-> retNow]} ELSE {}),
              !.decisions = @ \cup (IF found THEN {[evaluation |-> n]} ELSE {}),
              !.artifact = IF found THEN {[evaluation |-> n, seen |-> retNow, lifecycle |-> "observed"]} ELSE @]
    BY Zenon, <1>2 DEF RetCacheScan
  <1>4. PICK ev, ob, de, ar :
          /\ ev = retCache.evaluations \cup {[id |-> n, ts |-> retNow]}
          /\ ob = retCache.observations \cup (IF found THEN {[evaluation |-> n, ts |-> retNow]} ELSE {})
          /\ de = retCache.decisions \cup (IF found THEN {[evaluation |-> n]} ELSE {})
          /\ ar = IF found THEN {[evaluation |-> n, seen |-> retNow, lifecycle |-> "observed"]}
                  ELSE retCache.artifact
    OBVIOUS
  <1>5. retCache = [evaluations |-> retCache.evaluations, observations |-> retCache.observations,
                    decisions |-> retCache.decisions, actions |-> retCache.actions,
                    quarantine |-> retCache.quarantine, artifact |-> retCache.artifact]
    BY <1>1 DEF CacheOK
  <1>6. retCache' = [retCache EXCEPT !.evaluations = ev, !.observations = ob, !.decisions = de, !.artifact = ar]
    BY <1>3, <1>4
  <1>7. retCache' = [evaluations |-> ev, observations |-> ob, decisions |-> de, actions |-> retCache.actions,
                     quarantine |-> retCache.quarantine, artifact |-> ar]
    BY <1>5, <1>6
  <1>8. /\ retCache'.evaluations = ev /\ retCache'.observations = ob /\ retCache'.decisions = de
        /\ retCache'.actions = retCache.actions /\ retCache'.quarantine = retCache.quarantine
        /\ retCache'.artifact = ar
    BY <1>7
  <1>9. retCache.artifact # {} => ar # {}
    BY <1>4
  <1>10. \A o \in ob \cup de : \E e \in ev : e.id = o.evaluation
    <2>1. [id |-> n, ts |-> retNow] \in ev /\ [id |-> n, ts |-> retNow].id = n
      BY <1>4
    <2>2. \A o \in ob \cup de : o \in retCache.observations \cup retCache.decisions \/ o.evaluation = n
      BY <1>4
    <2>3. \A o \in retCache.observations \cup retCache.decisions : \E e \in ev : e.id = o.evaluation
      BY <1>1, <1>4 DEF CacheOK
    <2>. QED
      BY <2>1, <2>2, <2>3
  <1>11. CacheOK'
    BY <1>1, <1>7, <1>8, <1>9, <1>10 DEF CacheOK
  <1>12. TraceOK'
    BY <1>1, <1>8, <1>9 DEF TraceOK, TreeHeld, CacheHeld, TreeOpen, CacheOpen
  <1>13. RetType' /\ PolicyOK'
    BY <1>1, PolicyFrame DEF RetInv
  <1>. QED
    BY <1>1, <1>11, <1>12, <1>13 DEF RetInv, TreeOK

\* The intent to quarantine, restore or purge the artifact.
LEMMA CacheBeginKeeps ==
    ASSUME RetInv, RetCacheBegin
    PROVE  RetInv'
  <1>1. /\ TreeOK /\ TraceOK /\ CacheOK /\ RetType /\ retNow \in Nat /\ retSeq \in Nat
        /\ retGhost \in GhostType
        /\ UNCHANGED <<retNow, retPolicy, retTree>> /\ retSeq' = retSeq + 1
    BY DEF RetInv, RetType, RetCacheBegin
  <1>2. PICK n \in Nat : n = retSeq + 1
    BY <1>1
  <1>3. PICK kind \in {"quarantine", "restore", "purge"}, result \in {"purging", "attempting"} :
          /\ IF kind = "quarantine"
             THEN \E r \in retCache.artifact : Newest(retCache.evaluations, r.evaluation) /\ r.lifecycle = "observed"
             ELSE \E q \in retCache.quarantine : q.status = "quarantined"
          /\ retCache' = [retCache EXCEPT !.actions = @ \cup
                            {[id |-> n, kind |-> kind, ts |-> retNow, result |-> result]}]
          /\ retGhost' = [retGhost EXCEPT !.open = @ \cup {n}]
    BY <1>2 DEF RetCacheBegin
  <1>4. retCache.artifact # {}
    BY <1>1, <1>3 DEF CacheOK
  <1>5. PICK a : a = [id |-> n, kind |-> kind, ts |-> retNow, result |-> result]
    OBVIOUS
  <1>6. result \in Unresolved /\ result \in ResultTypes
    BY DEF Unresolved, ResultTypes
  <1>7. a \in CacheActionType /\ a.id = n /\ a.result = result
    BY <1>1, <1>5, <1>6 DEF CacheActionType
  <1>8. PICK acts : acts = retCache.actions \cup {a}
    OBVIOUS
  <1>9. /\ retCache' = [retCache EXCEPT !.actions = acts]
        /\ retGhost' = [retGhost EXCEPT !.open = retGhost.open \cup {n}]
    BY <1>3, <1>5, <1>8
  <1>10. retCache = [evaluations |-> retCache.evaluations, observations |-> retCache.observations,
                     decisions |-> retCache.decisions, actions |-> retCache.actions,
                     quarantine |-> retCache.quarantine, artifact |-> retCache.artifact]
    BY <1>1 DEF CacheOK
  <1>11. retCache' = [evaluations |-> retCache.evaluations, observations |-> retCache.observations,
                      decisions |-> retCache.decisions, actions |-> acts,
                      quarantine |-> retCache.quarantine, artifact |-> retCache.artifact]
    BY <1>9, <1>10
  <1>12. /\ retCache'.evaluations = retCache.evaluations /\ retCache'.observations = retCache.observations
         /\ retCache'.decisions = retCache.decisions /\ retCache'.actions = acts
         /\ retCache'.quarantine = retCache.quarantine /\ retCache'.artifact = retCache.artifact
    BY <1>11
  <1>13. /\ retGhost' \in GhostType /\ retGhost'.open = retGhost.open \cup {n}
         /\ retGhost'.newest = retGhost.newest /\ retGhost'.current = retGhost.current
         /\ retGhost'.cooling = retGhost.cooling /\ retGhost'.held = retGhost.held /\ retGhost'.gone = retGhost.gone
    BY <1>1, <1>9 DEF GhostType
  <1>14. CacheOK'
    BY <1>1, <1>4, <1>7, <1>8, <1>11, <1>12 DEF CacheOK
  <1>15. TreeOK'
    BY <1>1, <1>13 DEF TreeOK
  <1>16. (\A i : TreeOpen(i) => TreeOpen(i)') /\ (\A i : CacheOpen(i) => CacheOpen(i)') /\ CacheOpen(n)'
    <2>1. \A i : TreeOpen(i) => TreeOpen(i)'
      BY <1>1, <1>13 DEF TreeOpen
    <2>2. \A i : CacheOpen(i) => CacheOpen(i)'
      BY <1>8, <1>12 DEF CacheOpen
    <2>3. CacheOpen(n)'
      BY <1>4, <1>6, <1>7, <1>8, <1>12 DEF CacheOpen
    <2>. QED
      BY <2>1, <2>2, <2>3
  <1>17. TraceOK'
    BY <1>1, <1>12, <1>13, <1>16 DEF TraceOK, TreeHeld, CacheHeld
  <1>18. RetType' /\ PolicyOK'
    BY <1>1, <1>13, PolicyFrame DEF RetInv
  <1>. QED
    BY <1>14, <1>15, <1>17, <1>18 DEF RetInv

\* The outcome of a cache action, written with the quarantine row and the artifact's.
LEMMA CacheFinishKeeps ==
    ASSUME RetInv, RetCacheFinish
    PROVE  RetInv'
  <1>1. /\ TreeOK /\ TraceOK /\ CacheOK /\ RetType /\ retNow \in Nat /\ retSeq \in Nat
        /\ retGhost \in GhostType
        /\ UNCHANGED <<retNow, retPolicy, retTree, retSeq>>
    BY DEF RetInv, RetType, RetCacheFinish
  <1>. DEFINE status(a) == CASE a.kind = "quarantine" -> "quarantined" [] a.kind = "restore" -> "restored"
                             [] OTHER -> "purged"
              mark(v) == {[r EXCEPT !.lifecycle = v] : r \in retCache.artifact}
  <1>2. PICK a \in retCache.actions, result \in {"done", "failed", "partial"} :
          /\ a.result \in {"attempting", "purging"}
          /\ retCache' = [retCache EXCEPT
                 !.actions = (@ \ {a}) \cup {[a EXCEPT !.result = result]},
                 !.quarantine = IF result = "done" THEN {[status |-> status(a), ts |-> retNow]} ELSE @,
                 !.artifact = CASE result = "done" -> mark(status(a)) [] result = "partial" -> mark("partial")
                                [] OTHER -> @]
          /\ retGhost' = [retGhost EXCEPT !.open = IF result = "partial" THEN @ ELSE @ \ {a.id},
                           !.held = IF result # "done" THEN @
                                    ELSE IF a.kind = "quarantine" THEN {TheArtifact} ELSE {}]
    BY Zenon DEF RetCacheFinish
  <1>3. a \in CacheActionType /\ a.result \in Unresolved
    BY <1>1, <1>2 DEF CacheOK, Unresolved
  <1>4. retCache.artifact # {}
    BY <1>1, <1>3 DEF CacheOK
  <1>5. mark("partial") # {} /\ mark(status(a)) # {}
    BY <1>4
  <1>6. a.kind = "quarantine" => status(a) = "quarantined"
    OBVIOUS
  <1>. HIDE DEF mark, status
  <1>7. PICK b \in CacheActionType : b = [a EXCEPT !.result = result] /\ b.id = a.id /\ b.result = result
    <2>1. /\ [a EXCEPT !.result = result] \in CacheActionType /\ [a EXCEPT !.result = result].id = a.id
          /\ [a EXCEPT !.result = result].result = result
      BY <1>3 DEF CacheActionType, ResultTypes
    <2>. QED
      BY <2>1
  <1>8. PICK acts, qu, ar :
          /\ acts = (retCache.actions \ {a}) \cup {b}
          /\ qu = IF result = "done" THEN {[status |-> status(a), ts |-> retNow]} ELSE retCache.quarantine
          /\ ar = CASE result = "done" -> mark(status(a)) [] result = "partial" -> mark("partial")
                    [] OTHER -> retCache.artifact
    OBVIOUS
  <1>9. ar # {}
    BY <1>4, <1>5, <1>8
  <1>10. PICK op \in SUBSET Nat, he \in SUBSET Nat :
           /\ op = IF result = "partial" THEN retGhost.open ELSE retGhost.open \ {a.id}
           /\ he = IF result # "done" THEN retGhost.held
                   ELSE IF a.kind = "quarantine" THEN {TheArtifact} ELSE {}
    <2>1. retGhost.open \in SUBSET Nat /\ retGhost.held \in SUBSET Nat /\ TheArtifact \in Nat
      BY <1>1 DEF GhostType, TheArtifact
    <2>. QED
      BY <2>1
  <1>11. retGhost' = [retGhost EXCEPT !.open = op, !.held = he]
    BY <1>2, <1>10
  <1>12. retCache' = [retCache EXCEPT !.actions = acts, !.quarantine = qu, !.artifact = ar]
    BY <1>2, <1>7, <1>8
  <1>13. retCache = [evaluations |-> retCache.evaluations, observations |-> retCache.observations,
                     decisions |-> retCache.decisions, actions |-> retCache.actions,
                     quarantine |-> retCache.quarantine, artifact |-> retCache.artifact]
    BY <1>1 DEF CacheOK
  <1>14. retCache' = [evaluations |-> retCache.evaluations, observations |-> retCache.observations,
                      decisions |-> retCache.decisions, actions |-> acts, quarantine |-> qu, artifact |-> ar]
    BY <1>12, <1>13
  <1>15. /\ retCache'.evaluations = retCache.evaluations /\ retCache'.observations = retCache.observations
         /\ retCache'.decisions = retCache.decisions /\ retCache'.actions = acts
         /\ retCache'.quarantine = qu /\ retCache'.artifact = ar
    BY <1>14
  <1>16. /\ retGhost' \in GhostType /\ retGhost'.open = op /\ retGhost'.held = he
         /\ retGhost'.newest = retGhost.newest /\ retGhost'.current = retGhost.current
         /\ retGhost'.cooling = retGhost.cooling /\ retGhost'.gone = retGhost.gone
    BY <1>1, <1>11 DEF GhostType
  <1>17. acts \subseteq CacheActionType
    BY <1>1, <1>7, <1>8 DEF CacheOK
  <1>18. CacheOK'
    BY <1>1, <1>9, <1>14, <1>15, <1>17 DEF CacheOK
  <1>19. TreeOK'
    BY <1>1, <1>16 DEF TreeOK
  <1>20. ASSUME NEW x \in he PROVE (IF x \in RetWorktrees THEN TreeHeld(x) ELSE CacheHeld)'
    <2>1. CASE result = "done"
      <3>1. a.kind = "quarantine" /\ x = TheArtifact
        BY <1>10, <2>1
      <3>2. x \notin RetWorktrees
        BY <3>1, RetentionAssumption DEF TheArtifact
      <3>3. [status |-> status(a), ts |-> retNow] \in qu /\ [status |-> status(a), ts |-> retNow].status = "quarantined"
        BY <1>6, <1>8, <2>1, <3>1
      <3>4. CacheHeld'
        BY <1>9, <1>15, <3>3 DEF CacheHeld
      <3>. QED
        BY <3>2, <3>4
    <2>2. CASE result # "done"
      <3>1. x \in retGhost.held /\ qu = retCache.quarantine
        BY <1>8, <1>10, <2>2
      <3>2. CASE x \in RetWorktrees
        <4>1. TreeHeld(x)
          BY <1>1, <3>1, <3>2 DEF TraceOK
        <4>. QED
          BY <1>1, <3>2, <4>1 DEF TreeHeld
      <3>3. CASE x \notin RetWorktrees
        <4>1. CacheHeld
          BY <1>1, <3>1, <3>3 DEF TraceOK
        <4>2. CacheHeld'
          BY <1>9, <1>15, <3>1, <4>1 DEF CacheHeld
        <4>. QED
          BY <3>3, <4>2
      <3>. QED
        BY <3>2, <3>3
    <2>. QED
      BY <2>1, <2>2
  <1>21. \A i : TreeOpen(i) => TreeOpen(i)'
    BY <1>1, <1>16 DEF TreeOpen
  <1>22. ASSUME NEW i \in op, CacheOpen(i) PROVE CacheOpen(i)'
    <2>1. PICK c \in retCache.actions : c.id = i /\ c.result \in Unresolved
      BY <1>22 DEF CacheOpen
    <2>2. CASE c = a
      <3>1. result = "partial"
        BY <1>10, <2>1, <2>2
      <3>2. b \in acts /\ b.id = i /\ b.result \in Unresolved
        BY <1>7, <1>8, <2>1, <2>2, <3>1 DEF Unresolved
      <3>. QED
        BY <1>9, <1>15, <3>2 DEF CacheOpen
    <2>3. CASE c # a
      BY <1>8, <1>9, <1>15, <2>1, <2>3 DEF CacheOpen
    <2>. QED
      BY <2>2, <2>3
  <1>23. op \subseteq retGhost.open
    BY <1>10
  <1>24. TraceOK'
    BY <1>1, <1>16, <1>20, <1>21, <1>22, <1>23 DEF TraceOK
  <1>25. RetType' /\ PolicyOK'
    BY <1>1, <1>16, PolicyFrame DEF RetInv
  <1>. QED
    BY <1>18, <1>19, <1>24, <1>25 DEF RetInv

\* The empty database satisfies the invariant.
LEMMA RetInvInit == RetInit => RetInv
  <1>. SUFFICES ASSUME RetInit PROVE RetInv
    OBVIOUS
  <1>1. RetType
    BY DEF RetInit, RetType, PolicyType, GhostType
  <1>2. PolicyOK
    BY DEF RetInit, PolicyOK
  <1>3. TreeOK
    BY DEF RetInit, TreeOK, TreeType
  <1>4. CacheOK
    BY DEF RetInit, CacheOK
  <1>5. TraceOK
    BY DEF RetInit, TraceOK
  <1>. QED
    BY <1>1, <1>2, <1>3, <1>4, <1>5 DEF RetInv

\* A step that leaves every table alone, an hour of the clock included.
LEMMA TablesStill ==
    ASSUME RetInv, UNCHANGED <<retSeq, retPolicy, retTree, retCache, retGhost>>,
           retNow' \in Nat, retNow <= retNow'
    PROVE  RetInv'
  <1>1. RetType' /\ PolicyOK'
    BY PolicyFrame DEF RetInv, RetType
  <1>2. TreeOK' /\ CacheOK'
    BY DEF RetInv, TreeOK, CacheOK
  <1>3. TraceOK'
    BY DEF RetInv, TraceOK, TreeHeld, CacheHeld, TreeOpen, CacheOpen
  <1>. QED
    BY <1>1, <1>2, <1>3 DEF RetInv

\* The invariant of the retention model: the policy tables agree with what the
\* daemon last committed, and every promise is kept by a row no window reaches.
THEOREM RetInvCorrect == RetSpec => []RetInv
  <1>1. RetInv /\ [RetNext]_retVars => RetInv'
    <2>. SUFFICES ASSUME RetInv, [RetNext]_retVars PROVE RetInv'
      OBVIOUS
    <2>0. retNow \in Nat /\ retSeq \in Nat
      BY DEF RetInv, RetType
    <2>1. CASE RetEvaluate
      <3>1. RetType' /\ PolicyOK'
        BY <2>1, EvaluateKeeps DEF RetInv
      <3>2. /\ UNCHANGED <<retTree, retCache>> /\ retGhost'.open = retGhost.open
            /\ retGhost'.held = retGhost.held /\ retGhost'.gone = retGhost.gone
        BY <2>1 DEF RetEvaluate, RetInv, RetType, GhostType
      <3>3. TreeOK' /\ CacheOK'
        BY <3>2 DEF RetInv, TreeOK, CacheOK
      <3>4. TraceOK'
        BY <3>2 DEF RetInv, TraceOK, TreeHeld, CacheHeld, TreeOpen, CacheOpen
      <3>. QED
        BY <3>1, <3>3, <3>4 DEF RetInv
    <2>2. CASE RetTreeScan
      BY <2>2, TreeScanKeeps
    <2>13. CASE RetTreeScanFails
      BY <2>13, TreeScanFailsKeeps
    <2>3. CASE RetTreeBegin
      BY <2>3, TreeBeginKeeps
    <2>4. CASE RetTreeFinish
      BY <2>4, TreeFinishKeeps
    <2>5. CASE RetCacheScan
      BY <2>5, CacheScanKeeps
    <2>6. CASE RetCacheBegin
      BY <2>6, CacheBeginKeeps
    <2>7. CASE RetCacheFinish
      BY <2>7, CacheFinishKeeps
    <2>8. CASE RetCompact
      BY <2>8, PassKeeps DEF RetCompact
    <2>9. CASE RetTighten
      BY <2>9, PassKeeps DEF RetTighten
    <2>10. CASE RetGiveUp
      BY <2>0, <2>10, TablesStill DEF RetGiveUp
    <2>11. CASE RetTick
      BY <2>0, <2>11, TablesStill DEF RetTick
    <2>12. CASE UNCHANGED retVars
      BY <2>0, <2>12, TablesStill DEF retVars
    <2>. QED
      BY <2>1, <2>2, <2>3, <2>4, <2>5, <2>6, <2>7, <2>8, <2>9, <2>10, <2>11, <2>12, <2>13 DEF RetNext
  <1>. QED
    BY <1>1, RetInvInit, PTL DEF RetSpec

\* For every window, cooldown and inventory bound, no compaction, halved or not,
\* and no order of compactions and scans loses what a later decision reads: a
\* running cooldown, the decisions of the current evaluation, the evaluation of
\* a row that is still stored (retention.go).
THEOREM DecisionsCorrect == RetSpec => []DecisionsKept
  <1>1. RetInv => DecisionsKept
    BY RetInvMeans
  <1>. QED
    BY <1>1, RetInvCorrect, PTL

\* For every window, cooldown and inventory bound, what was moved aside and what
\* was left unresolved can still be found after any compactions and prunings.
THEOREM TracesCorrect == RetSpec => []TracesKept
  <1>1. RetInv => TracesKept
    BY RetInvMeans
  <1>. QED
    BY <1>1, RetInvCorrect, PTL

(***************************************************************************)
(* Bounded induction, and the inputs of the pure parts.                    *)
(***************************************************************************)

\* Induction up to a bound, over a set.
LEMMA BoundedInduction ==
    ASSUME NEW N \in Nat, NEW T, 0 \in T, \A i \in 0..(N - 1) : i \in T => i + 1 \in T
    PROVE  \A i \in 0..N : i \in T
  <1>. DEFINE S == {i \in 0..N : i \notin T}
  <1>. SUFFICES ASSUME S # {} PROVE FALSE
    OBVIOUS
  <1>1. Min(S) \in S /\ \A y \in S : Min(S) <= y
    <2>1. S \in SUBSET Nat
      OBVIOUS
    <2>. HIDE DEF S
    <2>. QED
      BY <2>1, MinInSet
  <1>2. PICK m \in 0..N : m = Min(S) /\ m \notin T /\ m # 0
    BY <1>1
  <1>3. m - 1 \in 0..(N - 1) /\ m - 1 \notin S
    BY <1>1, <1>2
  <1>4. m - 1 \in T
    BY <1>3
  <1>. QED
    BY <1>2, <1>3, <1>4

\* The first N iterates of step from base exist.
Iterates(N, S, base, step) ==
    \E f \in [0..N -> S] : f[0] = base /\ \A i \in 1..N : f[i] = step[f[i - 1]]

\* A function can be iterated any number of times.
LEMMA Iterate ==
    ASSUME NEW N \in Nat, NEW S, NEW base \in S, NEW step \in [S -> S]
    PROVE  Iterates(N, S, base, step)
  <1>. DEFINE Good(n, f) == f[0] = base /\ \A i \in 1..n : f[i] = step[f[i - 1]]
              T == {n \in 0..N : \E f \in [0..n -> S] : Good(n, f)}
  <1>1. 0 \in T
    <2>1. PICK f : f = [i \in 0..0 |-> base]
      OBVIOUS
    <2>2. f \in [0..0 -> S] /\ Good(0, f)
      BY <2>1
    <2>3. 0 \in 0..N
      OBVIOUS
    <2>. HIDE DEF Good
    <2>. QED
      BY <2>2, <2>3
  <1>2. ASSUME NEW n \in 0..(N - 1), n \in T PROVE n + 1 \in T
    <2>1. PICK f \in [0..n -> S] : Good(n, f)
      BY <1>2
    <2>. DEFINE g == [i \in 0..(n + 1) |-> IF i = n + 1 THEN step[f[n]] ELSE f[i]]
    <2>2. g \in [0..(n + 1) -> S]
      OBVIOUS
    <2>3. g[0] = base
      BY <2>1
    <2>4. ASSUME NEW i \in 1..(n + 1) PROVE g[i] = step[g[i - 1]]
      <3>1. i - 1 \in 0..(n + 1) /\ i - 1 # n + 1 /\ g[i - 1] = f[i - 1]
        OBVIOUS
      <3>2. CASE i = n + 1
        BY <3>1, <3>2
      <3>3. CASE i # n + 1
        <4>1. i \in 1..n /\ i \in 0..(n + 1) /\ g[i] = f[i]
          BY <3>3
        <4>. QED
          BY <2>1, <3>1, <4>1
      <3>. QED
        BY <3>2, <3>3
    <2>. HIDE DEF g
    <2>5. Good(n + 1, g)
      BY <2>3, <2>4
    <2>6. n + 1 \in 0..N
      OBVIOUS
    <2>. QED
      BY <2>2, <2>5, <2>6
  <1>. HIDE DEF T
  <1>3. N \in T
    <2>1. \A i \in 0..N : i \in T
      BY <1>1, <1>2, BoundedInduction
    <2>. QED
      BY <2>1
  <1>. QED
    BY <1>3 DEF T, Iterates

\* What a pure part was given is one of its inputs.
InputOK ==
    /\ part = "tree" /\ input # <<>> => input[1] \in TreeInputs
    /\ part = "startup" /\ input # <<>> => input[1] \in StartupInputs
    /\ part = "detection" /\ input # <<>> => input[1] \in DetectionInput
    /\ part = "protection" /\ input # <<>> => input[1] \in ProtectionInput

\* Only a pure part takes an input, and it takes one.
THEOREM InputCorrect == Spec => []InputOK
  <1>1. Init => InputOK
    BY DEF Init, InputOK
  <1>2. InputOK /\ [Next]_hostVars => InputOK'
    <2>. SUFFICES ASSUME InputOK, [Next]_hostVars PROVE InputOK'
      OBVIOUS
    <2>1. CASE part' = part /\ input' = input
      BY <2>1 DEF InputOK
    <2>2. CASE Pure("tree", TreeInputs)
      <3>1. PICK in \in TreeInputs : part = "tree" /\ part' = part /\ input' = <<in>>
        BY <2>2 DEF Pure
      <3>. QED
        BY <3>1 DEF InputOK
    <2>3. CASE Pure("startup", StartupInputs)
      <3>1. PICK in \in StartupInputs : part = "startup" /\ part' = part /\ input' = <<in>>
        BY <2>3 DEF Pure
      <3>. QED
        BY <3>1 DEF InputOK
    <2>4. CASE Pure("protection", ProtectionInput)
      <3>1. PICK in \in ProtectionInput : part = "protection" /\ part' = part /\ input' = <<in>>
        BY <2>4 DEF Pure
      <3>. QED
        BY <3>1 DEF InputOK
    <2>5. CASE Pure("detection", DetectionInput)
      <3>1. PICK in \in DetectionInput : part = "detection" /\ part' = part /\ input' = <<in>>
        BY <2>5 DEF Pure
      <3>. QED
        BY <3>1 DEF InputOK
    <2>. QED
      BY <2>1, <2>2, <2>3, <2>4, <2>5 DEF Next, hostVars
  <1>. QED
    BY <1>1, <1>2, PTL DEF Spec

(***************************************************************************)
(* The startup mode as a ceiling.                                          *)
(***************************************************************************)

\* What a start can be given: a mode or none, and a file with lists of policies
\* of any length.
AnyStartup == [mode : {"audit", "reconcile", Unset}, roots : BOOLEAN, file : File(Seq(Policy), Seq(CachePolicy))]

CacheType == [enabled : BOOLEAN, global : Modes, roots : BOOLEAN, policies : Seq(CachePolicy)]
ConfigType == [global : Modes, policies : Seq(Policy), cache : CacheType]
Ceilings == {"audit", "recommend"}
CeilingOf(mode) == IF mode = "reconcile" THEN "recommend" ELSE "audit"

\* A capped mode is a mode, not above the ceiling and not above what it was.
LEMMA CappedModeFacts ==
    ASSUME NEW m \in Modes, NEW c \in Ceilings
    PROVE  /\ CappedMode(m, c) \in Modes /\ CappedMode(m, c) # "enforce"
           /\ c = "audit" => CappedMode(m, c) \notin {"recommend", "enforce"}
           /\ CappedMode(m, c) = "disabled" <=> m = "disabled"
           /\ Rank(CappedMode(m, c)) <= Rank(m)
  <1>1. CASE m = "disabled"
    BY <1>1 DEF CappedMode, Modes, Ceilings, Rank
  <1>2. CASE m = "audit"
    BY <1>2 DEF CappedMode, Modes, Ceilings, Rank
  <1>3. CASE m = "recommend"
    BY <1>3 DEF CappedMode, Modes, Ceilings, Rank
  <1>4. CASE m = "enforce"
    BY <1>4 DEF CappedMode, Modes, Ceilings, Rank
  <1>. QED
    BY <1>1, <1>2, <1>3, <1>4 DEF Modes

\* The built-in profiles are configurations.
LEMMA DefaultsTyped ==
    ASSUME NEW mode, NEW roots \in BOOLEAN
    PROVE  StartupDefaults(mode, roots) \in ConfigType /\ Default \in ConfigType
  <1>1. PICK action \in Modes : action = IF mode = "reconcile" THEN "recommend" ELSE "audit"
    BY DEF Modes
  <1>2. PICK p, q : p = [enabled |-> TRUE, mode |-> action, automatic |-> FALSE, narrow |-> TRUE]
                    /\ q = [enabled |-> TRUE, mode |-> action]
    OBVIOUS
  <1>3. p \in Policy /\ q \in CachePolicy
    BY <1>2 DEF Policy, CachePolicy
  <1>4. <<p>> \in Seq(Policy) /\ <<q>> \in Seq(CachePolicy) /\ <<>> \in Seq(Policy) /\ <<>> \in Seq(CachePolicy)
    BY <1>3
  <1>5. PICK k1, k2 : /\ k1 = [enabled |-> FALSE, global |-> "audit", roots |-> FALSE, policies |-> <<>>]
                      /\ k2 = [enabled |-> TRUE, global |-> action, roots |-> TRUE, policies |-> <<q>>]
    OBVIOUS
  <1>6. k1 \in CacheType /\ k2 \in CacheType
    BY <1>4, <1>5 DEF CacheType, Modes
  <1>7. Default = [global |-> "audit", policies |-> <<>>, cache |-> k1]
    BY <1>5 DEF Default
  <1>8. Default \in ConfigType /\ Default.cache = k1
    BY <1>4, <1>6, <1>7 DEF ConfigType, Modes
  <1>9. PICK k \in CacheType : k = IF roots THEN k2 ELSE k1
    BY <1>6
  <1>10. StartupDefaults(mode, roots) = [global |-> action, policies |-> <<p>>, cache |-> k]
    BY <1>1, <1>2, <1>5, <1>8, <1>9 DEF StartupDefaults
  <1>. QED
    BY <1>4, <1>8, <1>10 DEF ConfigType

\* The file laid over a profile is a configuration, with the file's modes and
\* policies where it has them.
LEMMA OverlayTyped ==
    ASSUME NEW cfg \in ConfigType, NEW file \in File(Seq(Policy), Seq(CachePolicy))
    PROVE  /\ Overlay(cfg, file) \in ConfigType
           /\ file.global # Unset => Overlay(cfg, file).global = file.global
           /\ file.cacheGlobal # Unset => Overlay(cfg, file).cache.global = file.cacheGlobal
           /\ file.policies # <<>> => Overlay(cfg, file).policies = file.policies[1]
  <1>1. /\ file.global \in Modes \cup {Unset} /\ file.cacheGlobal \in Modes \cup {Unset}
        /\ file.policies \in {<<>>} \cup {<<l>> : l \in Seq(Policy)}
        /\ file.cachePolicies \in {<<>>} \cup {<<l>> : l \in Seq(CachePolicy)}
    BY DEF File
  <1>2. /\ cfg.global \in Modes /\ cfg.policies \in Seq(Policy) /\ cfg.cache \in CacheType
    BY DEF ConfigType
  <1>3. /\ cfg.cache.enabled \in BOOLEAN /\ cfg.cache.global \in Modes /\ cfg.cache.roots \in BOOLEAN
        /\ cfg.cache.policies \in Seq(CachePolicy)
    BY <1>2 DEF CacheType
  <1>4. PICK g \in Modes, cg \in Modes : /\ g = IF file.global = Unset THEN cfg.global ELSE file.global
                                         /\ cg = IF file.cacheGlobal = Unset THEN cfg.cache.global ELSE file.cacheGlobal
    BY <1>1, <1>2, <1>3
  <1>5. PICK ps \in Seq(Policy) : ps = IF file.policies = <<>> THEN cfg.policies ELSE file.policies[1]
    BY <1>1, <1>2
  <1>6. PICK cs \in Seq(CachePolicy) : cs = IF file.cachePolicies = <<>> THEN cfg.cache.policies ELSE file.cachePolicies[1]
    BY <1>1, <1>3
  <1>7. PICK en \in BOOLEAN : en = IF file.cacheEnabled = Unset THEN cfg.cache.enabled ELSE file.cacheEnabled = "yes"
    BY <1>3
  <1>8. PICK rt \in BOOLEAN : rt = (cfg.cache.roots \/ file.cacheEnabled = "yes")
    OBVIOUS
  <1>9. PICK k : k = [enabled |-> en, global |-> cg, roots |-> rt, policies |-> cs]
    OBVIOUS
  <1>10. k \in CacheType /\ k.global = cg
    BY <1>9 DEF CacheType
  <1>11. Overlay(cfg, file) = [global |-> g, policies |-> ps, cache |-> k]
    BY <1>4, <1>5, <1>6, <1>7, <1>8, <1>9, Zenon DEF Overlay
  <1>12. PICK o : o = Overlay(cfg, file)
    OBVIOUS
  <1>13. o \in ConfigType /\ o.global = g /\ o.policies = ps /\ o.cache = k
    BY <1>10, <1>11, <1>12 DEF ConfigType
  <1>. QED
    BY <1>4, <1>5, <1>10, <1>12, <1>13

\* The lists of a capped configuration.
CappedList(l, c) == [i \in 1..Len(l) |-> CappedPolicy(l[i], c)]
CappedCaches(l, c) == [i \in 1..Len(l) |-> [l[i] EXCEPT !.mode = CappedMode(l[i].mode, c)]]
Capped(cfg, c) ==
    [global |-> CappedMode(cfg.global, c), policies |-> CappedList(cfg.policies, c),
     cache |-> [enabled |-> cfg.cache.enabled, global |-> CappedMode(cfg.cache.global, c),
                roots |-> cfg.cache.roots, policies |-> CappedCaches(cfg.cache.policies, c)]]

\* The ceiling over a configuration, part by part.
LEMMA CeilingShape ==
    ASSUME NEW cfg \in ConfigType, NEW mode
    PROVE  ApplyStartupCeiling(cfg, mode) = Capped(cfg, CeilingOf(mode))
  <1>1. PICK c, ps, cs : c = CeilingOf(mode) /\ ps = CappedList(cfg.policies, c) /\ cs = CappedCaches(cfg.cache.policies, c)
    OBVIOUS
  <1>2. PICK k, g, p : k \in CacheType /\ cfg = [global |-> g, policies |-> p, cache |-> k]
    BY DEF ConfigType
  <1>3. PICK e, kg, r, kp : k = [enabled |-> e, global |-> kg, roots |-> r, policies |-> kp]
    BY <1>2 DEF CacheType
  <1>4. cfg.global = g /\ cfg.policies = p /\ cfg.cache = k
    BY <1>2
  <1>5. k.enabled = e /\ k.global = kg /\ k.roots = r /\ k.policies = kp
    BY <1>3
  <1>6. ApplyStartupCeiling(cfg, mode) =
          [cfg EXCEPT !.global = CappedMode(cfg.global, c), !.policies = ps,
                      !.cache = [cfg.cache EXCEPT !.global = CappedMode(cfg.cache.global, c), !.policies = cs]]
    BY <1>1, Zenon DEF ApplyStartupCeiling, CeilingOf, CappedList, CappedCaches
  <1>7. PICK m, n : m = CappedMode(g, c) /\ n = CappedMode(kg, c)
    OBVIOUS
  <1>8. PICK w : w = [k EXCEPT !.global = n, !.policies = cs]
    OBVIOUS
  <1>9. w = [enabled |-> e, global |-> n, roots |-> r, policies |-> cs]
    BY <1>3, <1>8
  <1>10. PICK v : v = [cfg EXCEPT !.global = m, !.policies = ps, !.cache = w]
    OBVIOUS
  <1>11. v = [global |-> m, policies |-> ps, cache |-> w]
    BY <1>2, <1>10
  <1>. QED
    BY <1>1, <1>4, <1>5, <1>6, <1>7, <1>8, <1>9, <1>10, <1>11, Zenon DEF Capped

\* A capped policy keeps everything but its mode and, with it, its automatic
\* authority.
PolicyCapped(p, q, c) ==
    /\ q.enabled = p.enabled /\ q.narrow = p.narrow /\ q.mode = CappedMode(p.mode, c)
    /\ q.automatic = IF CappedMode(p.mode, c) = p.mode THEN p.automatic ELSE FALSE

\* CappedPolicy does that.
LEMMA CappedPolicyFacts ==
    ASSUME NEW p \in Policy, NEW c \in Ceilings
    PROVE  PolicyCapped(p, CappedPolicy(p, c), c)
  <1>1. PICK q : q = CappedPolicy(p, c)
    OBVIOUS
  <1>2. p = [enabled |-> p.enabled, mode |-> p.mode, automatic |-> p.automatic, narrow |-> p.narrow]
    BY DEF Policy
  <1>3. PICK m, a : m = CappedMode(p.mode, c) /\ a = IF m = p.mode THEN p.automatic ELSE FALSE
    OBVIOUS
  <1>4. q = [p EXCEPT !.mode = m, !.automatic = a]
    BY <1>1, <1>3 DEF CappedPolicy
  <1>5. q = [enabled |-> p.enabled, mode |-> m, automatic |-> a, narrow |-> p.narrow]
    BY <1>2, <1>4
  <1>. QED
    BY <1>1, <1>3, <1>5 DEF PolicyCapped

\* What the ceiling makes of a configuration, seen from its parts: the modes,
\* the process policies, the cache policies.
ModesCapped(cfg, k, c) ==
    /\ c \in Ceilings /\ k.global = CappedMode(cfg.global, c)
    /\ k.cache.global = CappedMode(cfg.cache.global, c)
    /\ k.cache.enabled = cfg.cache.enabled /\ k.cache.roots = cfg.cache.roots
PoliciesCapped(cfg, k, c) ==
    /\ Len(k.policies) = Len(cfg.policies) /\ Len(cfg.policies) \in Nat
    /\ \A i \in 1..Len(cfg.policies) : cfg.policies[i] \in Policy /\ PolicyCapped(cfg.policies[i], k.policies[i], c)
CachesCapped(cfg, k, c) ==
    /\ Len(k.cache.policies) = Len(cfg.cache.policies) /\ Len(cfg.cache.policies) \in Nat
    /\ \A i \in 1..Len(cfg.cache.policies) :
          /\ cfg.cache.policies[i] \in CachePolicy
          /\ k.cache.policies[i].enabled = cfg.cache.policies[i].enabled
          /\ k.cache.policies[i].mode = CappedMode(cfg.cache.policies[i].mode, c)
EveryModeCapped(cfg, k, c) == ModesCapped(cfg, k, c) /\ PoliciesCapped(cfg, k, c) /\ CachesCapped(cfg, k, c)

\* The ceiling caps every mode of a configuration and leaves the rest.
LEMMA CeilingFacts ==
    ASSUME NEW cfg \in ConfigType, NEW mode
    PROVE  EveryModeCapped(cfg, ApplyStartupCeiling(cfg, mode), CeilingOf(mode))
  <1>1. PICK c, k : c = CeilingOf(mode) /\ k = ApplyStartupCeiling(cfg, mode)
    OBVIOUS
  <1>2. c \in Ceilings
    BY <1>1 DEF CeilingOf, Ceilings
  <1>3. PICK p \in Seq(Policy), s \in Seq(CachePolicy) : p = cfg.policies /\ s = cfg.cache.policies
    BY DEF ConfigType, CacheType
  <1>4. PICK ps, cs : ps = CappedList(p, c) /\ cs = CappedCaches(s, c)
    OBVIOUS
  <1>5. k = [global |-> CappedMode(cfg.global, c), policies |-> ps,
             cache |-> [enabled |-> cfg.cache.enabled, global |-> CappedMode(cfg.cache.global, c),
                        roots |-> cfg.cache.roots, policies |-> cs]]
    BY <1>1, <1>3, <1>4, CeilingShape, Zenon DEF Capped
  <1>6. /\ k.global = CappedMode(cfg.global, c) /\ k.policies = ps /\ k.cache.global = CappedMode(cfg.cache.global, c)
        /\ k.cache.enabled = cfg.cache.enabled /\ k.cache.roots = cfg.cache.roots /\ k.cache.policies = cs
    BY <1>5
  <1>7. Len(p) \in Nat /\ Len(s) \in Nat /\ DOMAIN ps = 1..Len(p) /\ DOMAIN cs = 1..Len(s)
    BY <1>4 DEF CappedList, CappedCaches
  <1>8. Len(ps) = Len(p) /\ Len(cs) = Len(s)
    <2>1. ps \in Seq({CappedPolicy(p[i], c) : i \in 1..Len(p)})
      BY <1>4, <1>7 DEF CappedList, CappedCaches
    <2>2. cs \in Seq({[s[i] EXCEPT !.mode = CappedMode(s[i].mode, c)] : i \in 1..Len(s)})
      BY <1>4, <1>7 DEF CappedList, CappedCaches
    <2>. QED
      BY <1>7, <2>1, <2>2, LenProperties
  <1>9. ASSUME NEW i \in 1..Len(p) PROVE p[i] \in Policy /\ PolicyCapped(p[i], ps[i], c)
    <2>1. p[i] \in Policy /\ ps[i] = CappedPolicy(p[i], c)
      BY <1>4 DEF CappedList
    <2>. QED
      BY <1>2, <2>1, CappedPolicyFacts, Zenon
  <1>10. ASSUME NEW i \in 1..Len(s)
         PROVE  s[i] \in CachePolicy /\ cs[i].enabled = s[i].enabled /\ cs[i].mode = CappedMode(s[i].mode, c)
    <2>1. PICK x, m, y : x \in CachePolicy /\ x = s[i] /\ m = CappedMode(x.mode, c) /\ y = cs[i]
      OBVIOUS
    <2>2. y = [x EXCEPT !.mode = m]
      BY <1>4, <2>1 DEF CappedCaches
    <2>3. x = [enabled |-> x.enabled, mode |-> x.mode]
      BY <2>1 DEF CachePolicy
    <2>4. y = [enabled |-> x.enabled, mode |-> m]
      BY <2>2, <2>3
    <2>. QED
      BY <2>1, <2>4
  <1>11. ModesCapped(cfg, k, c)
    BY <1>2, <1>6 DEF ModesCapped
  <1>12. PoliciesCapped(cfg, k, c)
    BY <1>3, <1>6, <1>7, <1>8, <1>9, Zenon DEF PoliciesCapped
  <1>13. CachesCapped(cfg, k, c)
    BY <1>3, <1>6, <1>7, <1>8, <1>10, Zenon DEF CachesCapped
  <1>. QED
    BY <1>1, <1>11, <1>12, <1>13, Zenon DEF EveryModeCapped

\* The ceiling never makes a valid configuration invalid.
LEMMA CeilingValid ==
    ASSUME NEW cfg \in ConfigType, NEW mode, Validate(cfg)
    PROVE  Validate(ApplyStartupCeiling(cfg, mode))
  <1>1. PICK c, k : c = CeilingOf(mode) /\ k = ApplyStartupCeiling(cfg, mode)
    OBVIOUS
  <1>2. /\ c \in Ceilings /\ k.global = CappedMode(cfg.global, c)
        /\ k.cache.global = CappedMode(cfg.cache.global, c)
        /\ k.cache.enabled = cfg.cache.enabled /\ k.cache.roots = cfg.cache.roots
    BY <1>1, CeilingFacts, Zenon DEF EveryModeCapped, ModesCapped
  <1>3. /\ Len(k.policies) = Len(cfg.policies) /\ Len(cfg.policies) \in Nat
        /\ \A i \in 1..Len(cfg.policies) : cfg.policies[i] \in Policy /\ PolicyCapped(cfg.policies[i], k.policies[i], c)
    BY <1>1, CeilingFacts, Zenon DEF EveryModeCapped, PoliciesCapped
  <1>4. /\ Len(k.cache.policies) = Len(cfg.cache.policies) /\ Len(cfg.cache.policies) \in Nat
        /\ \A i \in 1..Len(cfg.cache.policies) :
              /\ cfg.cache.policies[i] \in CachePolicy
              /\ k.cache.policies[i].enabled = cfg.cache.policies[i].enabled
              /\ k.cache.policies[i].mode = CappedMode(cfg.cache.policies[i].mode, c)
    BY <1>1, CeilingFacts, Zenon DEF EveryModeCapped, CachesCapped
  <1>5. cfg.global \in Modes /\ ValidPolicies(cfg.policies) /\ ValidCache(cfg.cache)
    BY DEF Validate
  <1>6. k.global \in Modes
    BY <1>2, <1>5, CappedModeFacts
  <1>7. ASSUME NEW i \in 1..Len(k.policies)
        PROVE  /\ ~(k.policies[i].enabled /\ k.policies[i].mode = "disabled")
               /\ k.policies[i].mode # "enforce" /\ ~k.policies[i].automatic
    <2>1. PICK p, q : p = cfg.policies[i] /\ q = k.policies[i] /\ p \in Policy /\ PolicyCapped(p, q, c)
      BY <1>3
    <2>2. ~(p.enabled /\ p.mode = "disabled") /\ (p.automatic <=> p.mode = "enforce")
      BY <1>3, <1>5, <2>1 DEF ValidPolicies
    <2>3. p.mode \in Modes
      BY <2>1 DEF Policy
    <2>4. PICK m : m = CappedMode(p.mode, c) /\ m # "enforce" /\ (m = "disabled" <=> p.mode = "disabled")
      BY <1>2, <2>3, CappedModeFacts
    <2>5. q.enabled = p.enabled /\ q.mode = m /\ q.automatic = IF m = p.mode THEN p.automatic ELSE FALSE
      BY <2>1, <2>4 DEF PolicyCapped
    <2>6. ~(q.enabled /\ q.mode = "disabled") /\ q.mode # "enforce" /\ ~q.automatic
      BY <2>2, <2>4, <2>5
    <2>. QED
      BY <2>1, <2>6
  <1>8. ValidPolicies(k.policies)
    <2>1. {i \in 1..Len(k.policies) : k.policies[i].enabled /\ k.policies[i].mode = "enforce"} = {}
      BY <1>7
    <2>2. Cardinality({i \in 1..Len(k.policies) : k.policies[i].enabled /\ k.policies[i].mode = "enforce"}) <= 1
      BY <2>1, FS_EmptySet
    <2>. QED
      BY <1>7, <2>2 DEF ValidPolicies
  <1>9. ValidCache(k.cache)
    <2>1. /\ cfg.cache.global \in {"disabled", "audit", "recommend"} /\ (cfg.cache.enabled => cfg.cache.roots)
          /\ \A i \in 1..Len(cfg.cache.policies) :
                /\ cfg.cache.policies[i].mode # "enforce"
                /\ ~(cfg.cache.policies[i].enabled /\ cfg.cache.policies[i].mode = "disabled")
          /\ Cardinality({i \in 1..Len(cfg.cache.policies) : cfg.cache.policies[i].enabled}) <= 1
      BY <1>5 DEF ValidCache
    <2>2. k.cache.global \in {"disabled", "audit", "recommend"}
      <3>1. cfg.cache.global \in Modes
        BY <2>1 DEF Modes
      <3>2. k.cache.global \in Modes /\ k.cache.global # "enforce"
        BY <1>2, <3>1, CappedModeFacts
      <3>. QED
        BY <3>2 DEF Modes
    <2>3. k.cache.enabled => k.cache.roots
      BY <1>2, <2>1
    <2>4. ASSUME NEW i \in 1..Len(k.cache.policies)
          PROVE  /\ k.cache.policies[i].mode # "enforce"
                 /\ ~(k.cache.policies[i].enabled /\ k.cache.policies[i].mode = "disabled")
      <3>1. i \in 1..Len(cfg.cache.policies) /\ cfg.cache.policies[i].mode \in Modes
        BY <1>4 DEF CachePolicy
      <3>2. /\ CappedMode(cfg.cache.policies[i].mode, c) # "enforce"
            /\ CappedMode(cfg.cache.policies[i].mode, c) = "disabled" <=> cfg.cache.policies[i].mode = "disabled"
        BY <1>2, <3>1, CappedModeFacts
      <3>. QED
        BY <1>4, <2>1, <3>1, <3>2
    <2>5. {i \in 1..Len(k.cache.policies) : k.cache.policies[i].enabled}
          = {i \in 1..Len(cfg.cache.policies) : cfg.cache.policies[i].enabled}
      BY <1>4
    <2>6. Cardinality({i \in 1..Len(k.cache.policies) : k.cache.policies[i].enabled}) <= 1
      BY <2>1, <2>5
    <2>. QED
      BY <2>2, <2>3, <2>4, <2>6 DEF ValidCache
  <1>. QED
    BY <1>1, <1>6, <1>8, <1>9 DEF Validate

\* What a start ends up with: the file over the profile, capped when there is a mode.
Asked(in) == Overlay(IF in.mode = Unset THEN Default ELSE StartupDefaults(in.mode, in.roots), in.file)
Running(in) == IF in.mode = Unset THEN Asked(in) ELSE ApplyStartupCeiling(Asked(in), in.mode)

\* A start refuses exactly the files that validation refuses, and asks for what
\* the file says where it says something.
StartsAs(in) ==
    /\ Asked(in) \in ConfigType /\ in.file \in File(Seq(Policy), Seq(CachePolicy))
    /\ Effective(in) = IF Validate(Asked(in)) THEN <<Running(in)>> ELSE <<>>
    /\ in.mode # Unset => Loaded(StartupDefaults(in.mode, in.roots), in.file) =
                             IF Validate(Asked(in)) THEN <<Asked(in)>> ELSE <<>>
    /\ in.file.global # Unset => Asked(in).global = in.file.global
    /\ in.file.cacheGlobal # Unset => Asked(in).cache.global = in.file.cacheGlobal
    /\ in.file.policies # <<>> => Asked(in).policies = in.file.policies[1]

\* Loading and capping amount to that.
LEMMA EffectiveShape ==
    ASSUME NEW in \in AnyStartup
    PROVE  StartsAs(in)
  <1>1. in.roots \in BOOLEAN /\ in.file \in File(Seq(Policy), Seq(CachePolicy))
    BY DEF AnyStartup
  <1>2. PICK profile \in ConfigType : profile = IF in.mode = Unset THEN Default ELSE StartupDefaults(in.mode, in.roots)
    BY <1>1, DefaultsTyped
  <1>3. Asked(in) = Overlay(profile, in.file)
    BY <1>2 DEF Asked
  <1>4. /\ Asked(in) \in ConfigType
        /\ in.file.global # Unset => Asked(in).global = in.file.global
        /\ in.file.cacheGlobal # Unset => Asked(in).cache.global = in.file.cacheGlobal
        /\ in.file.policies # <<>> => Asked(in).policies = in.file.policies[1]
    BY <1>1, <1>3, OverlayTyped
  <1>5. Loaded(profile, in.file) = IF Validate(Asked(in)) THEN <<Asked(in)>> ELSE <<>>
    BY <1>3 DEF Loaded
  <1>6. Effective(in) = IF Validate(Asked(in)) THEN <<Running(in)>> ELSE <<>>
    <2>1. CASE in.mode = Unset
      BY <1>2, <1>5, <2>1 DEF Effective, Running
    <2>2. CASE in.mode # Unset /\ Validate(Asked(in))
      <3>1. PICK cfg : cfg = <<Asked(in)>> /\ cfg = Loaded(StartupDefaults(in.mode, in.roots), in.file)
        BY <1>2, <1>5, <2>2
      <3>2. cfg # <<>> /\ cfg[1] = Asked(in)
        BY <3>1
      <3>3. Validate(ApplyStartupCeiling(Asked(in), in.mode))
        BY <1>4, <2>2, CeilingValid
      <3>4. Running(in) = ApplyStartupCeiling(cfg[1], in.mode)
        BY <2>2, <3>2 DEF Running
      <3>5. LoadForStartup(in.mode, in.roots, in.file) = <<Running(in)>>
        BY <3>1, <3>2, <3>3, <3>4, Zenon DEF LoadForStartup
      <3>. QED
        BY <2>2, <3>5, Zenon DEF Effective
    <2>3. CASE in.mode # Unset /\ ~Validate(Asked(in))
      <3>1. Loaded(StartupDefaults(in.mode, in.roots), in.file) = <<>>
        BY <1>2, <1>5, <2>3
      <3>. QED
        BY <2>3, <3>1, Zenon DEF Effective, LoadForStartup
    <2>. QED
      BY <2>1, <2>2, <2>3, Zenon
  <1>. QED
    BY <1>1, <1>2, <1>4, <1>5, <1>6 DEF StartsAs

\* Every mode of what a start runs with, against what the file and the profile
\* asked for.
RunsBelow(in) ==
    /\ Running(in).global \in Modes /\ Running(in).cache.global \in Modes
    /\ Rank(Running(in).global) <= Rank(Asked(in).global)
    /\ Rank(Running(in).cache.global) <= Rank(Asked(in).cache.global)
    /\ \A i \in 1..Len(Running(in).policies) :
          /\ Rank(Running(in).policies[i].mode) <= Rank(Asked(in).policies[i].mode)
          /\ Running(in).policies[i].automatic => Asked(in).policies[i].automatic
    /\ in.mode # Unset => Running(in).global # "enforce"
    /\ in.mode = "audit" => /\ Running(in).global \notin {"recommend", "enforce"}
                            /\ Running(in).cache.global # "recommend"

\* A start runs with no mode above what it asked for, nor above its own.
LEMMA StartRunsBelow ==
    ASSUME NEW in \in AnyStartup
    PROVE  RunsBelow(in)
  <1>1. PICK a, r : a = Asked(in) /\ r = Running(in) /\ a \in ConfigType
    BY EffectiveShape, Zenon DEF StartsAs
  <1>2. a.global \in Modes /\ a.cache.global \in Modes
    BY <1>1 DEF ConfigType, CacheType
  <1>3. \A m \in Modes : Rank(m) \in Nat
    BY DEF Rank, Modes
  <1>4. CASE in.mode = Unset
    <2>1. r = a
      BY <1>1, <1>4 DEF Running
    <2>2. \A i \in 1..Len(a.policies) : a.policies[i].mode \in Modes
      <3>1. a.policies \in Seq(Policy)
        BY <1>1 DEF ConfigType
      <3>2. \A i \in 1..Len(a.policies) : a.policies[i] \in Policy
        BY <3>1
      <3>. QED
        BY <3>2 DEF Policy
    <2>3. /\ Rank(r.global) <= Rank(a.global) /\ Rank(r.cache.global) <= Rank(a.cache.global)
          /\ \A i \in 1..Len(r.policies) : Rank(r.policies[i].mode) <= Rank(a.policies[i].mode)
      BY <1>2, <1>3, <2>1, <2>2
    <2>4. in.mode # "audit"
      BY <1>4 DEF Unset
    <2>. QED
      BY <1>1, <1>2, <1>4, <2>1, <2>3, <2>4, Zenon DEF RunsBelow
  <1>5. CASE in.mode # Unset
    <2>1. PICK c : c = CeilingOf(in.mode)
      OBVIOUS
    <2>2. r = ApplyStartupCeiling(a, in.mode)
      BY <1>1, <1>5 DEF Running
    <2>3. EveryModeCapped(a, r, c)
      BY <1>1, <2>1, <2>2, CeilingFacts, Zenon
    <2>4. /\ c \in Ceilings /\ r.global = CappedMode(a.global, c)
          /\ r.cache.global = CappedMode(a.cache.global, c)
      BY <2>3, Zenon DEF EveryModeCapped, ModesCapped
    <2>5. /\ r.global \in Modes /\ r.cache.global \in Modes /\ r.global # "enforce"
          /\ Rank(r.global) <= Rank(a.global) /\ Rank(r.cache.global) <= Rank(a.cache.global)
          /\ c = "audit" => r.global \notin {"recommend", "enforce"} /\ r.cache.global # "recommend"
      BY <1>2, <2>4, CappedModeFacts
    <2>6. in.mode = "audit" => c = "audit"
      BY <2>1 DEF CeilingOf
    <2>7. ASSUME NEW i \in 1..Len(r.policies)
          PROVE  /\ Rank(r.policies[i].mode) <= Rank(a.policies[i].mode)
                 /\ r.policies[i].automatic => a.policies[i].automatic
      <3>1. Len(r.policies) = Len(a.policies)
        BY <2>3, Zenon DEF EveryModeCapped, PoliciesCapped
      <3>2. i \in 1..Len(a.policies)
        BY <3>1
      <3>3. PICK p, q : p = a.policies[i] /\ q = r.policies[i] /\ p \in Policy /\ PolicyCapped(p, q, c)
        BY <2>3, <3>2, Zenon DEF EveryModeCapped, PoliciesCapped
      <3>4. p.mode \in Modes /\ p.automatic \in BOOLEAN
        BY <3>3 DEF Policy
      <3>5. Rank(q.mode) <= Rank(p.mode)
        BY <2>4, <3>3, <3>4, CappedModeFacts DEF PolicyCapped
      <3>6. q.automatic => p.automatic
        BY <3>3, <3>4 DEF PolicyCapped
      <3>. QED
        BY <3>3, <3>5, <3>6, Zenon
    <2>. QED
      BY <1>1, <1>5, <2>5, <2>6, <2>7, Zenon DEF RunsBelow
  <1>. QED
    BY <1>4, <1>5, Zenon

\* For every file, whatever it says and however many policies it lists, every
\* profile and every startup mode: an audit start has no authority over
\* processes or cache artifacts, a reconcile start none that is automatic, the
\* ceiling raises nothing and never makes a valid configuration invalid
\* (config/startup.go: applyStartupCeiling, cappedMode, LoadForStartup).
THEOREM CeilingEveryFile ==
    \A in \in AnyStartup : CeilingHolds(in) /\ CeilingKeepsValidity(in) /\ OnlyNarrows(in)
  <1>. SUFFICES ASSUME NEW in \in AnyStartup
                PROVE  CeilingHolds(in) /\ CeilingKeepsValidity(in) /\ OnlyNarrows(in)
    OBVIOUS
  <1>1. StartsAs(in) /\ RunsBelow(in)
    BY EffectiveShape, StartRunsBelow, Zenon
  <1>2. PICK a, r, e : a = Asked(in) /\ r = Running(in) /\ e = Effective(in)
    OBVIOUS
  <1>3. e = IF Validate(a) THEN <<r>> ELSE <<>>
    BY <1>1, <1>2, Zenon DEF StartsAs
  <1>4. \A i \in 1..Len(e) : e[i] = r
    BY <1>3
  <1>5. /\ r.global \in Modes /\ r.cache.global \in Modes
        /\ Rank(r.global) <= Rank(a.global) /\ Rank(r.cache.global) <= Rank(a.cache.global)
        /\ \A i \in 1..Len(r.policies) :
              /\ Rank(r.policies[i].mode) <= Rank(a.policies[i].mode)
              /\ r.policies[i].automatic => a.policies[i].automatic
        /\ in.mode # Unset => r.global # "enforce"
        /\ in.mode = "audit" => r.global \notin {"recommend", "enforce"} /\ r.cache.global # "recommend"
    BY <1>1, <1>2, Zenon DEF RunsBelow
  <1>6. /\ in.file.global # Unset => a.global = in.file.global
        /\ in.file.cacheGlobal # Unset => a.cache.global = in.file.cacheGlobal
        /\ in.file.policies # <<>> => a.policies = in.file.policies[1]
    BY <1>1, <1>2, Zenon DEF StartsAs
  <1>7. CeilingHolds(in)
    <2>1. in.mode # Unset => ~AutomaticCleanupEnabled(r)
      BY <1>5 DEF AutomaticCleanupEnabled
    <2>2. in.mode = "audit" => ~ManualCleanupEnabled(r) /\ ~CachePolicyEnabled(r)
      BY <1>5 DEF ManualCleanupEnabled, CachePolicyEnabled
    <2>. QED
      BY <1>2, <1>4, <2>1, <2>2, Zenon DEF CeilingHolds
  <1>8. CeilingKeepsValidity(in)
    <2>1. CASE in.mode # Unset
      <3>1. PICK l : l = Loaded(StartupDefaults(in.mode, in.roots), in.file)
        OBVIOUS
      <3>2. l = IF Validate(a) THEN <<a>> ELSE <<>>
        BY <1>1, <1>2, <2>1, <3>1, Zenon DEF StartsAs
      <3>3. Len(l) = Len(e)
        BY <1>3, <3>2
      <3>. QED
        BY <1>2, <3>1, <3>3, Zenon DEF CeilingKeepsValidity
    <2>. QED
      BY <2>1 DEF CeilingKeepsValidity
  <1>9. OnlyNarrows(in)
    <2>1. in.file.global # Unset => Rank(r.global) <= Rank(in.file.global)
      BY <1>5, <1>6, Zenon
    <2>2. in.file.cacheGlobal # Unset => Rank(r.cache.global) <= Rank(in.file.cacheGlobal)
      BY <1>5, <1>6, Zenon
    <2>3. in.file.policies # <<>> =>
            \A k \in 1..Len(r.policies) : /\ Rank(r.policies[k].mode) <= Rank(in.file.policies[1][k].mode)
                                          /\ r.policies[k].automatic => in.file.policies[1][k].automatic
      BY <1>5, <1>6, Zenon
    <2>. QED
      BY <1>2, <1>4, <2>1, <2>2, <2>3, Zenon DEF OnlyNarrows
  <1>. QED
    BY <1>7, <1>8, <1>9

\* The files of the model are files.
LEMMA StartupInputsTyped == StartupInputs \subseteq AnyStartup
  <1>1. PolicyLists \subseteq Seq(Policy)
    <2>1. \A p, q \in Policy : <<p>> \in Seq(Policy) /\ <<p, q>> \in Seq(Policy)
      OBVIOUS
    <2>2. <<>> \in Seq(Policy)
      OBVIOUS
    <2>3. ASSUME NEW l \in PolicyLists PROVE l \in Seq(Policy)
      <3>1. CASE l = <<>>
        BY <2>2, <3>1, Zenon
      <3>2. CASE \E p \in Policy : l = <<p>>
        BY <2>1, <3>2, Zenon
      <3>3. CASE \E p, q \in {r \in Policy : r.narrow /\ (r.automatic <=> r.mode = "enforce")} : l = <<p, q>>
        <4>1. PICK p, q \in Policy : l = <<p, q>>
          BY <3>3, Zenon
        <4>. QED
          BY <2>1, <4>1, Zenon
      <3>. QED
        BY <3>1, <3>2, <3>3 DEF PolicyLists
    <2>. QED
      BY <2>3, Zenon
  <1>2. CachePolicyLists \subseteq Seq(CachePolicy)
    <2>1. \A p \in CachePolicy : <<p>> \in Seq(CachePolicy)
      OBVIOUS
    <2>2. <<>> \in Seq(CachePolicy)
      OBVIOUS
    <2>. QED
      BY <2>1, <2>2, Zenon DEF CachePolicyLists
  <1>3. File(PolicyLists, CachePolicyLists) \subseteq File(Seq(Policy), Seq(CachePolicy))
    BY <1>1, <1>2 DEF File
  <1>. QED
    BY <1>3 DEF StartupInputs, AnyStartup

\* Whatever a start is given, its mode is a ceiling (config/startup.go:
\* applyStartupCeiling, cappedMode, LoadForStartup).
THEOREM CeilingCorrect == Spec => []StartupCeiling
  <1>1. InputOK => StartupCeiling
    <2>. SUFFICES ASSUME InputOK, part = "startup", input # <<>>
                  PROVE  CeilingHolds(input[1]) /\ CeilingKeepsValidity(input[1]) /\ OnlyNarrows(input[1])
      BY DEF StartupCeiling, Given
    <2>1. input[1] \in AnyStartup
      BY StartupInputsTyped DEF InputOK
    <2>. QED
      BY <2>1, CeilingEveryFile, Zenon
  <1>. QED
    BY <1>1, InputCorrect, PTL

(***************************************************************************)
(* Ancestry: paths of believed parent links.                               *)
(***************************************************************************)

\* A snapshot whose start times can be compared.
Dated(snap) == \A x \in DOMAIN snap : snap[x].start \in Int

\* A path of n believed parent links leads from q up to p.
IsPath(snap, f, q, n, p) ==
    /\ f \in [0..n -> DOMAIN snap] /\ f[0] = q /\ f[n] = p
    /\ \A i \in 1..n : Link(snap, f[i - 1]) = "intact" /\ snap[f[i - 1]].ppid = f[i]
Path(snap, q, n, p) == \E f : IsPath(snap, f, q, n, p)

\* One of at most n links does.
Within(snap, q, n, p) == \E m \in 0..n : Path(snap, q, m, p)

\* A believed parent is in the snapshot and not younger than its child.
LEMMA IntactFacts ==
    ASSUME NEW snap, NEW x, Link(snap, x) = "intact"
    PROVE  /\ x \in DOMAIN snap /\ snap[x].ppid \in DOMAIN snap
           /\ ~(snap[snap[x].ppid].start > snap[x].start)
  <1>1. x \in DOMAIN snap /\ ClassifyLink(snap, x) = "intact"
    BY DEF Link
  <1>2. PICK parent : parent = snap[x].ppid
    OBVIOUS
  <1>3. x # InitPid /\ parent # NoPid /\ parent # x
    BY <1>1, <1>2 DEF ClassifyLink
  <1>4. parent \in DOMAIN snap
    BY <1>1, <1>2, <1>3 DEF ClassifyLink
  <1>5. ~(snap[parent].start > snap[x].start)
    BY <1>1, <1>2, <1>3, <1>4 DEF ClassifyLink
  <1>. QED
    BY <1>1, <1>2, <1>4, <1>5

\* The path without links.
LEMMA PathZero ==
    ASSUME NEW snap, NEW q \in DOMAIN snap, NEW p
    PROVE  Path(snap, q, 0, p) <=> p = q
  <1>1. ASSUME p = q PROVE Path(snap, q, 0, p)
    <2>1. PICK f : f = [i \in 0..0 |-> q]
      OBVIOUS
    <2>2. IsPath(snap, f, q, 0, p)
      BY <1>1, <2>1 DEF IsPath
    <2>. QED
      BY <2>2 DEF Path
  <1>2. ASSUME Path(snap, q, 0, p) PROVE p = q
    BY <1>2 DEF Path, IsPath
  <1>. QED
    BY <1>1, <1>2

\* The ends of a path are in the snapshot.
LEMMA PathEnds ==
    ASSUME NEW snap, NEW q, NEW n \in Nat, NEW p, Path(snap, q, n, p)
    PROVE  q \in DOMAIN snap /\ p \in DOMAIN snap
  <1>1. PICK f : IsPath(snap, f, q, n, p)
    BY DEF Path
  <1>2. 0 \in 0..n /\ n \in 0..n
    OBVIOUS
  <1>. QED
    BY <1>1, <1>2 DEF IsPath

\* A path goes on above its top.
LEMMA PathAbove ==
    ASSUME NEW snap, NEW q, NEW n \in Nat, NEW p, Path(snap, q, n, p), Link(snap, p) = "intact"
    PROVE  Path(snap, q, n + 1, snap[p].ppid)
  <1>1. PICK f : IsPath(snap, f, q, n, p)
    BY DEF Path
  <1>2. PICK u \in DOMAIN snap : u = snap[p].ppid
    BY IntactFacts
  <1>3. PICK g : g = [i \in 0..(n + 1) |-> IF i = n + 1 THEN u ELSE f[i]]
    OBVIOUS
  <1>4. /\ f \in [0..n -> DOMAIN snap] /\ f[0] = q /\ f[n] = p
        /\ \A i \in 1..n : Link(snap, f[i - 1]) = "intact" /\ snap[f[i - 1]].ppid = f[i]
    BY <1>1 DEF IsPath
  <1>5. g \in [0..(n + 1) -> DOMAIN snap] /\ g[0] = q /\ g[n + 1] = u
    BY <1>2, <1>3, <1>4
  <1>6. ASSUME NEW i \in 1..(n + 1) PROVE Link(snap, g[i - 1]) = "intact" /\ snap[g[i - 1]].ppid = g[i]
    <2>1. g[i - 1] = f[i - 1]
      BY <1>3
    <2>2. CASE i = n + 1
      <3>1. f[i - 1] = p /\ g[i] = u
        BY <1>4, <1>5, <2>2
      <3>. QED
        BY <1>2, <2>1, <3>1
    <2>3. CASE i # n + 1
      <3>1. i \in 1..n /\ g[i] = f[i]
        BY <1>3, <2>3
      <3>. QED
        BY <1>4, <2>1, <3>1
    <2>. QED
      BY <2>2, <2>3
  <1>7. IsPath(snap, g, q, n + 1, u)
    BY <1>5, <1>6 DEF IsPath
  <1>. QED
    BY <1>2, <1>7 DEF Path

\* A path with a link has a last one.
LEMMA PathLast ==
    ASSUME NEW snap, NEW q, NEW n \in Nat, NEW p, Path(snap, q, n + 1, p)
    PROVE  \E x : Path(snap, q, n, x) /\ Link(snap, x) = "intact" /\ snap[x].ppid = p
  <1>1. PICK f : IsPath(snap, f, q, n + 1, p)
    BY DEF Path
  <1>2. /\ f \in [0..(n + 1) -> DOMAIN snap] /\ f[0] = q /\ f[n + 1] = p
        /\ \A i \in 1..(n + 1) : Link(snap, f[i - 1]) = "intact" /\ snap[f[i - 1]].ppid = f[i]
    BY <1>1 DEF IsPath
  <1>3. PICK g : g = [i \in 0..n |-> f[i]]
    OBVIOUS
  <1>4. g \in [0..n -> DOMAIN snap] /\ g[0] = q /\ g[n] = f[n]
    BY <1>2, <1>3
  <1>5. \A i \in 1..n : Link(snap, g[i - 1]) = "intact" /\ snap[g[i - 1]].ppid = g[i]
    BY <1>2, <1>3
  <1>6. Path(snap, q, n, f[n])
    BY <1>4, <1>5 DEF Path, IsPath
  <1>7. n + 1 \in 1..(n + 1) /\ (n + 1) - 1 = n
    OBVIOUS
  <1>8. Link(snap, f[n]) = "intact" /\ snap[f[n]].ppid = p
    BY <1>2, <1>7
  <1>. QED
    BY <1>6, <1>8

\* A path goes on below its foot.
LEMMA PathBelow ==
    ASSUME NEW snap, NEW q, NEW n \in Nat, NEW p, Link(snap, q) = "intact", Path(snap, snap[q].ppid, n, p)
    PROVE  Path(snap, q, n + 1, p)
  <1>1. PICK u : u = snap[q].ppid
    OBVIOUS
  <1>2. PICK f : IsPath(snap, f, u, n, p)
    BY <1>1 DEF Path
  <1>3. q \in DOMAIN snap
    BY IntactFacts
  <1>4. PICK g : g = [i \in 0..(n + 1) |-> IF i = 0 THEN q ELSE f[i - 1]]
    OBVIOUS
  <1>5. /\ f \in [0..n -> DOMAIN snap] /\ f[0] = u /\ f[n] = p
        /\ \A i \in 1..n : Link(snap, f[i - 1]) = "intact" /\ snap[f[i - 1]].ppid = f[i]
    BY <1>2 DEF IsPath
  <1>6. \A i \in 0..(n + 1) : i # 0 => i - 1 \in 0..n
    OBVIOUS
  <1>7. g \in [0..(n + 1) -> DOMAIN snap] /\ g[0] = q
    BY <1>3, <1>4, <1>5, <1>6
  <1>8. g[n + 1] = p
    BY <1>4, <1>5
  <1>9. ASSUME NEW i \in 1..(n + 1) PROVE Link(snap, g[i - 1]) = "intact" /\ snap[g[i - 1]].ppid = g[i]
    <2>1. g[i] = f[i - 1]
      BY <1>4
    <2>2. CASE i = 1
      <3>1. g[i - 1] = q /\ f[i - 1] = u
        BY <1>5, <1>7, <2>2
      <3>. QED
        BY <1>1, <2>1, <3>1
    <2>3. CASE i # 1
      <3>1. i - 1 \in 1..n /\ i - 1 \in 0..(n + 1) /\ i - 1 # 0
        BY <2>3
      <3>2. g[i - 1] = f[(i - 1) - 1]
        BY <1>4, <3>1
      <3>3. Link(snap, f[(i - 1) - 1]) = "intact" /\ snap[f[(i - 1) - 1]].ppid = f[i - 1]
        BY <1>5, <3>1
      <3>. QED
        BY <2>1, <3>2, <3>3
    <2>. QED
      BY <2>2, <2>3
  <1>10. IsPath(snap, g, q, n + 1, p)
    BY <1>7, <1>8, <1>9 DEF IsPath
  <1>. QED
    BY <1>10 DEF Path

\* A path with a link has a first one.
LEMMA PathFirst ==
    ASSUME NEW snap, NEW q, NEW n \in Nat, NEW p, Path(snap, q, n + 1, p)
    PROVE  Link(snap, q) = "intact" /\ Path(snap, snap[q].ppid, n, p)
  <1>1. PICK f : IsPath(snap, f, q, n + 1, p)
    BY DEF Path
  <1>2. /\ f \in [0..(n + 1) -> DOMAIN snap] /\ f[0] = q /\ f[n + 1] = p
        /\ \A i \in 1..(n + 1) : Link(snap, f[i - 1]) = "intact" /\ snap[f[i - 1]].ppid = f[i]
    BY <1>1 DEF IsPath
  <1>3. 1 \in 1..(n + 1) /\ 1 - 1 = 0
    OBVIOUS
  <1>4. Link(snap, q) = "intact" /\ snap[q].ppid = f[1]
    BY <1>2, <1>3
  <1>5. PICK g : g = [i \in 0..n |-> f[i + 1]]
    OBVIOUS
  <1>6. g \in [0..n -> DOMAIN snap] /\ g[0] = f[1] /\ g[n] = p
    BY <1>2, <1>5
  <1>7. ASSUME NEW i \in 1..n PROVE Link(snap, g[i - 1]) = "intact" /\ snap[g[i - 1]].ppid = g[i]
    <2>1. i + 1 \in 1..(n + 1) /\ (i + 1) - 1 = i /\ i - 1 \in 0..n /\ (i - 1) + 1 = i
      OBVIOUS
    <2>2. g[i] = f[i + 1] /\ g[i - 1] = f[i]
      BY <1>5, <2>1
    <2>3. Link(snap, f[i]) = "intact" /\ snap[f[i]].ppid = f[i + 1]
      BY <1>2, <2>1
    <2>. QED
      BY <2>2, <2>3
  <1>8. Path(snap, f[1], n, p)
    BY <1>6, <1>7 DEF Path, IsPath
  <1>. QED
    BY <1>4, <1>8

\* Within so many links, read from the top: the end itself, or the believed
\* parent of something within one link less.
LEMMA WithinAbove ==
    ASSUME NEW snap, NEW q \in DOMAIN snap, NEW n \in Nat, NEW p
    PROVE  Within(snap, q, n + 1, p) <=>
             \/ p = q
             \/ \E x : Within(snap, q, n, x) /\ Link(snap, x) = "intact" /\ snap[x].ppid = p
  <1>1. ASSUME p = q PROVE Within(snap, q, n + 1, p)
    <2>1. Path(snap, q, 0, p) /\ 0 \in 0..(n + 1)
      BY <1>1, PathZero
    <2>. QED
      BY <2>1 DEF Within
  <1>2. ASSUME NEW x, Within(snap, q, n, x), Link(snap, x) = "intact", snap[x].ppid = p
        PROVE  Within(snap, q, n + 1, p)
    <2>1. PICK m \in 0..n : Path(snap, q, m, x)
      BY <1>2 DEF Within
    <2>2. Path(snap, q, m + 1, p) /\ m + 1 \in 0..(n + 1)
      BY <1>2, <2>1, PathAbove
    <2>. QED
      BY <2>2 DEF Within
  <1>3. ASSUME Within(snap, q, n + 1, p), p # q
        PROVE  \E x : Within(snap, q, n, x) /\ Link(snap, x) = "intact" /\ snap[x].ppid = p
    <2>1. PICK m \in 0..(n + 1) : Path(snap, q, m, p)
      BY <1>3 DEF Within
    <2>2. m # 0
      BY <1>3, <2>1, PathZero
    <2>3. PICK j \in 0..n : m = j + 1
      <3>1. m - 1 \in 0..n /\ m = (m - 1) + 1
        BY <2>2
      <3>. QED
        BY <3>1
    <2>4. PICK x : Path(snap, q, j, x) /\ Link(snap, x) = "intact" /\ snap[x].ppid = p
      BY <2>1, <2>3, PathLast
    <2>5. Within(snap, q, n, x)
      BY <2>4 DEF Within
    <2>. QED
      BY <2>4, <2>5
  <1>. QED
    BY <1>1, <1>2, <1>3

\* The same, read from the bottom.
LEMMA WithinBelow ==
    ASSUME NEW snap, NEW q \in DOMAIN snap, NEW n \in Nat, NEW p
    PROVE  Within(snap, q, n + 1, p) <=>
             p = q \/ (Link(snap, q) = "intact" /\ Within(snap, snap[q].ppid, n, p))
  <1>1. ASSUME p = q PROVE Within(snap, q, n + 1, p)
    BY <1>1, WithinAbove
  <1>2. ASSUME Link(snap, q) = "intact", Within(snap, snap[q].ppid, n, p) PROVE Within(snap, q, n + 1, p)
    <2>1. PICK m \in 0..n : Path(snap, snap[q].ppid, m, p)
      BY <1>2 DEF Within
    <2>2. Path(snap, q, m + 1, p) /\ m + 1 \in 0..(n + 1)
      BY <1>2, <2>1, PathBelow
    <2>. QED
      BY <2>2 DEF Within
  <1>3. ASSUME Within(snap, q, n + 1, p), p # q
        PROVE  Link(snap, q) = "intact" /\ Within(snap, snap[q].ppid, n, p)
    <2>1. PICK m \in 0..(n + 1) : Path(snap, q, m, p)
      BY <1>3 DEF Within
    <2>2. m # 0
      BY <1>3, <2>1, PathZero
    <2>3. PICK j \in 0..n : m = j + 1
      <3>1. m - 1 \in 0..n /\ m = (m - 1) + 1
        BY <2>2
      <3>. QED
        BY <3>1
    <2>4. Link(snap, q) = "intact" /\ Path(snap, snap[q].ppid, j, p)
      BY <2>1, <2>3, PathFirst
    <2>. QED
      BY <2>4 DEF Within
  <1>. QED
    BY <1>1, <1>2, <1>3

\* What is within no link, within one link more, and the ends.
LEMMA WithinFacts ==
    ASSUME NEW snap, NEW q \in DOMAIN snap, NEW n \in Nat, NEW p
    PROVE  /\ Within(snap, q, 0, p) <=> p = q
           /\ Within(snap, q, n, p) => Within(snap, q, n + 1, p) /\ p \in DOMAIN snap
           /\ Within(snap, q, n, q)
  <1>1. 0..0 = {0}
    OBVIOUS
  <1>2. Within(snap, q, 0, p) <=> p = q
    BY <1>1, PathZero DEF Within
  <1>3. ASSUME Within(snap, q, n, p) PROVE Within(snap, q, n + 1, p) /\ p \in DOMAIN snap
    <2>1. PICK m \in 0..n : Path(snap, q, m, p)
      BY <1>3 DEF Within
    <2>2. p \in DOMAIN snap /\ m \in 0..(n + 1)
      BY <2>1, PathEnds
    <2>. QED
      BY <2>1, <2>2 DEF Within
  <1>4. Within(snap, q, n, q)
    <2>1. 0 \in 0..n /\ Path(snap, q, 0, q)
      BY PathZero
    <2>. QED
      BY <2>1 DEF Within
  <1>. QED
    BY <1>2, <1>3, <1>4

\* Start times do not grow along a path.
LEMMA PathDated ==
    ASSUME NEW snap, Dated(snap), NEW q \in DOMAIN snap, NEW N \in Nat, NEW p, Within(snap, q, N, p)
    PROVE  snap[p].start <= snap[q].start
  <1>. DEFINE T == {i \in 0..N : \A x : Path(snap, q, i, x) => snap[x].start <= snap[q].start}
  <1>1. 0 \in T
    BY PathZero DEF Dated
  <1>2. ASSUME NEW i \in 0..(N - 1), i \in T PROVE i + 1 \in T
    <2>1. ASSUME NEW x, Path(snap, q, i + 1, x) PROVE snap[x].start <= snap[q].start
      <3>1. PICK y : Path(snap, q, i, y) /\ Link(snap, y) = "intact" /\ snap[y].ppid = x
        BY <2>1, PathLast
      <3>2. snap[y].start <= snap[q].start
        BY <1>2, <3>1
      <3>3. y \in DOMAIN snap /\ x \in DOMAIN snap /\ ~(snap[x].start > snap[y].start)
        BY <3>1, IntactFacts
      <3>. QED
        BY <3>2, <3>3 DEF Dated
    <2>2. i + 1 \in 0..N
      OBVIOUS
    <2>. QED
      BY <2>1, <2>2
  <1>. HIDE DEF T
  <1>3. \A i \in 0..N : i \in T
    BY <1>1, <1>2, BoundedInduction
  <1>4. PICK m \in 0..N : Path(snap, q, m, p)
    BY DEF Within
  <1>. QED
    BY <1>3, <1>4 DEF T

\* The walk down is exact: after so many levels it has seen what is within that
\* many links of p, and the children of all but the last level.
LEMMA DescendantsWithin ==
    ASSUME NEW snap, NEW p \in DOMAIN snap
    PROVE  Descendants(snap, p) = {q \in DOMAIN snap : Within(snap, q, MaxTreeDepth, p)} \ {p}
  <1>. DEFINE S == [seen : SUBSET DOMAIN snap, frontier : SUBSET DOMAIN snap]
              fresh(w) == (UNION {Children(snap, c) : c \in w.frontier}) \ w.seen
              down(w) == [seen |-> w.seen \cup fresh(w), frontier |-> fresh(w)]
              base == [seen |-> {p}, frontier |-> {p}]
              step == [w \in S |-> down(w)]
              Is(w) == w = [i \in 0..MaxTreeDepth |-> IF i = 0 THEN base ELSE down(w[i - 1])]
              walk == CHOOSE w : Is(w)
  <1>1. MaxTreeDepth \in Nat
    BY TreeDepthAssumption
  <1>2. \A w \in S : down(w) \in S
    BY DEF Children
  <1>3. base \in S
    OBVIOUS
  <1>4. \E w : Is(w)
    <2>. HIDE DEF down, base, S
    <2>1. step \in [S -> S]
      BY <1>2
    <2>. HIDE DEF step
    <2>2. Iterates(MaxTreeDepth, S, base, step)
      BY <1>1, <1>3, <2>1, Iterate
    <2>3. PICK f \in [0..MaxTreeDepth -> S] : f[0] = base /\ \A i \in 1..MaxTreeDepth : f[i] = step[f[i - 1]]
      BY <2>2 DEF Iterates
    <2>4. ASSUME NEW i \in 1..MaxTreeDepth PROVE f[i] = down(f[i - 1])
      <3>1. i - 1 \in 0..MaxTreeDepth
        BY <1>1
      <3>2. f[i - 1] \in S
        BY <3>1
      <3>. QED
        BY <2>3, <3>2 DEF step
    <2>5. \A i \in 0..MaxTreeDepth : f[i] = IF i = 0 THEN base ELSE down(f[i - 1])
      BY <1>1, <2>3, <2>4
    <2>6. Is(f)
      BY <2>5
    <2>. QED
      BY <2>6
  <1>5. Is(walk)
    <2>. HIDE DEF Is
    <2>. QED
      BY <1>4, Zenon
  <1>6. Descendants(snap, p) = walk[MaxTreeDepth].seen \ {p}
    BY DEF Descendants
  <1>. HIDE DEF walk
  <1>7. \A i \in 0..MaxTreeDepth : walk[i] = IF i = 0 THEN base ELSE down(walk[i - 1])
    BY <1>5, Zenon
  <1>. DEFINE Exact(w, n) ==
                /\ w \in S /\ w.seen = {q \in DOMAIN snap : Within(snap, q, n, p)}
                /\ w.frontier \subseteq w.seen
                /\ \A x \in w.seen \ w.frontier : Children(snap, x) \subseteq w.seen
              T == {i \in 0..MaxTreeDepth : Exact(walk[i], i)}
  <1>8. Exact(base, 0)
    BY WithinFacts
  <1>9. ASSUME NEW w \in S, NEW n \in Nat, Exact(w, n) PROVE Exact(down(w), n + 1)
    <2>1. PICK v : v = down(w)
      OBVIOUS
    <2>2. v \in S
      BY <1>2, <2>1
    <2>3. v.seen = w.seen \cup fresh(w) /\ v.frontier = fresh(w)
      BY <2>1
    <2>4. \A x \in w.seen : Children(snap, x) \subseteq v.seen
      <3>. SUFFICES ASSUME NEW x \in w.seen, NEW k \in Children(snap, x) PROVE k \in v.seen
        OBVIOUS
      <3>1. CASE x \in w.frontier
        <4>1. k \in fresh(w) \/ k \in w.seen
          <5>1. k \in UNION {Children(snap, c) : c \in w.frontier}
            BY <3>1
          <5>. QED
            BY <5>1, Zenon
        <4>. HIDE DEF fresh
        <4>. QED
          BY <2>3, <4>1
      <3>2. CASE x \notin w.frontier
        BY <1>9, <2>3, <3>2
      <3>. QED
        BY <3>1, <3>2
    <2>5. ASSUME NEW q \in v.seen PROVE q \in DOMAIN snap /\ Within(snap, q, n + 1, p)
      <3>1. CASE q \in w.seen
        BY <1>9, <3>1, WithinFacts
      <3>2. CASE q \in fresh(w)
        <4>1. PICK c \in w.frontier : q \in Children(snap, c)
          BY <3>2
        <4>2. Within(snap, c, n, p)
          BY <1>9, <4>1
        <4>3. q \in DOMAIN snap /\ Link(snap, q) = "intact" /\ snap[q].ppid = c
          BY <4>1 DEF Children
        <4>. QED
          BY <4>2, <4>3, WithinBelow
      <3>. QED
        BY <2>3, <2>5, <3>1, <3>2
    <2>6. ASSUME NEW q \in DOMAIN snap, Within(snap, q, n + 1, p) PROVE q \in v.seen
      <3>1. CASE p = q
        BY <1>9, <2>3, <3>1, WithinFacts
      <3>2. CASE p # q
        <4>1. Link(snap, q) = "intact" /\ Within(snap, snap[q].ppid, n, p)
          BY <2>6, <3>2, WithinBelow
        <4>2. snap[q].ppid \in w.seen
          BY <1>9, <4>1, IntactFacts
        <4>3. q \in Children(snap, snap[q].ppid)
          BY <4>1 DEF Children
        <4>. QED
          BY <2>4, <4>2, <4>3
      <3>. QED
        BY <3>1, <3>2
    <2>7. v.seen = {q \in DOMAIN snap : Within(snap, q, n + 1, p)}
      BY <2>5, <2>6
    <2>8. \A x \in v.seen \ v.frontier : Children(snap, x) \subseteq v.seen
      BY <2>3, <2>4
    <2>. QED
      BY <2>1, <2>2, <2>3, <2>7, <2>8
  <1>. HIDE DEF Exact, down, base, S
  <1>10. 0 \in T
    <2>1. 0 \in 0..MaxTreeDepth
      BY <1>1
    <2>. QED
      BY <1>7, <1>8, <2>1
  <1>11. ASSUME NEW i \in 0..(MaxTreeDepth - 1), i \in T PROVE i + 1 \in T
    <2>1. i + 1 \in 0..MaxTreeDepth /\ i + 1 # 0 /\ (i + 1) - 1 = i /\ i \in Nat
      BY <1>1
    <2>2. walk[i + 1] = down(walk[i])
      BY <1>7, <2>1
    <2>3. Exact(walk[i], i)
      BY <1>11
    <2>4. walk[i] \in S
      BY <2>3 DEF Exact
    <2>5. Exact(down(walk[i]), i + 1)
      BY <1>9, <2>1, <2>3, <2>4
    <2>. QED
      BY <2>1, <2>2, <2>5
  <1>. HIDE DEF T
  <1>12. \A i \in 0..MaxTreeDepth : i \in T
    BY <1>1, <1>10, <1>11, BoundedInduction
  <1>13. Exact(walk[MaxTreeDepth], MaxTreeDepth)
    BY <1>1, <1>12 DEF T
  <1>14. walk[MaxTreeDepth].seen = {q \in DOMAIN snap : Within(snap, q, MaxTreeDepth, p)}
    BY <1>13 DEF Exact
  <1>. QED
    BY <1>6, <1>14

\* The walk up is exact: after so many steps it holds what is within that many
\* links above q, and everything but its last pid has its believed parent in it.
LEMMA AncestorsWithin ==
    ASSUME NEW snap, NEW q \in DOMAIN snap
    PROVE  Range(Ancestors(snap, q)) = {p \in DOMAIN snap : Within(snap, q, MaxTreeDepth, p)} \ {q}
  <1>. DEFINE S == Seq(DOMAIN snap)
              cur(above) == IF above = <<>> THEN q ELSE Last(above)
              up(above) == IF /\ Link(snap, cur(above)) = "intact"
                              /\ snap[cur(above)].ppid \notin {q} \cup Range(above)
                           THEN Append(above, snap[cur(above)].ppid) ELSE above
              step == [a \in S |-> up(a)]
              Is(w) == w = [i \in 0..MaxTreeDepth |-> IF i = 0 THEN <<>> ELSE up(w[i - 1])]
              walk == CHOOSE w : Is(w)
  <1>1. MaxTreeDepth \in Nat
    BY TreeDepthAssumption
  <1>2. \A a \in S : up(a) \in S
    <2>. SUFFICES ASSUME NEW a \in S, Link(snap, cur(a)) = "intact" PROVE Append(a, snap[cur(a)].ppid) \in S
      OBVIOUS
    <2>1. snap[cur(a)].ppid \in DOMAIN snap
      <3>. HIDE DEF cur
      <3>. QED
        BY IntactFacts
    <2>. HIDE DEF cur
    <2>. QED
      BY <2>1
  <1>3. PICK e : e = <<>> /\ e \in S
    <2>1. <<>> \in S
      OBVIOUS
    <2>. QED
      BY <2>1, Zenon
  <1>4. \E w : Is(w)
    <2>. HIDE DEF up, S
    <2>1. step \in [S -> S]
      BY <1>2
    <2>. HIDE DEF step
    <2>2. Iterates(MaxTreeDepth, S, e, step)
      BY <1>1, <1>3, <2>1, Iterate
    <2>3. PICK f \in [0..MaxTreeDepth -> S] : f[0] = e /\ \A i \in 1..MaxTreeDepth : f[i] = step[f[i - 1]]
      BY <2>2 DEF Iterates
    <2>4. ASSUME NEW i \in 1..MaxTreeDepth PROVE f[i] = up(f[i - 1])
      <3>1. i - 1 \in 0..MaxTreeDepth
        BY <1>1
      <3>2. f[i - 1] \in S
        BY <3>1
      <3>. QED
        BY <2>3, <3>2 DEF step
    <2>5. \A i \in 0..MaxTreeDepth : f[i] = IF i = 0 THEN <<>> ELSE up(f[i - 1])
      BY <1>1, <1>3, <2>3, <2>4
    <2>6. Is(f)
      BY <2>5
    <2>. QED
      BY <2>6
  <1>5. Is(walk)
    <2>. HIDE DEF Is
    <2>. QED
      BY <1>4, Zenon
  <1>6. Ancestors(snap, q) = walk[MaxTreeDepth]
    BY DEF Ancestors
  <1>. HIDE DEF walk
  <1>7. \A i \in 0..MaxTreeDepth : walk[i] = IF i = 0 THEN <<>> ELSE up(walk[i - 1])
    BY <1>5, Zenon
  <1>. DEFINE held(a) == {q} \cup Range(a)
              Exact(a, n) ==
                /\ a \in S /\ held(a) = {p \in DOMAIN snap : Within(snap, q, n, p)}
                /\ q \notin Range(a) /\ cur(a) \in held(a)
                /\ \A x \in held(a) \ {cur(a)} : Link(snap, x) = "intact" /\ snap[x].ppid \in held(a)
              T == {i \in 0..MaxTreeDepth : Exact(walk[i], i)}
  <1>8. Exact(<<>>, 0)
    <2>1. Range(<<>>) = {}
      BY DEF Range
    <2>2. held(<<>>) = {q} /\ cur(<<>>) = q
      BY <2>1
    <2>. QED
      BY <1>3, <2>1, <2>2, WithinFacts
  <1>9. ASSUME NEW a \in S, NEW n \in Nat, Exact(a, n) PROVE Exact(up(a), n + 1)
    <2>1. PICK b, c : b = up(a) /\ c = cur(a)
      OBVIOUS
    <2>2. b \in S
      BY <1>2, <2>1
    <2>. HIDE DEF cur
    <2>3. CASE Link(snap, c) = "intact" /\ snap[c].ppid \notin held(a)
      <3>1. PICK u \in DOMAIN snap : u = snap[c].ppid /\ b = Append(a, u)
        BY <2>1, <2>3, IntactFacts
      <3>2. Range(b) = Range(a) \cup {u}
        <4>1. Len(b) = Len(a) + 1 /\ DOMAIN a = 1..Len(a) /\ DOMAIN b = 1..Len(b)
              /\ (\A i \in 1..Len(a) : b[i] = a[i]) /\ b[Len(a) + 1] = u /\ Len(a) \in Nat
          BY <3>1
        <4>2. \A i \in DOMAIN b : i \in DOMAIN a \/ i = Len(a) + 1
          BY <4>1
        <4>3. \A i \in DOMAIN a : i \in DOMAIN b
          BY <4>1
        <4>4. Len(a) + 1 \in DOMAIN b
          BY <4>1
        <4>. QED
          BY <4>1, <4>2, <4>3, <4>4, Zenon DEF Range
      <3>3. cur(b) = u
        <4>1. b # <<>> /\ b[Len(b)] = u
          BY <3>1
        <4>. QED
          BY <4>1 DEF cur, Last
      <3>4. held(b) = held(a) \cup {u} /\ u # q
        BY <2>3, <3>1, <3>2
      <3>5. ASSUME NEW x \in held(b) PROVE x \in DOMAIN snap /\ Within(snap, q, n + 1, x)
        <4>1. CASE x \in held(a)
          BY <1>9, <4>1, WithinFacts
        <4>2. CASE x = u
          BY <1>9, <2>1, <2>3, <3>1, <4>2, WithinAbove
        <4>. QED
          BY <3>4, <3>5, <4>1, <4>2
      <3>6. ASSUME NEW p \in DOMAIN snap, Within(snap, q, n + 1, p) PROVE p \in held(b)
        <4>1. CASE p = q
          BY <4>1
        <4>2. CASE p # q
          <5>1. PICK x : Within(snap, q, n, x) /\ Link(snap, x) = "intact" /\ snap[x].ppid = p
            BY <3>6, <4>2, WithinAbove
          <5>2. x \in held(a)
            BY <1>9, <5>1, IntactFacts
          <5>3. CASE x = c
            BY <3>1, <3>4, <5>1, <5>3
          <5>4. CASE x # c
            BY <1>9, <2>1, <3>4, <5>1, <5>2, <5>4
          <5>. QED
            BY <5>3, <5>4
        <4>. QED
          BY <4>1, <4>2
      <3>7. held(b) = {p \in DOMAIN snap : Within(snap, q, n + 1, p)}
        BY <3>5, <3>6
      <3>8. ASSUME NEW x \in held(b) \ {u} PROVE Link(snap, x) = "intact" /\ snap[x].ppid \in held(b)
        <4>1. x \in held(a)
          BY <3>4
        <4>2. CASE x = c
          BY <2>3, <3>1, <3>4, <4>2
        <4>3. CASE x # c
          BY <1>9, <2>1, <3>4, <4>1, <4>3
        <4>. QED
          BY <4>2, <4>3
      <3>9. q \notin Range(b)
        BY <1>9, <3>2, <3>4
      <3>. QED
        BY <2>1, <2>2, <3>3, <3>4, <3>7, <3>8, <3>9
    <2>4. CASE ~(Link(snap, c) = "intact" /\ snap[c].ppid \notin held(a))
      <3>1. b = a
        BY <2>1, <2>4
      <3>2. ASSUME NEW p \in DOMAIN snap, Within(snap, q, n + 1, p) PROVE p \in held(a)
        <4>1. CASE p = q
          BY <4>1
        <4>2. CASE p # q
          <5>1. PICK x : Within(snap, q, n, x) /\ Link(snap, x) = "intact" /\ snap[x].ppid = p
            BY <3>2, <4>2, WithinAbove
          <5>2. x \in held(a)
            BY <1>9, <5>1, IntactFacts
          <5>3. CASE x = c
            BY <2>4, <5>1, <5>3
          <5>4. CASE x # c
            BY <1>9, <2>1, <5>1, <5>2, <5>4
          <5>. QED
            BY <5>3, <5>4
        <4>. QED
          BY <4>1, <4>2
      <3>3. ASSUME NEW x \in held(a) PROVE x \in DOMAIN snap /\ Within(snap, q, n + 1, x)
        BY <1>9, WithinFacts
      <3>4. held(a) = {p \in DOMAIN snap : Within(snap, q, n + 1, p)}
        BY <3>2, <3>3
      <3>. QED
        BY <1>9, <2>1, <3>1, <3>4
    <2>. QED
      BY <2>3, <2>4
  <1>. HIDE DEF Exact, up, S
  <1>10. 0 \in T
    <2>1. 0 \in 0..MaxTreeDepth
      BY <1>1
    <2>. QED
      BY <1>7, <1>8, <2>1
  <1>11. ASSUME NEW i \in 0..(MaxTreeDepth - 1), i \in T PROVE i + 1 \in T
    <2>1. i + 1 \in 0..MaxTreeDepth /\ i + 1 # 0 /\ (i + 1) - 1 = i /\ i \in Nat
      BY <1>1
    <2>2. walk[i + 1] = up(walk[i])
      BY <1>7, <2>1
    <2>3. Exact(walk[i], i)
      BY <1>11
    <2>4. walk[i] \in S
      BY <2>3 DEF Exact
    <2>5. Exact(up(walk[i]), i + 1)
      BY <1>9, <2>1, <2>3, <2>4
    <2>. QED
      BY <2>1, <2>2, <2>5
  <1>. HIDE DEF T
  <1>12. \A i \in 0..MaxTreeDepth : i \in T
    BY <1>1, <1>10, <1>11, BoundedInduction
  <1>13. Exact(walk[MaxTreeDepth], MaxTreeDepth)
    BY <1>1, <1>12 DEF T
  <1>14. PICK a : a = walk[MaxTreeDepth]
    OBVIOUS
  <1>15. {q} \cup Range(a) = {p \in DOMAIN snap : Within(snap, q, MaxTreeDepth, p)} /\ q \notin Range(a)
    BY <1>13, <1>14, Zenon DEF Exact
  <1>. QED
    BY <1>6, <1>14, <1>15

\* On any snapshot with comparable start times, torn ones with recycled pids,
\* cycles and missing parents included, and for any bound of the walks:
\* Descendants and IsDescendantOf agree, a process is never its own ancestor,
\* and no ancestor started later (process/tree.go: Ancestors, Descendants).
THEOREM AncestrySymmetric ==
    ASSUME NEW snap, Dated(snap), NEW p \in DOMAIN snap, NEW q \in DOMAIN snap
    PROVE  /\ q \in Descendants(snap, p) <=> IsDescendantOf(snap, q, p)
           /\ q \in Descendants(snap, p) => p # q /\ snap[p].start <= snap[q].start
  <1>1. q \in Descendants(snap, p) <=> p # q /\ Within(snap, q, MaxTreeDepth, p)
    BY DescendantsWithin
  <1>2. IsDescendantOf(snap, q, p) <=> p # q /\ Within(snap, q, MaxTreeDepth, p)
    BY AncestorsWithin DEF IsDescendantOf
  <1>3. Within(snap, q, MaxTreeDepth, p) => snap[p].start <= snap[q].start
    BY PathDated, TreeDepthAssumption
  <1>. QED
    BY <1>1, <1>2, <1>3

\* Whatever snapshot the tree part is given, its ancestry agrees
\* (process/tree.go: Ancestors, Descendants, IsDescendantOf).
THEOREM AncestryCorrect == Spec => []AncestryAgrees
  <1>1. ASSUME NEW snap \in TreeInputs PROVE Dated(snap)
    <2>1. PICK pids : snap \in [pids -> [ppid : 0..4, start : 1..2]]
      BY DEF TreeInputs
    <2>2. \A x \in DOMAIN snap : snap[x].start \in 1..2
      BY <2>1
    <2>. QED
      BY <2>2 DEF Dated
  <1>2. InputOK => AncestryAgrees
    <2>. SUFFICES ASSUME InputOK, part = "tree", input # <<>>,
                         NEW p \in DOMAIN input[1], NEW q \in DOMAIN input[1]
                  PROVE  /\ q \in Descendants(input[1], p) <=> IsDescendantOf(input[1], q, p)
                         /\ q \in Descendants(input[1], p) =>
                              p # q /\ input[1][p].start <= input[1][q].start
      BY DEF AncestryAgrees, Given
    <2>1. Dated(input[1])
      BY <1>1 DEF InputOK
    <2>. QED
      BY <2>1, AncestrySymmetric
  <1>. QED
    BY <1>2, InputCorrect, PTL

(***************************************************************************)
(* Confidence: the fold of the evidence against the product of what each   *)
(* piece of it leaves open.                                                *)
(***************************************************************************)

\* The fold of op over the subsets of S, from base, an element at a time.
Pick(s) == CHOOSE e \in s : TRUE
Folded(S, V, base, op) ==
    \E g \in [SUBSET S -> V] :
        \A s \in SUBSET S : g[s] = IF s = {} THEN base ELSE op[<<Pick(s), g[s \ {Pick(s)}]>>]

\* A function can be folded over a finite set.
LEMMA FoldExists ==
    ASSUME NEW S, IsFiniteSet(S), NEW V, NEW base \in V, NEW op, \A x \in S, v \in V : op[<<x, v>>] \in V
    PROVE  Folded(S, V, base, op)
  <1>. DEFINE Small(n) == {s \in SUBSET S : Cardinality(s) <= n}
              Good(n, g) == \A s \in Small(n) : g[s] = IF s = {} THEN base ELSE op[<<Pick(s), g[s \ {Pick(s)}]>>]
              T == {n \in 0..Cardinality(S) : \E g \in [Small(n) -> V] : Good(n, g)}
  <1>1. Cardinality(S) \in Nat
    BY FS_CardinalityType
  <1>2. ASSUME NEW s \in SUBSET S
        PROVE  IsFiniteSet(s) /\ Cardinality(s) \in Nat /\ Cardinality(s) <= Cardinality(S)
    BY FS_Subset, FS_CardinalityType
  <1>3. ASSUME NEW s \in SUBSET S, s # {}
        PROVE  /\ Pick(s) \in S /\ s \ {Pick(s)} \in SUBSET S
               /\ Cardinality(s \ {Pick(s)}) = Cardinality(s) - 1
    <2>1. Pick(s) \in s
      BY <1>3 DEF Pick
    <2>2. Cardinality(s \ {Pick(s)}) = Cardinality(s) - 1
      BY <1>2, <2>1, FS_RemoveElement
    <2>. QED
      BY <2>1, <2>2
  <1>4. 0 \in T
    <2>1. \A s \in Small(0) : s = {}
      BY <1>2, FS_EmptySet
    <2>2. PICK g : g = [s \in Small(0) |-> base]
      OBVIOUS
    <2>3. g \in [Small(0) -> V] /\ Good(0, g)
      BY <2>1, <2>2
    <2>. HIDE DEF Good, Small
    <2>. QED
      BY <1>1, <2>3
  <1>5. ASSUME NEW n \in 0..(Cardinality(S) - 1), n \in T PROVE n + 1 \in T
    <2>1. PICK g \in [Small(n) -> V] : Good(n, g)
      BY <1>5
    <2>2. PICK h : h = [s \in Small(n + 1) |->
                          IF s \in Small(n) THEN g[s] ELSE op[<<Pick(s), g[s \ {Pick(s)}]>>]]
      OBVIOUS
    <2>3. ASSUME NEW s \in Small(n + 1), s # {} PROVE Pick(s) \in S /\ s \ {Pick(s)} \in Small(n)
      BY <1>1, <1>2, <1>3, <2>3
    <2>4. \A s \in Small(n) : s \in Small(n + 1)
      BY <1>1, <1>2
    <2>5. {} \in Small(n)
      BY <1>1, FS_EmptySet
    <2>6. h \in [Small(n + 1) -> V]
      <3>1. ASSUME NEW s \in Small(n + 1) PROVE h[s] \in V
        <4>1. CASE s \in Small(n)
          BY <2>2, <4>1
        <4>2. CASE s \notin Small(n)
          <5>1. Pick(s) \in S /\ g[s \ {Pick(s)}] \in V
            BY <2>3, <2>5, <4>2
          <5>2. h[s] = op[<<Pick(s), g[s \ {Pick(s)}]>>]
            BY <2>2, <4>2
          <5>. QED
            BY <5>1, <5>2
        <4>. QED
          BY <4>1, <4>2
      <3>. QED
        BY <2>2, <3>1
    <2>7. ASSUME NEW s \in Small(n + 1)
          PROVE  h[s] = IF s = {} THEN base ELSE op[<<Pick(s), h[s \ {Pick(s)}]>>]
      <3>1. CASE s = {}
        BY <2>1, <2>2, <2>5, <3>1
      <3>2. CASE s # {}
        <4>1. s \ {Pick(s)} \in Small(n)
          BY <2>3, <3>2
        <4>2. h[s \ {Pick(s)}] = g[s \ {Pick(s)}]
          BY <2>2, <2>4, <4>1
        <4>3. h[s] = op[<<Pick(s), g[s \ {Pick(s)}]>>]
          BY <2>1, <2>2, <3>2
        <4>. QED
          BY <3>2, <4>2, <4>3
      <3>. QED
        BY <3>1, <3>2
    <2>8. Good(n + 1, h) /\ n + 1 \in 0..Cardinality(S)
      BY <1>1, <2>7
    <2>. HIDE DEF Good, Small
    <2>. QED
      BY <2>6, <2>8
  <1>. HIDE DEF T
  <1>6. \A n \in 0..Cardinality(S) : n \in T
    BY <1>1, <1>4, <1>5, BoundedInduction
  <1>7. PICK g \in [Small(Cardinality(S)) -> V] : Good(Cardinality(S), g)
    <2>1. Cardinality(S) \in T
      BY <1>1, <1>6
    <2>. HIDE DEF Small, Good
    <2>. QED
      BY <2>1 DEF T
  <1>8. Small(Cardinality(S)) = SUBSET S
    BY <1>2
  <1>. QED
    BY <1>7, <1>8 DEF Folded

\* The kinds of evidence; what is known of a process has at most one of each.
\* The strongest of each kind, in hundredths, and what it leaves open.
Kinds == {"backend", "basename", "package", "script", "package root", "managed", "home", "named"}
Strongest(k) ==
    IF k \in {"backend", "named"} THEN 90 ELSE IF k = "package root" THEN 85
    ELSE IF k \in {"script", "managed"} THEN 70 ELSE IF k = "package" THEN 60
    ELSE IF k = "basename" THEN 55 ELSE 45
LeavesOpen(k) ==
    IF k \in {"backend", "named"} THEN 10 ELSE IF k = "package root" THEN 15
    ELSE IF k \in {"script", "managed"} THEN 30 ELSE IF k = "package" THEN 40
    ELSE IF k = "basename" THEN 45 ELSE 55
Evidence(E) ==
    /\ IsFiniteSet(E)
    /\ \A e \in E : e.of \in Kinds /\ e.weight \in 30..Strongest(e.of)
    /\ \A e, f \in E : e.of = f.of => e = f

\* What the evidence of one kind leaves open, of a hundred, and their product.
Open(E, k) == IF \E e \in E : e.of = k THEN 100 - (CHOOSE e \in E : e.of = k).weight ELSE 100
Product(a, b, c, e, f, g, h, i) == a * (b * (c * (e * (f * (g * (h * i))))))
LeftOpen(E) == Product(Open(E, "backend"), Open(E, "basename"), Open(E, "package"), Open(E, "script"),
                       Open(E, "package root"), Open(E, "managed"), Open(E, "home"), Open(E, "named"))

\* Every part of some evidence is evidence.
LEMMA EvidencePart ==
    ASSUME NEW E, Evidence(E), NEW s \in SUBSET E
    PROVE  Evidence(s)
  BY FS_Subset DEF Evidence

\* The strongest of each kind leaves something open.
LEMMA LeavesOpenFacts ==
    ASSUME NEW k \in Kinds
    PROVE  LeavesOpen(k) \in 10..55 /\ Strongest(k) \in 45..90 /\ LeavesOpen(k) = 100 - Strongest(k)
  BY DEF LeavesOpen, Strongest

\* What one kind leaves open is a number of hundredths, bounded by the strongest
\* evidence of its kind.
LEMMA OpenFacts ==
    ASSUME NEW E, Evidence(E), NEW k \in Kinds
    PROVE  Open(E, k) \in LeavesOpen(k)..100
  <1>1. CASE \E e \in E : e.of = k
    <2>1. PICK e \in E : e.of = k /\ e = CHOOSE x \in E : x.of = k
      BY <1>1
    <2>2. e.weight \in 30..Strongest(k)
      BY <2>1 DEF Evidence
    <2>3. Open(E, k) = 100 - e.weight
      BY <1>1, <2>1 DEF Open
    <2>. QED
      BY <2>2, <2>3, LeavesOpenFacts
  <1>2. CASE ~\E e \in E : e.of = k
    BY <1>2, LeavesOpenFacts DEF Open
  <1>. QED
    BY <1>1, <1>2

\* Without one piece of the evidence its kind is open again, and no other kind changes.
LEMMA OpenWithout ==
    ASSUME NEW E, Evidence(E), NEW x \in E, NEW k \in Kinds
    PROVE  IF k = x.of THEN Open(E, k) = 100 - x.weight /\ Open(E \ {x}, k) = 100
                       ELSE Open(E \ {x}, k) = Open(E, k)
  <1>1. \A e, f \in E : e.of = f.of => e = f
    BY DEF Evidence
  <1>2. CASE k = x.of
    <2>1. x = CHOOSE e \in E : e.of = k
      <3>1. PICK y \in E : y.of = k /\ y = CHOOSE e \in E : e.of = k
        BY <1>2
      <3>. QED
        BY <1>1, <1>2, <3>1
    <2>2. ~\E e \in E \ {x} : e.of = k
      BY <1>1, <1>2
    <2>. QED
      BY <1>2, <2>1, <2>2 DEF Open
  <1>3. CASE k # x.of /\ \E e \in E : e.of = k
    <2>1. PICK y \in E : y.of = k
      BY <1>3
    <2>2. y \in E \ {x}
      BY <1>3, <2>1
    <2>3. y = CHOOSE e \in E : e.of = k
      <3>1. PICK z \in E : z.of = k /\ z = CHOOSE e \in E : e.of = k
        BY <2>1
      <3>. QED
        BY <1>1, <2>1, <3>1
    <2>4. y = CHOOSE e \in E \ {x} : e.of = k
      <3>1. PICK z \in E \ {x} : z.of = k /\ z = CHOOSE e \in E \ {x} : e.of = k
        BY <2>1, <2>2
      <3>. QED
        BY <1>1, <2>1, <3>1
    <2>. QED
      BY <1>3, <2>1, <2>2, <2>3, <2>4, Zenon DEF Open
  <1>4. CASE k # x.of /\ ~\E e \in E : e.of = k
    BY <1>4, Zenon DEF Open
  <1>. QED
    BY <1>2, <1>3, <1>4

\* With one more piece of evidence, what is left open shrinks by its share.
LEMMA LeftOpenWithout ==
    ASSUME NEW E, Evidence(E), NEW x \in E
    PROVE  LeftOpen(E) \in Int /\ LeftOpen(E \ {x}) \in Int
           /\ 100 * LeftOpen(E) = (100 - x.weight) * LeftOpen(E \ {x})
  <1>. DEFINE R == E \ {x}
  <1>1. Evidence(R)
    BY EvidencePart
  <1>. HIDE DEF R
  <1>2. PICK a, b, c, e, f, g, h, i :
             /\ a = Open(R, "backend") /\ b = Open(R, "basename") /\ c = Open(R, "package")
             /\ e = Open(R, "script") /\ f = Open(R, "package root") /\ g = Open(R, "managed")
             /\ h = Open(R, "home") /\ i = Open(R, "named")
    OBVIOUS
  <1>3. \A k \in Kinds : Open(R, k) \in Int /\ Open(E, k) \in Int
    BY <1>1, OpenFacts, LeavesOpenFacts
  <1>4. a \in Int /\ b \in Int /\ c \in Int /\ e \in Int /\ f \in Int /\ g \in Int /\ h \in Int /\ i \in Int
    BY <1>2, <1>3 DEF Kinds
  <1>5. PICK l, r : l = LeftOpen(E) /\ r = LeftOpen(R) /\ r = Product(a, b, c, e, f, g, h, i)
    BY <1>2 DEF LeftOpen
  <1>6. PICK w \in Int : w = 100 - x.weight /\ x.of \in Kinds
    <2>1. x.weight \in Int /\ x.of \in Kinds
      BY LeavesOpenFacts DEF Evidence
    <2>. QED
      BY <2>1
  <1>7. \A k \in Kinds : IF k = x.of THEN Open(E, k) = w /\ Open(R, k) = 100 ELSE Open(E, k) = Open(R, k)
    BY <1>6, OpenWithout DEF R
  <1>8. ASSUME x.of = "backend" PROVE l \in Int /\ r \in Int /\ 100 * l = w * r
    <2>1. a = 100 /\ l = Product(w, b, c, e, f, g, h, i)
      BY <1>2, <1>5, <1>7, <1>8 DEF LeftOpen, Kinds
    <2>2. Product(w, b, c, e, f, g, h, i) \in Int /\ Product(100, b, c, e, f, g, h, i) \in Int
          /\ 100 * Product(w, b, c, e, f, g, h, i) = w * Product(100, b, c, e, f, g, h, i)
      BY <1>4, <1>6 DEF Product
    <2>. QED
      BY <1>5, <2>1, <2>2
  <1>9. ASSUME x.of = "basename" PROVE l \in Int /\ r \in Int /\ 100 * l = w * r
    <2>1. b = 100 /\ l = Product(a, w, c, e, f, g, h, i)
      BY <1>2, <1>5, <1>7, <1>9 DEF LeftOpen, Kinds
    <2>2. Product(a, w, c, e, f, g, h, i) \in Int /\ Product(a, 100, c, e, f, g, h, i) \in Int
          /\ 100 * Product(a, w, c, e, f, g, h, i) = w * Product(a, 100, c, e, f, g, h, i)
      BY <1>4, <1>6 DEF Product
    <2>. QED
      BY <1>5, <2>1, <2>2
  <1>10. ASSUME x.of = "package" PROVE l \in Int /\ r \in Int /\ 100 * l = w * r
    <2>1. c = 100 /\ l = Product(a, b, w, e, f, g, h, i)
      BY <1>2, <1>5, <1>7, <1>10 DEF LeftOpen, Kinds
    <2>2. Product(a, b, w, e, f, g, h, i) \in Int /\ Product(a, b, 100, e, f, g, h, i) \in Int
          /\ 100 * Product(a, b, w, e, f, g, h, i) = w * Product(a, b, 100, e, f, g, h, i)
      BY <1>4, <1>6 DEF Product
    <2>. QED
      BY <1>5, <2>1, <2>2
  <1>11. ASSUME x.of = "script" PROVE l \in Int /\ r \in Int /\ 100 * l = w * r
    <2>1. e = 100 /\ l = Product(a, b, c, w, f, g, h, i)
      BY <1>2, <1>5, <1>7, <1>11 DEF LeftOpen, Kinds
    <2>2. Product(a, b, c, w, f, g, h, i) \in Int /\ Product(a, b, c, 100, f, g, h, i) \in Int
          /\ 100 * Product(a, b, c, w, f, g, h, i) = w * Product(a, b, c, 100, f, g, h, i)
      BY <1>4, <1>6 DEF Product
    <2>. QED
      BY <1>5, <2>1, <2>2
  <1>12. ASSUME x.of = "package root" PROVE l \in Int /\ r \in Int /\ 100 * l = w * r
    <2>1. f = 100 /\ l = Product(a, b, c, e, w, g, h, i)
      BY <1>2, <1>5, <1>7, <1>12 DEF LeftOpen, Kinds
    <2>2. Product(a, b, c, e, w, g, h, i) \in Int /\ Product(a, b, c, e, 100, g, h, i) \in Int
          /\ 100 * Product(a, b, c, e, w, g, h, i) = w * Product(a, b, c, e, 100, g, h, i)
      BY <1>4, <1>6 DEF Product
    <2>. QED
      BY <1>5, <2>1, <2>2
  <1>13. ASSUME x.of = "managed" PROVE l \in Int /\ r \in Int /\ 100 * l = w * r
    <2>1. g = 100 /\ l = Product(a, b, c, e, f, w, h, i)
      BY <1>2, <1>5, <1>7, <1>13 DEF LeftOpen, Kinds
    <2>2. Product(a, b, c, e, f, w, h, i) \in Int /\ Product(a, b, c, e, f, 100, h, i) \in Int
          /\ 100 * Product(a, b, c, e, f, w, h, i) = w * Product(a, b, c, e, f, 100, h, i)
      BY <1>4, <1>6 DEF Product
    <2>. QED
      BY <1>5, <2>1, <2>2
  <1>14. ASSUME x.of = "home" PROVE l \in Int /\ r \in Int /\ 100 * l = w * r
    <2>1. h = 100 /\ l = Product(a, b, c, e, f, g, w, i)
      BY <1>2, <1>5, <1>7, <1>14 DEF LeftOpen, Kinds
    <2>2. Product(a, b, c, e, f, g, w, i) \in Int /\ Product(a, b, c, e, f, g, 100, i) \in Int
          /\ 100 * Product(a, b, c, e, f, g, w, i) = w * Product(a, b, c, e, f, g, 100, i)
      BY <1>4, <1>6 DEF Product
    <2>. QED
      BY <1>5, <2>1, <2>2
  <1>15. ASSUME x.of = "named" PROVE l \in Int /\ r \in Int /\ 100 * l = w * r
    <2>1. i = 100 /\ l = Product(a, b, c, e, f, g, h, w)
      BY <1>2, <1>5, <1>7, <1>15 DEF LeftOpen, Kinds
    <2>2. Product(a, b, c, e, f, g, h, w) \in Int /\ Product(a, b, c, e, f, g, h, 100) \in Int
          /\ 100 * Product(a, b, c, e, f, g, h, w) = w * Product(a, b, c, e, f, g, h, 100)
      BY <1>4, <1>6 DEF Product
    <2>. QED
      BY <1>5, <2>1, <2>2
  <1>16. l \in Int /\ r \in Int /\ 100 * l = w * r
    BY <1>6, <1>8, <1>9, <1>10, <1>11, <1>12, <1>13, <1>14, <1>15 DEF Kinds
  <1>. QED
    BY <1>5, <1>6, <1>16 DEF R

\* The least of two numbers.
LEMMA MinOfTwo ==
    ASSUME NEW a \in Int, NEW b \in Int
    PROVE  Min({a, b}) = IF a <= b THEN a ELSE b
  <1>1. PICK m : m = Min({a, b})
    OBVIOUS
  <1>2. \E x \in {a, b} : \A y \in {a, b} : x =< y
    OBVIOUS
  <1>3. m \in {a, b} /\ \A y \in {a, b} : m =< y
    BY <1>1, <1>2, Zenon DEF Min
  <1>. QED
    BY <1>1, <1>3

\* r, a number of units of 1 / 1000000, is below the exact X, kept in units Scale
\* times finer, by at most 33/10 of its own units.
Scale == 10000000000
Near(r, X) == r \in Int /\ X \in Int /\ r * Scale <= X /\ 10 * X <= 10 * (r * Scale) + 33 * Scale

\* A share of a hundred, rounded down, of a number r that is short of X by at
\* most 33/10 scales is short of that share of X by no more.
LEMMA NearShare ==
    ASSUME NEW r, NEW X, Near(r, X), NEW w \in 10..70, NEW Y \in Int, 100 * Y = w * X
    PROVE  Near((w * r) \div 100, Y)
  <1>1. PICK q \in Int : q = (w * r) \div 100 /\ 100 * q <= w * r /\ w * r <= 100 * q + 99
    BY DEF Near
  <1>2. PICK g \in Int : g = X - r * Scale /\ 0 <= g /\ 10 * g <= 33 * Scale
    BY SMT DEF Near, Scale
  <1>3. 0 <= w * g /\ w * g <= 70 * g
    BY <1>2
  <1>4. w * X = w * g + (w * r) * Scale
    BY <1>2, SMT DEF Near, Scale
  <1>5. (100 * q) * Scale <= (w * r) * Scale /\ (w * r) * Scale <= (100 * q + 99) * Scale
    BY <1>1, SMT DEF Near, Scale
  <1>6. q * Scale <= Y
    BY <1>3, <1>4, <1>5, SMT DEF Scale, Near
  <1>7. 10 * Y <= 10 * (q * Scale) + 33 * Scale
    BY <1>2, <1>3, <1>4, <1>5, SMT DEF Scale, Near
  <1>. QED
    BY <1>1, <1>6, <1>7 DEF Near

\* Nothing is known: everything is open.
LEMMA NothingKnown == Near(PPM, LeftOpen({}))
  <1>1. \A k : Open({}, k) = 100
    BY DEF Open
  <1>2. LeftOpen({}) = Product(100, 100, 100, 100, 100, 100, 100, 100)
    <2>1. PICK c : c = 100
      OBVIOUS
    <2>2. /\ Open({}, "backend") = c /\ Open({}, "basename") = c /\ Open({}, "package") = c
          /\ Open({}, "script") = c /\ Open({}, "package root") = c /\ Open({}, "managed") = c
          /\ Open({}, "home") = c /\ Open({}, "named") = c
      BY <1>1, <2>1
    <2>3. LeftOpen({}) = Product(c, c, c, c, c, c, c, c)
      BY <2>2 DEF LeftOpen
    <2>. QED
      BY <2>1, <2>3
  <1>3. Product(100, 100, 100, 100, 100, 100, 100, 100) = 10000000000000000
    BY SMT DEF Product
  <1>. QED
    BY <1>2, <1>3, SMT DEF Near, PPM, Scale

\* No evidence is certain.
Cap == 990000

\* The fold that CombineWeights computes, over the subsets of the evidence.
LessOpen(s, rest) == ((100 - Min({Pick(s).weight, 99})) * rest) \div 100
IsFold(E, w) == w = [s \in SUBSET E |-> IF s = {} THEN PPM ELSE LessOpen(s, w[s \ {Pick(s)}])]
FoldOf(E) == CHOOSE w : IsFold(E, w)

\* CombineWeights is that fold over the evidence that has a weight.
LEMMA CombineIsFold ==
    ASSUME NEW E
    PROVE  CombineWeights(E) = Min({PPM - FoldOf({e \in E : e.weight > 0})[{e \in E : e.weight > 0}], Cap})
  BY SMT DEF CombineWeights, MapThenFoldSet, Pick, LessOpen, IsFold, FoldOf, Cap

\* What confidence computes: one minus a number near the product of what the
\* evidence leaves open, in whatever order the evidence is folded.
Combined(E) == \E r : Near(r, LeftOpen(E)) /\ CombineWeights(E) = Min({PPM - r, Cap})

\* The fold computes that of every set of evidence.
LEMMA CombinedNear ==
    ASSUME NEW E, Evidence(E)
    PROVE  Combined(E)
  <1>. DEFINE op == [z \in E \X Int |-> ((100 - Min({z[1].weight, 99})) * z[2]) \div 100]
              fold == FoldOf(E)
  <1>1. \A e \in E : e.weight \in 30..90
    BY LeavesOpenFacts DEF Evidence
  <1>2. ASSUME NEW e \in E PROVE Min({e.weight, 99}) = e.weight
    BY <1>1, MinOfTwo
  <1>3. {e \in E : e.weight > 0} = E
    BY <1>1
  <1>4. CombineWeights(E) = Min({PPM - fold[E], Cap})
    BY <1>3, CombineIsFold
  <1>5. \E w : IsFold(E, w)
    <2>1. \A x \in E, v \in Int : op[<<x, v>>] \in Int
      BY <1>1, <1>2
    <2>2. IsFiniteSet(E) /\ PPM \in Int
      BY SMT DEF Evidence, PPM
    <2>3. Folded(E, Int, PPM, op)
      <3>. HIDE DEF op
      <3>. QED
        BY <2>1, <2>2, FoldExists
    <2>4. PICK w \in [SUBSET E -> Int] :
            \A s \in SUBSET E : w[s] = IF s = {} THEN PPM ELSE op[<<Pick(s), w[s \ {Pick(s)}]>>]
      BY <2>3 DEF Folded
    <2>5. ASSUME NEW s \in SUBSET E, s # {} PROVE op[<<Pick(s), w[s \ {Pick(s)}]>>] = LessOpen(s, w[s \ {Pick(s)}])
      <3>1. Pick(s) \in E
        BY <2>5 DEF Pick
      <3>2. w[s \ {Pick(s)}] \in Int
        OBVIOUS
      <3>. QED
        BY <3>1, <3>2 DEF LessOpen
    <2>6. \A s \in SUBSET E : w[s] = IF s = {} THEN PPM ELSE LessOpen(s, w[s \ {Pick(s)}])
      <3>. HIDE DEF op
      <3>. QED
        BY <2>4, <2>5
    <2>7. IsFold(E, w)
      BY <2>6 DEF IsFold
    <2>. QED
      BY <2>7
  <1>6. IsFold(E, fold)
    BY <1>5, Zenon DEF FoldOf
  <1>. HIDE DEF fold
  <1>7. \A s \in SUBSET E : fold[s] = IF s = {} THEN PPM ELSE LessOpen(s, fold[s \ {Pick(s)}])
    BY <1>6 DEF IsFold
  <1>. DEFINE T == {n \in 0..Cardinality(E) :
                      \A s \in SUBSET E : Cardinality(s) = n => Near(fold[s], LeftOpen(s))}
  <1>8. ASSUME NEW s \in SUBSET E
        PROVE  Evidence(s) /\ IsFiniteSet(s) /\ Cardinality(s) \in Nat /\ (Cardinality(s) = 0 <=> s = {})
    <2>1. Evidence(s)
      BY EvidencePart
    <2>2. IsFiniteSet(s)
      BY <2>1 DEF Evidence
    <2>. QED
      BY <2>1, <2>2, FS_CardinalityType, FS_EmptySet
  <1>9. IsFiniteSet(E) /\ Cardinality(E) \in Nat
    BY <1>8
  <1>10. 0 \in T
    <2>1. ASSUME NEW s \in SUBSET E, Cardinality(s) = 0 PROVE Near(fold[s], LeftOpen(s))
      BY <1>7, <1>8, <2>1, NothingKnown
    <2>. QED
      BY <1>9, <2>1
  <1>11. ASSUME NEW n \in 0..(Cardinality(E) - 1), n \in T PROVE n + 1 \in T
    <2>1. ASSUME NEW s \in SUBSET E, Cardinality(s) = n + 1 PROVE Near(fold[s], LeftOpen(s))
      <3>1. s # {} /\ IsFiniteSet(s)
        BY <1>8, <1>9, <2>1
      <3>2. PICK x \in s : x = Pick(s)
        BY <3>1 DEF Pick
      <3>3. s \ {x} \in SUBSET E /\ Cardinality(s \ {x}) = n
        BY <2>1, <3>1, <3>2, FS_RemoveElement
      <3>4. Near(fold[s \ {x}], LeftOpen(s \ {x}))
        BY <1>11, <3>3
      <3>5. fold[s] = ((100 - x.weight) * fold[s \ {x}]) \div 100
        BY <1>2, <1>7, <3>1, <3>2 DEF LessOpen
      <3>6. PICK w \in 10..70 : w = 100 - x.weight
        BY <1>1
      <3>7. LeftOpen(s) \in Int /\ 100 * LeftOpen(s) = w * LeftOpen(s \ {x})
        BY <1>8, <3>6, LeftOpenWithout
      <3>8. Near((w * fold[s \ {x}]) \div 100, LeftOpen(s))
        BY <3>4, <3>6, <3>7, NearShare
      <3>. QED
        BY <3>5, <3>6, <3>8
    <2>. QED
      BY <1>9, <2>1
  <1>. HIDE DEF T
  <1>12. Cardinality(E) \in T
    <2>1. \A n \in 0..Cardinality(E) : n \in T
      BY <1>9, <1>10, <1>11, BoundedInduction
    <2>. QED
      BY <1>9, <2>1
  <1>13. Near(fold[E], LeftOpen(E))
    BY <1>12 DEF T
  <1>. QED
    BY <1>4, <1>13 DEF Combined

\* A product of two grows with its factors.
LEMMA TimesLeast ==
    ASSUME NEW x \in Nat, NEW y \in Nat, NEW u \in 0..x, NEW v \in 0..y
    PROVE  u * v \in 0..(x * y) /\ x * y \in Nat
  <1>1. u * v <= x * v /\ x * v <= x * y /\ 0 <= u * v
    OBVIOUS
  <1>. QED
    BY <1>1

\* A product grows with its factors.
LEMMA ProductLeast ==
    ASSUME NEW a \in Nat, NEW b \in Nat, NEW c \in Nat, NEW e \in Nat,
           NEW f \in Nat, NEW g \in Nat, NEW h \in Nat, NEW i \in Nat,
           NEW a0 \in 0..a, NEW b0 \in 0..b, NEW c0 \in 0..c, NEW e0 \in 0..e,
           NEW f0 \in 0..f, NEW g0 \in 0..g, NEW h0 \in 0..h, NEW i0 \in 0..i
    PROVE  Product(a0, b0, c0, e0, f0, g0, h0, i0) <= Product(a, b, c, e, f, g, h, i)
  <1>1. \A x, y \in Nat : \A u \in 0..x, v \in 0..y : u * v \in 0..(x * y) /\ x * y \in Nat
    BY TimesLeast
  <1>2. h * i \in Nat /\ h0 * i0 \in 0..(h * i)
    BY <1>1
  <1>3. g * (h * i) \in Nat /\ g0 * (h0 * i0) \in 0..(g * (h * i))
    BY <1>1, <1>2
  <1>4. f * (g * (h * i)) \in Nat /\ f0 * (g0 * (h0 * i0)) \in 0..(f * (g * (h * i)))
    BY <1>1, <1>3
  <1>5. PICK y, v : y = f * (g * (h * i)) /\ v = f0 * (g0 * (h0 * i0)) /\ y \in Nat /\ v \in 0..y
    BY <1>4
  <1>6. e * y \in Nat /\ e0 * v \in 0..(e * y)
    BY <1>1, <1>5
  <1>7. c * (e * y) \in Nat /\ c0 * (e0 * v) \in 0..(c * (e * y))
    BY <1>1, <1>6
  <1>8. b * (c * (e * y)) \in Nat /\ b0 * (c0 * (e0 * v)) \in 0..(b * (c * (e * y)))
    BY <1>1, <1>7
  <1>9. a * (b * (c * (e * y))) \in Nat /\ a0 * (b0 * (c0 * (e0 * v))) \in 0..(a * (b * (c * (e * y))))
    BY <1>1, <1>8
  <1>10. a0 * (b0 * (c0 * (e0 * v))) <= a * (b * (c * (e * y)))
    BY <1>9
  <1>. QED
    BY <1>5, <1>10 DEF Product

\* What evidence of a process leaves open at the least: of all of it, of names
\* alone, and of a name in the scope of the package.
LeastOf(E) ==
    /\ LeftOpen(E) >= 133650000000
    /\ (\A e \in E : e.of \in {"basename", "package", "script"}) => LeftOpen(E) >= 540000000000000
    /\ (\A e \in E : e.of = "package" /\ e.weight = 30) => LeftOpen(E) >= 7000000000000000

\* That much is left open.
LEMMA OpenLeast ==
    ASSUME NEW E, Evidence(E)
    PROVE  LeastOf(E)
  <1>1. PICK a, b, c, e, f, g, h, i :
             /\ a = Open(E, "backend") /\ b = Open(E, "basename") /\ c = Open(E, "package")
             /\ e = Open(E, "script") /\ f = Open(E, "package root") /\ g = Open(E, "managed")
             /\ h = Open(E, "home") /\ i = Open(E, "named")
    OBVIOUS
  <1>2. a \in 10..100 /\ b \in 45..100 /\ c \in 40..100 /\ e \in 30..100
        /\ f \in 15..100 /\ g \in 30..100 /\ h \in 55..100 /\ i \in 10..100
    <2>1. \A k \in Kinds : Open(E, k) \in LeavesOpen(k)..100
      BY OpenFacts
    <2>2. /\ LeavesOpen("backend") = 10 /\ LeavesOpen("basename") = 45 /\ LeavesOpen("package") = 40
          /\ LeavesOpen("script") = 30 /\ LeavesOpen("package root") = 15 /\ LeavesOpen("managed") = 30
          /\ LeavesOpen("home") = 55 /\ LeavesOpen("named") = 10
      BY DEF LeavesOpen
    <2>3. /\ "backend" \in Kinds /\ "basename" \in Kinds /\ "package" \in Kinds /\ "script" \in Kinds
          /\ "package root" \in Kinds /\ "managed" \in Kinds /\ "home" \in Kinds /\ "named" \in Kinds
      BY DEF Kinds
    <2>4. a \in 10..100 /\ b \in 45..100 /\ c \in 40..100 /\ e \in 30..100
      BY <1>1, <2>1, <2>2, <2>3
    <2>5. f \in 15..100 /\ g \in 30..100 /\ h \in 55..100 /\ i \in 10..100
      BY <1>1, <2>1, <2>2, <2>3
    <2>. QED
      BY <2>4, <2>5
  <1>3. LeftOpen(E) = Product(a, b, c, e, f, g, h, i)
    BY <1>1 DEF LeftOpen
  <1>4. LeftOpen(E) \in Int
    BY <1>2, <1>3 DEF Product
  <1>5. a \in Nat /\ b \in Nat /\ c \in Nat /\ e \in Nat /\ f \in Nat /\ g \in Nat /\ h \in Nat /\ i \in Nat
    BY <1>2
  <1>6. LeftOpen(E) >= 133650000000
    <2>1. /\ 10 \in 0..a /\ 45 \in 0..b /\ 40 \in 0..c /\ 30 \in 0..e
          /\ 15 \in 0..f /\ 30 \in 0..g /\ 55 \in 0..h /\ 10 \in 0..i
      BY <1>2
    <2>2. Product(10, 45, 40, 30, 15, 30, 55, 10) <= Product(a, b, c, e, f, g, h, i)
      BY <1>5, <2>1, ProductLeast
    <2>3. Product(10, 45, 40, 30, 15, 30, 55, 10) = 133650000000
      BY SMT DEF Product
    <2>. QED
      BY <1>3, <1>4, <2>2, <2>3, SMT
  <1>7. ASSUME NEW k, ~\E x \in E : x.of = k PROVE Open(E, k) = 100
    BY <1>7 DEF Open
  <1>8. ASSUME \A x \in E : x.of \in {"basename", "package", "script"} PROVE LeftOpen(E) >= 540000000000000
    <2>1. a = 100 /\ f = 100 /\ g = 100 /\ h = 100 /\ i = 100
      BY <1>1, <1>7, <1>8
    <2>2. /\ 100 \in 0..a /\ 45 \in 0..b /\ 40 \in 0..c /\ 30 \in 0..e
          /\ 100 \in 0..f /\ 100 \in 0..g /\ 100 \in 0..h /\ 100 \in 0..i
      BY <1>2, <2>1
    <2>3. Product(100, 45, 40, 30, 100, 100, 100, 100) <= Product(a, b, c, e, f, g, h, i)
      BY <1>5, <2>2, ProductLeast
    <2>4. Product(100, 45, 40, 30, 100, 100, 100, 100) = 540000000000000
      BY SMT DEF Product
    <2>. QED
      BY <1>3, <1>4, <2>3, <2>4, SMT
  <1>9. ASSUME \A x \in E : x.of = "package" /\ x.weight = 30 PROVE LeftOpen(E) >= 7000000000000000
    <2>1. a = 100 /\ b = 100 /\ e = 100 /\ f = 100 /\ g = 100 /\ h = 100 /\ i = 100
      BY <1>1, <1>7, <1>9
    <2>2. Open(E, "package") \in 70..100
      <3>1. CASE \E x \in E : x.of = "package"
        <4>1. PICK x \in E : x.of = "package" /\ x = CHOOSE y \in E : y.of = "package"
          BY <3>1
        <4>2. Open(E, "package") = 100 - x.weight
          BY <3>1, <4>1 DEF Open
        <4>. QED
          BY <1>9, <4>2
      <3>2. CASE ~\E x \in E : x.of = "package"
        BY <1>7, <3>2
      <3>. QED
        BY <3>1, <3>2
    <2>3. /\ 100 \in 0..a /\ 100 \in 0..b /\ 70 \in 0..c /\ 100 \in 0..e
          /\ 100 \in 0..f /\ 100 \in 0..g /\ 100 \in 0..h /\ 100 \in 0..i
      <3>1. c \in 70..100
        BY <1>1, <2>2, Zenon
      <3>. QED
        BY <2>1, <3>1
    <2>4. Product(100, 100, 70, 100, 100, 100, 100, 100) <= Product(a, b, c, e, f, g, h, i)
      BY <1>5, <2>3, ProductLeast
    <2>5. Product(100, 100, 70, 100, 100, 100, 100, 100) = 7000000000000000
      BY SMT DEF Product
    <2>. QED
      BY <1>3, <1>4, <2>4, <2>5, SMT
  <1>. QED
    BY <1>6, <1>8, <1>9, SMT DEF LeastOf

\* What is left open is a number.
LEMMA LeftOpenInt ==
    ASSUME NEW E, Evidence(E)
    PROVE  LeftOpen(E) \in Int
  <1>1. PICK r : Near(r, LeftOpen(E))
    BY CombinedNear DEF Combined
  <1>. QED
    BY <1>1 DEF Near

\* Evidence that leaves so much open is worth no more than the rest.
LEMMA CombinedBelow ==
    ASSUME NEW E, Evidence(E), NEW n \in Int, LeftOpen(E) >= n * Scale
    PROVE  CombineWeights(E) \in Int /\ CombineWeights(E) <= PPM - n + 3 /\ CombineWeights(E) <= Cap
  <1>1. PICK r : Near(r, LeftOpen(E)) /\ CombineWeights(E) = Min({PPM - r, Cap})
    BY CombinedNear DEF Combined
  <1>2. r \in Int /\ 10 * (n * Scale) <= 10 * (r * Scale) + 33 * Scale
    BY <1>1, SMT DEF Near, Scale
  <1>3. n <= r + 3
    BY <1>2, SMT DEF Scale
  <1>4. PPM - r \in Int /\ Cap \in Int /\ PPM - r <= PPM - n + 3
    BY <1>2, <1>3, SMT DEF PPM, Cap
  <1>. QED
    BY <1>1, <1>4, MinOfTwo, SMT DEF PPM

\* Evidence that leaves no more than that open is worth at least the rest.
LEMMA CombinedAbove ==
    ASSUME NEW E, Evidence(E), NEW n \in Int, LeftOpen(E) <= n * Scale, PPM - n <= Cap
    PROVE  CombineWeights(E) \in Int /\ CombineWeights(E) >= PPM - n
  <1>1. PICK r : Near(r, LeftOpen(E)) /\ CombineWeights(E) = Min({PPM - r, Cap})
    BY CombinedNear DEF Combined
  <1>2. r \in Int /\ r * Scale <= n * Scale
    BY <1>1, SMT DEF Near, Scale
  <1>3. r <= n
    BY <1>2, SMT DEF Scale
  <1>4. PPM - r \in Int /\ Cap \in Int /\ PPM - n <= PPM - r
    BY <1>2, <1>3, SMT DEF PPM, Cap
  <1>. QED
    BY <1>1, <1>4, MinOfTwo, SMT DEF PPM

\* What is within a bound, times at most a hundred, is within a hundred times the bound.
LEMMA PercentMost ==
    ASSUME NEW n \in Nat, NEW u \in 0..100, NEW v \in Nat, v <= n
    PROVE  u * v \in Nat /\ u * v <= 100 * n
  <1>1. v \in 0..n /\ u \in 0..100 /\ 100 \in Nat
    BY SMT
  <1>2. u * v \in 0..(100 * n)
    BY <1>1, TimesLeast
  <1>3. 100 * n \in Nat
    BY SMT
  <1>. QED
    BY <1>2, <1>3, SMT

\* What the backend's path and name may leave open.
BackendMost == 45000 * Scale

\* The product of a tenth, 45 hundredths and six percentages.
LEMMA NamedProduct ==
    ASSUME NEW c \in 0..100, NEW e \in 0..100, NEW f \in 0..100,
           NEW g \in 0..100, NEW h \in 0..100, NEW i \in 0..100
    PROVE  Product(10, 45, c, e, f, g, h, i) <= BackendMost
  <1>1. PICK v \in Nat : v = h * i /\ v <= 10000
    <2>1. h * i \in Nat /\ h * i <= 100 * 100
      BY PercentMost, SMT
    <2>. QED
      BY <2>1, SMT
  <1>3. PICK x \in Nat : x = g * v /\ x <= 1000000
    <2>1. g * v \in Nat /\ g * v <= 100 * 10000
      BY <1>1, PercentMost, SMT
    <2>. QED
      BY <2>1, SMT
  <1>5. PICK y \in Nat : y = f * x /\ y <= 100000000
    <2>1. f * x \in Nat /\ f * x <= 100 * 1000000
      BY <1>3, PercentMost, SMT
    <2>. QED
      BY <2>1, SMT
  <1>7. PICK z \in Nat : z = e * y /\ z <= 10000000000
    <2>1. e * y \in Nat /\ e * y <= 100 * 100000000
      BY <1>5, PercentMost, SMT
    <2>. QED
      BY <2>1, SMT
  <1>9. PICK w \in Nat : w = c * z /\ w <= 1000000000000
    <2>1. c * z \in Nat /\ c * z <= 100 * 10000000000
      BY <1>7, PercentMost, SMT
    <2>. QED
      BY <2>1, SMT
  <1>10. Product(10, 45, c, e, f, g, h, i) = 10 * (45 * w)
    <2>1. Product(10, 45, c, e, f, g, h, i) = 10 * (45 * (c * (e * (f * (g * (h * i))))))
      BY SMT DEF Product
    <2>2. @ = 10 * (45 * (c * (e * (f * x))))
      BY <1>1, <1>3, SMT
    <2>3. @ = 10 * (45 * (c * (e * y)))
      BY <1>5, SMT
    <2>4. @ = 10 * (45 * (c * z))
      BY <1>7, SMT
    <2>5. @ = 10 * (45 * w)
      BY <1>9, SMT
    <2>. QED
      BY <2>1, <2>2, <2>3, <2>4, <2>5, Zenon
  <1>11. 10 * (45 * w) <= 450000000000000
    BY <1>9, SMT
  <1>. QED
    BY <1>10, <1>11, SMT DEF BackendMost, Scale

\* The backend's path and name leave open at most 45 parts of a thousand.
LEMMA BackendOpen ==
    ASSUME NEW E, Evidence(E),
           \E x \in E : x.of = "backend" /\ x.weight = 90,
           \E x \in E : x.of = "basename" /\ x.weight = 55
    PROVE  LeftOpen(E) <= 45000 * Scale
  <1>1. PICK a, b, c, e, f, g, h, i :
             /\ a = Open(E, "backend") /\ b = Open(E, "basename") /\ c = Open(E, "package")
             /\ e = Open(E, "script") /\ f = Open(E, "package root") /\ g = Open(E, "managed")
             /\ h = Open(E, "home") /\ i = Open(E, "named")
    OBVIOUS
  <1>2. ASSUME NEW x \in E PROVE Open(E, x.of) = 100 - x.weight
    <2>1. PICK y \in E : y.of = x.of /\ y = CHOOSE z \in E : z.of = x.of
      OBVIOUS
    <2>2. y = x
      BY <2>1 DEF Evidence
    <2>. QED
      BY <2>1, <2>2 DEF Open
  <1>3. a = 10 /\ b = 45
    <2>1. PICK x \in E, y \in E : /\ x.of = "backend" /\ x.weight = 90
                                  /\ y.of = "basename" /\ y.weight = 55
      OBVIOUS
    <2>2. Open(E, "backend") = 100 - 90
      BY <1>2, <2>1, Zenon
    <2>3. Open(E, "basename") = 100 - 55
      BY <1>2, <2>1, Zenon
    <2>4. a = 100 - 90 /\ b = 100 - 55
      BY <1>1, <2>2, <2>3, Zenon
    <2>. QED
      BY <2>4, SMT
  <1>4. c \in 0..100 /\ e \in 0..100 /\ f \in 0..100 /\ g \in 0..100 /\ h \in 0..100 /\ i \in 0..100
    <2>1. \A k \in Kinds : Open(E, k) \in 0..100
      BY OpenFacts, LeavesOpenFacts
    <2>2. /\ "package" \in Kinds /\ "script" \in Kinds /\ "package root" \in Kinds
          /\ "managed" \in Kinds /\ "home" \in Kinds /\ "named" \in Kinds
      BY DEF Kinds
    <2>. QED
      BY <1>1, <2>1, <2>2
  <1>6. Product(a, b, c, e, f, g, h, i) <= BackendMost
    <2>1. Product(a, b, c, e, f, g, h, i) = Product(10, 45, c, e, f, g, h, i)
      BY <1>3, Zenon
    <2>2. Product(10, 45, c, e, f, g, h, i) <= BackendMost
      BY <1>4, NamedProduct, Zenon
    <2>. QED
      BY <2>1, <2>2, Zenon
  <1>7. LeftOpen(E) = Product(a, b, c, e, f, g, h, i) /\ LeftOpen(E) \in Int
    BY <1>1, LeftOpenInt DEF LeftOpen
  <1>. QED
    BY <1>6, <1>7, SMT DEF BackendMost, Scale

\* One more piece of evidence that is worth 45 or more never lowers what the rest
\* is worth, in whatever order either is folded.
LEMMA MoreNeverLowers ==
    ASSUME NEW E, Evidence(E), NEW x \in E, x.weight >= 45
    PROVE  CombineWeights(E \ {x}) <= CombineWeights(E)
  <1>1. PICK r : Near(r, LeftOpen(E)) /\ CombineWeights(E) = Min({PPM - r, Cap})
    BY CombinedNear DEF Combined
  <1>2. Evidence(E \ {x})
    BY EvidencePart
  <1>3. PICK q : Near(q, LeftOpen(E \ {x})) /\ CombineWeights(E \ {x}) = Min({PPM - q, Cap})
    BY <1>2, CombinedNear DEF Combined
  <1>4. PICK X \in Int, Y \in Int : /\ X = LeftOpen(E \ {x}) /\ Y = LeftOpen(E)
                                   /\ 100 * Y = (100 - x.weight) * X /\ X >= 133650000000
    BY <1>2, LeftOpenWithout, OpenLeast, SMT DEF LeastOf
  <1>5. x.weight \in 45..90
    BY LeavesOpenFacts DEF Evidence
  <1>6. (100 - x.weight) * X <= 55 * X
    BY <1>4, <1>5
  <1>7. r \in Int /\ q \in Int /\ r * Scale <= Y /\ 10 * X <= 10 * (q * Scale) + 33 * Scale
    BY <1>1, <1>3, <1>4 DEF Near
  <1>8. r <= q
    BY <1>4, <1>6, <1>7, SMT DEF Scale
  <1>9. PPM - r \in Int /\ PPM - q \in Int /\ Cap \in Int /\ PPM - q <= PPM - r
    BY <1>7, <1>8, SMT DEF PPM, Cap
  <1>. QED
    BY <1>1, <1>3, <1>9, MinOfTwo

\* A process as the adapter can find it, with names, paths and environment keys
\* from any set.
AnyProcess(W) == [base : W, dir : W, arg0 : W, script : W, env : SUBSET W]

\* All the evidence there can be when the package is worth p and the script s.
Ev(k, w) == [of |-> k, weight |-> w]
Everything(p, s) ==
    {Ev("backend", 90), Ev("basename", 55), Ev("package", p), Ev("script", s),
     Ev("package root", 85), Ev("managed", 70), Ev("home", 45), Ev("named", 90)}

\* It is evidence.
LEMMA EverythingIsEvidence ==
    ASSUME NEW p \in {30, 60}, NEW s \in {40, 70}
    PROVE  Evidence(Everything(p, s))
  <1>1. PICK a, b, c, e, f, g, h, i :
             /\ a = Ev("backend", 90) /\ b = Ev("basename", 55) /\ c = Ev("package", p) /\ e = Ev("script", s)
             /\ f = Ev("package root", 85) /\ g = Ev("managed", 70) /\ h = Ev("home", 45) /\ i = Ev("named", 90)
    OBVIOUS
  <1>2. Everything(p, s) = {a, b, c, e, f, g, h, i}
    BY <1>1 DEF Everything
  <1>3. /\ a.of = "backend" /\ b.of = "basename" /\ c.of = "package" /\ e.of = "script"
        /\ f.of = "package root" /\ g.of = "managed" /\ h.of = "home" /\ i.of = "named"
        /\ a.weight = 90 /\ b.weight = 55 /\ c.weight = p /\ e.weight = s
        /\ f.weight = 85 /\ g.weight = 70 /\ h.weight = 45 /\ i.weight = 90
    BY <1>1 DEF Ev
  <1>4. IsFiniteSet({a, b, c, e, f, g, h, i})
    <2>1. IsFiniteSet({a, b}) /\ IsFiniteSet({c, e}) /\ IsFiniteSet({f, g}) /\ IsFiniteSet({h, i})
      <3>1. ASSUME NEW x, NEW y PROVE IsFiniteSet({x, y})
        <4>1. {x, y} = {x} \cup {y} /\ IsFiniteSet({x})
          BY FS_Singleton
        <4>2. IsFiniteSet({x} \cup {y})
          BY <4>1, FS_AddElement
        <4>. QED
          BY <4>1, <4>2
      <3>. QED
        BY <3>1
    <2>2. {a, b, c, e, f, g, h, i} = ({a, b} \cup {c, e}) \cup ({f, g} \cup {h, i})
      OBVIOUS
    <2>3. IsFiniteSet({a, b} \cup {c, e}) /\ IsFiniteSet({f, g} \cup {h, i})
      BY <2>1, FS_Union
    <2>4. IsFiniteSet(({a, b} \cup {c, e}) \cup ({f, g} \cup {h, i}))
      BY <2>3, FS_Union
    <2>. QED
      BY <2>2, <2>4
  <1>5. \A x \in {a, b, c, e, f, g, h, i} : x.of \in Kinds /\ x.weight \in 30..Strongest(x.of)
    <2>1. \A x \in {a, b, c, e, f, g, h, i} : x.of \in Kinds
      BY <1>3 DEF Kinds
    <2>2. /\ Strongest(a.of) = 90 /\ Strongest(b.of) = 55 /\ Strongest(c.of) = 60 /\ Strongest(e.of) = 70
          /\ Strongest(f.of) = 85 /\ Strongest(g.of) = 70 /\ Strongest(h.of) = 45 /\ Strongest(i.of) = 90
      BY <1>3 DEF Strongest
    <2>3. /\ a.weight \in 30..90 /\ b.weight \in 30..55 /\ c.weight \in 30..60 /\ e.weight \in 30..70
          /\ f.weight \in 30..85 /\ g.weight \in 30..70 /\ h.weight \in 30..45 /\ i.weight \in 30..90
      <3>1. p \in 30..60 /\ s \in 30..70
        OBVIOUS
      <3>2. c.weight \in 30..60 /\ e.weight \in 30..70
        BY <1>3, <3>1, Zenon
      <3>3. a.weight = 90 /\ b.weight = 55 /\ f.weight = 85 /\ g.weight = 70 /\ h.weight = 45 /\ i.weight = 90
        BY <1>3, Zenon
      <3>4. a.weight \in 30..90 /\ b.weight \in 30..55 /\ f.weight \in 30..85
        BY <3>3
      <3>5. g.weight \in 30..70 /\ h.weight \in 30..45 /\ i.weight \in 30..90
        BY <3>3
      <3>. QED
        BY <3>2, <3>4, <3>5, Zenon
    <2>4. /\ a.weight \in 30..Strongest(a.of) /\ b.weight \in 30..Strongest(b.of)
          /\ c.weight \in 30..Strongest(c.of) /\ e.weight \in 30..Strongest(e.of)
      BY <2>2, <2>3
    <2>5. /\ f.weight \in 30..Strongest(f.of) /\ g.weight \in 30..Strongest(g.of)
          /\ h.weight \in 30..Strongest(h.of) /\ i.weight \in 30..Strongest(i.of)
      BY <2>2, <2>3
    <2>. QED
      BY <2>1, <2>4, <2>5
  <1>6. \A x, y \in {a, b, c, e, f, g, h, i} : x.of = y.of => x = y
    <2>. SUFFICES ASSUME NEW x \in {a, b, c, e, f, g, h, i}, NEW y \in {a, b, c, e, f, g, h, i}, x.of = y.of
                  PROVE  x = y
      OBVIOUS
    <2>1. CASE x = a
      BY <1>3, <2>1
    <2>2. CASE x = b
      BY <1>3, <2>2
    <2>3. CASE x = c
      BY <1>3, <2>3
    <2>4. CASE x = e
      BY <1>3, <2>4
    <2>5. CASE x = f
      BY <1>3, <2>5
    <2>6. CASE x = g
      BY <1>3, <2>6
    <2>7. CASE x = h
      BY <1>3, <2>7
    <2>8. CASE x = i
      BY <1>3, <2>8
    <2>. QED
      BY <2>1, <2>2, <2>3, <2>4, <2>5, <2>6, <2>7, <2>8
  <1>. QED
    BY <1>2, <1>4, <1>5, <1>6 DEF Evidence

\* What is found of a process is some of that.
LEMMA FoundIsEvidence ==
    ASSUME NEW in
    PROVE  Evidence(AllEvidence(in)) /\ Evidence(Identity(in)) /\ Evidence(ExecutableIdentity(in))
  <1>1. PICK p \in {30, 60}, s \in {40, 70} :
             /\ p = IF PackagePair(in) THEN 60 ELSE 30
             /\ s = IF in.script = "@openai/codex/codex.js" THEN 70 ELSE 40
    OBVIOUS
  <1>2. ExecutableIdentity(in) \subseteq {Ev("backend", 90), Ev("basename", 55), Ev("package", p)}
    BY <1>1 DEF ExecutableIdentity, Ev
  <1>3. ScriptIdentity(in) \subseteq {Ev("script", s)}
    BY <1>1 DEF ScriptIdentity, Ev
  <1>4. Membership(in) \subseteq {Ev("package root", 85), Ev("managed", 70), Ev("home", 45), Ev("named", 90)}
    BY DEF Membership, Ev
  <1>5. Identity(in) \subseteq ExecutableIdentity(in) \cup ScriptIdentity(in)
    BY DEF Identity
  <1>6. AllEvidence(in) \subseteq Identity(in) \cup Membership(in)
    BY DEF AllEvidence
  <1>7. PICK A, B, C : /\ A = {Ev("backend", 90), Ev("basename", 55), Ev("package", p)} /\ B = {Ev("script", s)}
                       /\ C = {Ev("package root", 85), Ev("managed", 70), Ev("home", 45), Ev("named", 90)}
    OBVIOUS
  <1>8. Everything(p, s) = A \cup (B \cup C)
    <2>1. PICK a, b, c, e, f, g, h, i :
               /\ a = Ev("backend", 90) /\ b = Ev("basename", 55) /\ c = Ev("package", p) /\ e = Ev("script", s)
               /\ f = Ev("package root", 85) /\ g = Ev("managed", 70) /\ h = Ev("home", 45) /\ i = Ev("named", 90)
      OBVIOUS
    <2>2. Everything(p, s) = {a, b, c, e, f, g, h, i} /\ A = {a, b, c} /\ B = {e} /\ C = {f, g, h, i}
      BY <1>7, <2>1 DEF Everything
    <2>. QED
      BY <2>2
  <1>9. ExecutableIdentity(in) \subseteq A /\ ScriptIdentity(in) \subseteq B /\ Membership(in) \subseteq C
    BY <1>2, <1>3, <1>4, <1>7, Zenon
  <1>10. /\ AllEvidence(in) \subseteq Everything(p, s) /\ Identity(in) \subseteq Everything(p, s)
         /\ ExecutableIdentity(in) \subseteq Everything(p, s)
    BY <1>5, <1>6, <1>8, <1>9
  <1>. QED
    BY <1>10, EverythingIsEvidence, EvidencePart

\* A process with another environment is the same in everything else.
LEMMA OtherEnvironment ==
    ASSUME NEW W, NEW in \in AnyProcess(W), NEW env
    PROVE  /\ AppHelper([in EXCEPT !.env = env]) <=> AppHelper(in)
           /\ Identity([in EXCEPT !.env = env]) = Identity(in)
           /\ [in EXCEPT !.env = env].env = env
  <1>1. PICK out : out = [in EXCEPT !.env = env]
    OBVIOUS
  <1>2. /\ out.base = in.base /\ out.dir = in.dir /\ out.arg0 = in.arg0 /\ out.script = in.script
        /\ out.env = env
    BY <1>1 DEF AnyProcess
  <1>3. PackagePair(out) <=> PackagePair(in)
    BY <1>2 DEF PackagePair
  <1>4. IsDesktopBackend(out) <=> IsDesktopBackend(in)
    BY <1>2 DEF IsDesktopBackend
  <1>5. AppHelper(out) <=> AppHelper(in)
    BY <1>2, <1>4, Zenon DEF AppHelper
  <1>6. ExecutableIdentity(out) = ExecutableIdentity(in)
    BY <1>2, <1>3, <1>4 DEF ExecutableIdentity
  <1>7. ScriptIdentity(out) = ScriptIdentity(in)
    BY <1>2 DEF ScriptIdentity
  <1>8. Identity(out) = Identity(in)
    BY <1>5, <1>6, <1>7, Zenon DEF Identity
  <1>. QED
    BY <1>1, <1>2, <1>5, <1>8, Zenon

\* One key more in the environment adds at most one piece of evidence, worth 45 or more.
LEMMA OneKeyMore ==
    ASSUME NEW W, NEW in \in AnyProcess(W), NEW key \in EnvKeys,
           NEW out, out = [in EXCEPT !.env = in.env \cup {key}]
    PROVE  \/ AllEvidence(out) = AllEvidence(in)
           \/ \E x \in AllEvidence(out) : x.weight >= 45 /\ AllEvidence(in) = AllEvidence(out) \ {x}
  <1>1. out.env = in.env \cup {key} /\ Identity(out) = Identity(in) /\ (AppHelper(out) <=> AppHelper(in))
    BY OtherEnvironment, Zenon
  <1>2. PICK a, b, c, e : /\ a = Ev("package root", 85) /\ b = Ev("managed", 70)
                          /\ c = Ev("home", 45) /\ e = Ev("named", 90)
    OBVIOUS
  <1>3. /\ a.of = "package root" /\ b.of = "managed" /\ c.of = "home" /\ e.of = "named"
        /\ a.weight >= 45 /\ b.weight >= 45 /\ c.weight >= 45 /\ e.weight >= 45
    <2>1. a.of = "package root" /\ b.of = "managed" /\ c.of = "home" /\ e.of = "named"
      BY <1>2 DEF Ev
    <2>2. a.weight = 85 /\ b.weight = 70 /\ c.weight = 45 /\ e.weight = 90
      BY <1>2 DEF Ev
    <2>3. a.weight >= 45 /\ b.weight >= 45
      BY <2>2
    <2>4. c.weight >= 45 /\ e.weight >= 45
      BY <2>2
    <2>. QED
      BY <2>1, <2>3, <2>4
  <1>4. \A i : Membership(i) = {x \in {a, b, c} : x.of \in i.env}
                             \cup (IF i.env \cap {"session", "thread"} # {} THEN {e} ELSE {})
    BY <1>2, Zenon DEF Membership, Ev
  <1>5. a \notin Identity(in) /\ b \notin Identity(in) /\ c \notin Identity(in) /\ e \notin Identity(in)
    <2>1. \A x \in Identity(in) : x.of \in {"backend", "basename", "package", "script"}
      BY DEF Identity, ExecutableIdentity, ScriptIdentity
    <2>. QED
      BY <1>3, <2>1
  <1>6. CASE AppHelper(in)
    BY <1>1, <1>6, Zenon DEF AllEvidence
  <1>7. CASE ~AppHelper(in)
    <2>1. PICK I, M, N : I = Identity(in) /\ M = Membership(in) /\ N = Membership(out)
      OBVIOUS
    <2>2. AllEvidence(in) = I \cup M /\ AllEvidence(out) = I \cup N
      BY <1>1, <1>7, <2>1, Zenon DEF AllEvidence
    <2>3. \/ N = M
          \/ \E x \in {a, b, c, e} : x \in N /\ M = N \ {x}
      <3>1. /\ M = {x \in {a, b, c} : x.of \in in.env}
                    \cup (IF in.env \cap {"session", "thread"} # {} THEN {e} ELSE {})
            /\ N = {x \in {a, b, c} : x.of \in in.env \cup {key}}
                    \cup (IF (in.env \cup {key}) \cap {"session", "thread"} # {} THEN {e} ELSE {})
        BY <1>1, <1>4, <2>1
      <3>2. CASE key \in in.env
        BY <3>1, <3>2
      <3>3. CASE key = "package root" /\ key \notin in.env
        <4>1. a \in N /\ M = N \ {a}
          BY <1>3, <3>1, <3>3
        <4>. QED
          BY <4>1
      <3>4. CASE key = "managed" /\ key \notin in.env
        <4>1. b \in N /\ M = N \ {b}
          BY <1>3, <3>1, <3>4
        <4>. QED
          BY <4>1
      <3>5. CASE key = "home" /\ key \notin in.env
        <4>1. c \in N /\ M = N \ {c}
          BY <1>3, <3>1, <3>5
        <4>. QED
          BY <4>1
      <3>6. CASE key \in {"session", "thread"} /\ key \notin in.env
        <4>1. CASE in.env \cap {"session", "thread"} # {}
          BY <1>3, <3>1, <3>6, <4>1
        <4>2. CASE in.env \cap {"session", "thread"} = {}
          <5>1. e \in N /\ M = N \ {e}
            BY <1>3, <3>1, <3>6, <4>2
          <5>. QED
            BY <5>1
        <4>. QED
          BY <4>1, <4>2
      <3>. QED
        BY <3>2, <3>3, <3>4, <3>5, <3>6 DEF EnvKeys
    <2>4. CASE N = M
      BY <2>2, <2>4
    <2>5. CASE \E x \in {a, b, c, e} : x \in N /\ M = N \ {x}
      <3>1. PICK x \in {a, b, c, e} : x \in N /\ M = N \ {x}
        BY <2>5
      <3>2. x \notin I /\ x.weight >= 45
        BY <1>3, <1>5, <2>1
      <3>3. I \cup M = (I \cup N) \ {x} /\ x \in I \cup N
        BY <3>1, <3>2
      <3>. QED
        BY <2>2, <3>2, <3>3
    <2>. QED
      BY <2>3, <2>4, <2>5
  <1>. QED
    BY <1>6, <1>7

\* For a process of any name, path, arguments and environment, and whatever the
\* order its evidence is folded in: without an environment of the agent's it
\* reaches the bar of a cleanup policy if and only if it is the desktop backend,
\* and one more key in its environment never lowers its confidence nor makes it
\* certain (codex/signals.go, adapters/adapter.go: CombineWeights).
THEOREM ConfidenceEveryProcess ==
    \A W : \A in \in AnyProcess(W) : OnlyBackendByName(in) /\ ConfidenceMonotone(in)
  <1>. SUFFICES ASSUME NEW W, NEW in \in AnyProcess(W)
                PROVE  OnlyBackendByName(in) /\ ConfidenceMonotone(in)
    OBVIOUS
  <1>1. ASSUME in.env = {}, ~IsDesktopBackend(in)
        PROVE  CombineWeights(AllEvidence(in)) \in Int /\ CombineWeights(AllEvidence(in)) < ConfidencePolicyEligiblePPM
    <2>1. PICK E : E = AllEvidence(in) /\ Evidence(E)
      BY FoundIsEvidence
    <2>2. \A x \in E : x.of \in {"basename", "package", "script"}
      <3>1. Membership(in) = {}
        BY <1>1 DEF Membership
      <3>2. E \subseteq ExecutableIdentity(in) \cup ScriptIdentity(in)
        BY <2>1, <3>1 DEF AllEvidence, Identity
      <3>3. \A x \in ExecutableIdentity(in) \cup ScriptIdentity(in) : x.of \in {"basename", "package", "script"}
        BY <1>1 DEF ExecutableIdentity, ScriptIdentity
      <3>. QED
        BY <3>2, <3>3
    <2>3. LeftOpen(E) >= 54000 * Scale
      BY <2>1, <2>2, OpenLeast, SMT DEF LeastOf, Scale
    <2>4. CombineWeights(E) \in Int /\ CombineWeights(E) <= PPM - 54000 + 3
      BY <2>1, <2>3, CombinedBelow, SMT
    <2>. QED
      BY <2>1, <2>4, SMT DEF PPM, ConfidencePolicyEligiblePPM
  <1>5. ASSUME IsDesktopBackend(in)
        PROVE  CombineWeights(AllEvidence(in)) >= ConfidencePolicyEligiblePPM
    <2>1. PICK E : E = AllEvidence(in) /\ Evidence(E)
      BY FoundIsEvidence
    <2>2. ~AppHelper(in) /\ in.base = "codex"
      BY <1>5 DEF AppHelper, IsDesktopBackend
    <2>3. [of |-> "backend", weight |-> 90] \in ExecutableIdentity(in)
      BY <1>5, Zenon DEF ExecutableIdentity
    <2>4. [of |-> "basename", weight |-> 55] \in ExecutableIdentity(in)
      BY <2>2, Zenon DEF ExecutableIdentity
    <2>5. ExecutableIdentity(in) \subseteq E
      BY <2>1, <2>2, Zenon DEF AllEvidence, Identity
    <2>6. /\ \E x \in E : x.of = "backend" /\ x.weight = 90
          /\ \E x \in E : x.of = "basename" /\ x.weight = 55
      BY <2>3, <2>4, <2>5
    <2>7. LeftOpen(E) <= 45000 * Scale /\ PPM - 45000 <= Cap
      BY <2>1, <2>6, BackendOpen, SMT DEF PPM, Cap
    <2>8. CombineWeights(E) \in Int /\ CombineWeights(E) >= PPM - 45000
      BY <2>1, <2>7, CombinedAbove, SMT
    <2>. QED
      BY <2>1, <2>8, SMT DEF PPM, ConfidencePolicyEligiblePPM
  <1>2. OnlyBackendByName(in)
    <2>1. ASSUME in.env = {}, ~IsDesktopBackend(in)
          PROVE  ~(CombineWeights(AllEvidence(in)) >= ConfidencePolicyEligiblePPM)
      BY <1>1, <2>1, SMT DEF ConfidencePolicyEligiblePPM
    <2>. QED
      BY <1>5, <2>1, Zenon DEF OnlyBackendByName
  <1>3. ASSUME NEW key \in EnvKeys,
               NEW out, out = [in EXCEPT !.env = in.env \cup {key}]
        PROVE  CombineWeights(AllEvidence(in)) <= CombineWeights(AllEvidence(out))
               /\ CombineWeights(AllEvidence(out)) < PPM
    <2>1. PICK A, B : A = AllEvidence(in) /\ B = AllEvidence(out) /\ Evidence(A) /\ Evidence(B)
      BY FoundIsEvidence
    <2>2. LeftOpen(A) >= 0 * Scale /\ LeftOpen(B) >= 0 * Scale
      BY <2>1, OpenLeast, LeftOpenInt, SMT DEF LeastOf, Scale
    <2>3. CombineWeights(A) \in Int /\ CombineWeights(B) \in Int /\ CombineWeights(B) <= Cap
      BY <2>1, <2>2, CombinedBelow, SMT
    <2>4. CombineWeights(A) <= CombineWeights(B)
      <3>1. \/ AllEvidence(out) = AllEvidence(in)
            \/ \E x \in AllEvidence(out) : x.weight >= 45 /\ AllEvidence(in) = AllEvidence(out) \ {x}
        BY <1>3, OneKeyMore, Zenon
      <3>2. CASE A = B
        BY <2>3, <3>2
      <3>3. CASE \E x \in B : x.weight >= 45 /\ A = B \ {x}
        BY <2>1, <3>3, MoreNeverLowers
      <3>. QED
        BY <2>1, <3>1, <3>2, <3>3
    <2>. QED
      BY <2>1, <2>3, <2>4, SMT DEF PPM, Cap
  <1>4. ConfidenceMonotone(in)
    BY <1>3 DEF ConfidenceMonotone
  <1>. QED
    BY <1>2, <1>4

\* Whatever process the detection part is given, its confidence means what
\* policies take it for (codex/signals.go, adapters/adapter.go).
THEOREM ConfidenceCorrect == Spec => []ConfidenceSound
  <1>1. PICK W : DetectionInput \subseteq AnyProcess(W)
    <2>1. PICK W : W = Names \cup Directories \cup Scripts \cup EnvKeys
      OBVIOUS
    <2>2. DetectionInput \subseteq AnyProcess(W)
      BY <2>1 DEF DetectionInput, AnyProcess
    <2>. QED
      BY <2>2
  <1>2. InputOK => ConfidenceSound
    <2>. SUFFICES ASSUME InputOK, part = "detection", input # <<>>
                  PROVE  OnlyBackendByName(input[1]) /\ ConfidenceMonotone(input[1])
      BY DEF ConfidenceSound, Given
    <2>1. input[1] \in AnyProcess(W)
      BY <1>1 DEF InputOK
    <2>. QED
      BY <2>1, ConfidenceEveryProcess, Zenon
  <1>. QED
    BY <1>2, InputCorrect, PTL

\* For a process of any name and path: what the adapter recognises as Codex by
\* its executable its own patterns protect, and no policy that validation
\* accepts aims at a protected class, however the name is spelled
\* (codex/signals.go against codex.go, config/policy.go against protection.go).
THEOREM ProtectionsEveryProcess ==
    ASSUME NEW in
    PROVE  RecognisedIsProtected(in) /\ PolicyNeverAimsAtClass(in)
  <1>1. ASSUME AdapterRules(in) = {}
        PROVE  CombineWeights(IF AppHelper(in) THEN {} ELSE ExecutableIdentity(in)) < ConfidenceRootDetection
    <2>1. in.base # "codex" /\ ~PackagePair(in)
      BY <1>1 DEF AdapterRules
    <2>2. ~IsDesktopBackend(in)
      BY <2>1 DEF IsDesktopBackend
    <2>3. PICK E : E = IF AppHelper(in) THEN {} ELSE ExecutableIdentity(in)
      OBVIOUS
    <2>4. E \subseteq ExecutableIdentity(in)
      BY <2>3
    <2>5. Evidence(E)
      BY <2>4, FoundIsEvidence, EvidencePart
    <2>6. \A x \in E : x.of = "package" /\ x.weight = 30
      BY <2>1, <2>2, <2>4 DEF ExecutableIdentity
    <2>7. LeftOpen(E) >= 700000 * Scale
      BY <2>5, <2>6, OpenLeast, SMT DEF LeastOf, Scale
    <2>8. CombineWeights(E) \in Int /\ CombineWeights(E) <= PPM - 700000 + 3
      BY <2>5, <2>7, CombinedBelow, SMT
    <2>9. CombineWeights(E) < ConfidenceRootDetection
      BY <2>8, SMT DEF PPM, ConfidenceRootDetection
    <2>. QED
      BY <2>3, <2>9
  <1>2. CombineWeights(IF AppHelper(in) THEN {} ELSE ExecutableIdentity(in)) \in Int
    <2>1. PICK E : E = IF AppHelper(in) THEN {} ELSE ExecutableIdentity(in)
      OBVIOUS
    <2>2. E \subseteq ExecutableIdentity(in)
      BY <2>1
    <2>3. Evidence(E)
      BY <2>2, FoundIsEvidence, EvidencePart
    <2>4. LeftOpen(E) >= 0 * Scale
      BY <2>3, OpenLeast, LeftOpenInt, SMT DEF LeastOf, Scale
    <2>. QED
      BY <2>1, <2>3, <2>4, CombinedBelow, SMT
  <1>3. RecognisedIsProtected(in)
    BY <1>1, <1>2, SMT DEF RecognisedIsProtected, ConfidenceRootDetection
  <1>4. PolicyNeverAimsAtClass(in)
    <2>1. "class" \notin AdapterRules(in)
      BY DEF AdapterRules
    <2>2. Lower(in.base) \notin ExecClass => "class" \notin Protections(in)
      BY <2>1 DEF Protections
    <2>. QED
      BY <2>2, Zenon DEF PolicyNeverAimsAtClass, PolicyExecutable, ExecutableProtection
  <1>. QED
    BY <1>3, <1>4

\* Whatever process the detection and the protection part are given, the lists
\* of names agree (codex/signals.go, codex.go, config/policy.go, protection.go).
THEOREM ProtectionsCorrect == Spec => []ProtectionsAgree
  <1>1. ProtectionsAgree
    BY ProtectionsEveryProcess DEF ProtectionsAgree, Given
  <1>. QED
    BY <1>1, PTL
=============================================================================
