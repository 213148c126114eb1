------------------------------- MODULE Service -------------------------------
(***************************************************************************)
(* The life of a daemon process around its observation loop: opening and   *)
(* migrating the state database (internal/storage/store.go), taking the    *)
(* control socket (internal/api/server.go), serving, stopping and crashing *)
(* (cmd/cli/daemon.go, internal/daemon/daemon.go).                         *)
(*                                                                         *)
(* Nothing but the socket keeps two daemons apart, and every call on a     *)
(* path is a step of its own: daemons of different builds are started,     *)
(* stopped and killed at any point, by launchd or by hand, and meet each   *)
(* other's half-finished starts.  A database is a file with a schema       *)
(* version; a file keeps its open handles when it is renamed.              *)
(***************************************************************************)
EXTENDS Naturals, Sequences, FiniteSets

CONSTANTS Daemons,      \* process slots a daemon can run in
          Builds,       \* schemaVersion of the builds in use, as numbers
          MaxStarts,    \* bound on starts
          MaxFaults,    \* bound on crashes, stops, unanswered dials and unreadable databases
          NoDaemon      \* no socket file at the path

ASSUME ServiceAssumption ==
    Builds \subseteq Nat \ {0} /\ MaxStarts \in Nat /\ MaxFaults \in Nat /\ NoDaemon \notin Daemons

VARIABLES dbs,     \* every database file ever made: schema version, readable, recoveries audited in it
          path,    \* the file at the configured database path, 0 when there is none
          aside,   \* files renamed to <path>.unusable-<ns>
          sock,    \* the daemon whose socket is at the socket path, or NoDaemon
          d,       \* the daemons
          starts, faults,
          doubted, \* history: a dial went unanswered, or a daemon was stopped: a socket was up for removal
          overlapped, \* history: two daemons were inside Listen or stopping at once, or a live one's dial failed
          lost     \* history: files whose mover never audited the recovery: it ended before, or could not

serviceVars == <<dbs, path, aside, sock, d, starts, faults, doubted, overlapped, lost>>

history == <<doubted, overlapped>>

Idle == [pc |-> "off", build |-> 0, file |-> 0, seen |-> 0, retry |-> FALSE,
         moved |-> 0]

ServiceInit ==
    /\ dbs = <<>> /\ path = 0 /\ aside = {} /\ sock = NoDaemon
    /\ d = [i \in Daemons |-> Idle]
    /\ starts = 0 /\ faults = 0 /\ doubted = FALSE /\ overlapped = FALSE /\ lost = {}

Step(i, from, new) == d[i].pc = from /\ d' = [d EXCEPT ![i] = new]
Goto(i, from, to) == Step(i, from, [d[i] EXCEPT !.pc = to])
Exit(i, from) == Step(i, from, Idle)
BeforeAudit == {"open", "migrate", "unusable", "audit"}

\* Who a dial of the path finds at the other end, and who serves requests.
Answering(i) == i \in Daemons /\ d[i].pc \in {"chmod", "serve"}
Serving == {i \in Daemons : d[i].pc = "serve"}

\* A daemon between its first look at the socket path and its last touch of it.
Window == {"dial", "remove", "bind", "listen", "chmod", "abandon", "closing"}
Overlaps(i) == \E j \in Daemons \ {i} : d[j].pc \in Window

(***************************************************************************)
(* The database.                                                           *)
(***************************************************************************)
Start(i) ==
    /\ starts < MaxStarts /\ starts' = starts + 1
    /\ \E b \in Builds : Step(i, "off", [Idle EXCEPT !.pc = "open", !.build = b])
    /\ UNCHANGED <<dbs, path, aside, sock, faults, history, lost>>

Fresh == [schema |-> 0, readable |-> TRUE, recovered |-> {}]

\* open: a connection to the file at the path, created when it is missing, and
\* the schema version it holds.  An unreadable file and one written by a newer
\* build are the same error to Open.
OpenRead(i) ==
    /\ d[i].pc = "open"
    /\ LET files == IF path = 0 THEN Append(dbs, Fresh) ELSE dbs
           f == IF path = 0 THEN Len(files) ELSE path
           newer == files[f].readable /\ files[f].schema > d[i].build
           ok == files[f].readable /\ ~newer
       IN  /\ dbs' = files /\ path' = f
           /\ Step(i, "open", [d[i] EXCEPT !.pc = IF ok THEN "migrate" ELSE "unusable",
                                           !.file = f, !.seen = files[f].schema])
    /\ UNCHANGED <<aside, sock, starts, faults, history, lost>>

\* One outstanding migration and its version bump, in one transaction.  The
\* version was read outside it: when another daemon has applied the migration
\* since, its statements fail.
Migrate(i) ==
    /\ d[i].pc = "migrate" /\ d[i].seen < d[i].build
    /\ LET f == d[i].file
           ok == dbs[f].readable /\ dbs[f].schema = d[i].seen
       IN  /\ dbs' = IF ok THEN [dbs EXCEPT ![f].schema = @ + 1] ELSE dbs
           /\ Step(i, "migrate", IF ok THEN [d[i] EXCEPT !.seen = @ + 1]
                                       ELSE [d[i] EXCEPT !.pc = "unusable"])
    /\ UNCHANGED <<path, aside, sock, starts, faults, history, lost>>

\* Faulty variant: the last migration is not awaited.
OpenedEarly(i) ==
    /\ d[i].seen + 1 >= d[i].build
    /\ Goto(i, "migrate", IF d[i].moved = 0 THEN "stat" ELSE "audit")
    /\ UNCHANGED <<dbs, path, aside, sock, starts, faults, history, lost>>

Opened(i) ==
    /\ d[i].seen = d[i].build
    /\ Goto(i, "migrate", IF d[i].moved = 0 THEN "stat" ELSE "audit")
    /\ UNCHANGED <<dbs, path, aside, sock, starts, faults, history, lost>>

\* Open after the first failure: whatever is at the path now is renamed, and
\* open is tried once more.  A second failure, or nothing to rename, ends the
\* process with the error.
MoveAside(i) ==
    /\ IF d[i].retry \/ path = 0
       THEN /\ Exit(i, "unusable") /\ lost' = lost \cup {d[i].moved}
            /\ UNCHANGED <<path, aside>>
       ELSE /\ aside' = aside \cup {path} /\ path' = 0 /\ UNCHANGED lost
            /\ Step(i, "unusable", [d[i] EXCEPT !.pc = "open", !.retry = TRUE, !.moved = path])
    /\ UNCHANGED <<dbs, sock, starts, faults, history>>

\* Faulty variant: the recovery is not audited.
AuditRecoverySkipped(i, ok) ==
    /\ Goto(i, "audit", "stat")
    /\ UNCHANGED <<dbs, path, aside, sock, starts, faults, history, lost>>

\* cmdDaemon records the recovery in the new database before anything else; the
\* error of a failed append is dropped.
AuditRecovery(i, ok) ==
    /\ d[i].pc = "audit" /\ (ok => dbs[d[i].file].readable)
    /\ IF ok THEN /\ dbs' = [dbs EXCEPT ![d[i].file].recovered = @ \cup {d[i].moved}]
                  /\ UNCHANGED lost
             ELSE UNCHANGED dbs /\ lost' = lost \cup {d[i].moved}
    /\ Goto(i, "audit", "stat")
    /\ UNCHANGED <<path, aside, sock, starts, faults, history>>

\* daemon --once: one cycle on the database, no socket.
Once(i) ==
    /\ Exit(i, "stat")
    /\ UNCHANGED <<dbs, path, aside, sock, starts, faults, history, lost>>

(***************************************************************************)
(* The socket.  Listen is stat, dial, remove, bind, listen and chmod: the  *)
(* path exists from the bind(2) of net.Listen on and answers only from its *)
(* listen(2) on.                                                           *)
(***************************************************************************)
ListenStat(i) ==
    /\ Goto(i, "stat", IF sock = NoDaemon THEN "bind" ELSE "dial")
    /\ overlapped' = (overlapped \/ Overlaps(i))
    /\ UNCHANGED <<dbs, path, aside, sock, starts, faults, doubted, lost>>

Fault == faults < MaxFaults /\ faults' = faults + 1

\* An answer means another daemon runs, and this one exits.  Every error is read
\* as a stale socket: nothing at the path, nobody behind it, an owner that has
\* not called listen(2) yet, and (late) a live one that does not accept within
\* socketDialTimeout.
ListenDial(i, late) ==
    /\ d[i].pc = "dial" /\ (late => Answering(sock))
    /\ IF late THEN Fault /\ overlapped' = TRUE ELSE UNCHANGED <<faults, overlapped>>
    /\ IF Answering(sock) /\ ~late
       THEN Exit(i, "dial") /\ UNCHANGED doubted
       ELSE Goto(i, "dial", "remove") /\ doubted' = TRUE
    /\ UNCHANGED <<dbs, path, aside, sock, starts, lost>>

ListenRemove(i) ==
    /\ IF sock = NoDaemon THEN Exit(i, "remove") ELSE Goto(i, "remove", "bind")
    /\ sock' = NoDaemon
    /\ UNCHANGED <<dbs, path, aside, starts, faults, history, lost>>

\* Faulty variant: bind replaces an existing socket.
ListenBindOver(i) ==
    /\ Goto(i, "bind", "listen") /\ sock' = i
    /\ UNCHANGED <<dbs, path, aside, starts, faults, history, lost>>

\* bind fails when the path exists.
ListenBind(i) ==
    /\ IF sock = NoDaemon THEN Goto(i, "bind", "listen") /\ sock' = i
                          ELSE Exit(i, "bind") /\ sock' = sock
    /\ UNCHANGED <<dbs, path, aside, starts, faults, history, lost>>
ListenListen(i) ==
    /\ Goto(i, "listen", "chmod")
    /\ UNCHANGED <<dbs, path, aside, sock, starts, faults, history, lost>>

\* The mode is set on whatever is at the path by now; with nothing there the
\* listener is closed again, which unlinks the path by name.
ListenChmod(i) ==
    /\ Goto(i, "chmod", IF sock = NoDaemon THEN "abandon" ELSE "serve")
    /\ UNCHANGED <<dbs, path, aside, sock, starts, faults, history, lost>>
ListenAbandon(i) ==
    /\ Exit(i, "abandon") /\ sock' = NoDaemon
    /\ UNCHANGED <<dbs, path, aside, starts, faults, history, lost>>

(***************************************************************************)
(* The end of a daemon.                                                    *)
(***************************************************************************)
\* SIGTERM: closing the listener unlinks the socket path by name, and Serve
\* removes the path once more before it returns.
ServeShutdown(i) ==
    /\ Fault /\ doubted' = TRUE /\ overlapped' = (overlapped \/ Overlaps(i))
    /\ Goto(i, "serve", "closing") /\ sock' = NoDaemon
    /\ UNCHANGED <<dbs, path, aside, starts, lost>>
ServeRemove(i) ==
    /\ Exit(i, "closing") /\ sock' = NoDaemon
    /\ UNCHANGED <<dbs, path, aside, starts, faults, history, lost>>

\* SIGKILL or a panic, anywhere; the socket file stays (external).
Crash(i) ==
    /\ d[i].pc # "off" /\ Fault
    /\ d' = [d EXCEPT ![i] = Idle]
    /\ lost' = IF d[i].pc \in BeforeAudit THEN lost \cup {d[i].moved} ELSE lost
    /\ UNCHANGED <<dbs, path, aside, sock, starts, history>>
\* The database file is damaged on disk (external).
Damage ==
    /\ path # 0 /\ dbs[path].readable /\ Fault
    /\ dbs' = [dbs EXCEPT ![path].readable = FALSE]
    /\ UNCHANGED <<path, aside, sock, d, starts, history, lost>>

ServiceNext ==
    \/ \E i \in Daemons :
          \/ Start(i) \/ OpenRead(i) \/ Migrate(i) \/ Opened(i) \/ MoveAside(i)
          \/ (\E ok \in BOOLEAN : AuditRecovery(i, ok)) \/ Once(i)
          \/ ListenStat(i) \/ (\E late \in BOOLEAN : ListenDial(i, late)) \/ ListenRemove(i)
          \/ ListenBind(i) \/ ListenListen(i) \/ ListenChmod(i) \/ ListenAbandon(i)
          \/ ServeShutdown(i) \/ ServeRemove(i) \/ Crash(i)
    \/ Damage

ServiceSpec == ServiceInit /\ [][ServiceNext]_serviceVars

(***************************************************************************)
(* Properties.                                                             *)
(***************************************************************************)
\* A daemon that got past Open works on a database that has every migration of
\* its build, whatever other builds migrated, replaced or damaged meanwhile.
OpenedIsMigrated ==
    \A i \in Daemons :
        d[i].pc \in {"audit", "stat", "serve"} \cup Window =>
            dbs[d[i].file].schema >= d[i].build

\* Every database that was moved aside is accounted for by an audit entry in
\* the database that replaced it, unless the daemon that moved it was killed
\* or failed again before it got there, could not append it, or is still on its
\* way.
RecoveryAudited ==
    \A f \in aside :
        \/ f \in lost
        \/ \E g \in 1..Len(dbs) : f \in dbs[g].recovered
        \/ \E i \in Daemons : d[i].moved = f /\ d[i].pc \in BeforeAudit

\* Two daemons serve at once only when a socket was up for removal (a dial went
\* unanswered, or a daemon was stopped) and, besides, two daemons were inside
\* Listen or stopping at once, or the dial that went unanswered was to a live
\* one.  So any number of racing starts over a path without a socket leave one
\* daemon serving as long as every dial is answered, and so do starts, stops and
\* kills at any point that come one after the other, over dead sockets too.
\* Both exceptions are real: a start that dials between another's bind and its
\* listen removes a socket that is about to be served (server.go: Listen).
ExclusiveStarts ==
    (doubted /\ overlapped) \/ Cardinality(Serving) <= 1
=============================================================================
