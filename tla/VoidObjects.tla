---------------------------- MODULE VoidObjects -----------------------------
(***************************************************************************)
(* Objects of Void that are not transfers (_black_hole_void/src/lib.rs,    *)
(* object_store.rs, persist): single-shot and multipart uploads, and       *)
(* downloads that wait for an object to exist.                             *)
(*                                                                         *)
(* Each server has its own wait registry and its own table of multipart    *)
(* uploads, in memory.  Of the metadata stores, "local" (Fjall) belongs to *)
(* one server and notifies nobody; servers may share "pg", whose LISTEN    *)
(* and NOTIFY reach the waiters of all of them.                            *)
(*                                                                         *)
(* A Notify wakes the futures that exist when notify_waiters is called, so *)
(* a reader is woken only once it has armed one.  An upload is a put of    *)
(* the bytes, then of the row, then NOTIFY, then the server's own waiters; *)
(* whoever uploads takes those steps one by one.                           *)
(***************************************************************************)
EXTENDS Naturals, Sequences, FiniteSets

CONSTANTS
  Servers, Ids, None,
  Readers,       \* requests to wait for an object
  Singles,       \* single-shot uploads
  Multis,        \* clients of multipart uploads
  At,            \* the server each of these talks to
  MaxPartNumber, \* bound: parts of one upload
  Backends,      \* kinds of metadata store
  Casts,         \* which clients there are: sets of them
  MaxSessions,   \* bound: multipart sessions of the object store
  MaxFailures    \* bound: failures and restarts

Clients     == Readers \cup Singles \cup Multis
PartNumbers == 1 .. MaxPartNumber
Sessions    == 1 .. MaxSessions

ASSUME KindsAssumption == Singles \cap Multis = {} /\ None \notin Singles \cup Multis \cup Nat
ASSUME AtAssumption == At \in [Clients -> Servers]
ASSUME CastsAssumption == Casts \subseteq SUBSET Clients
ASSUME BackendsAssumption == Backends \subseteq {"local", "pg"}

VARIABLES
  backend, cast,
  blob,       \* the object store: per id, who wrote it and the parts it has
  row,        \* the metadata store: ids with a row
  registry,   \* per server and id, WaitRegistry::waiters: the Notify, a number
  notifies,   \* Notifys made
  reader,     \* handle_download_wait of each reader
  table,      \* per server and id, multipart_uploads
  stored,     \* sessions of the object store: the parts each holds
  opened,     \* and how many were opened
  up,         \* uploads under way
  told,       \* per multipart client, the parts it was told are stored
  missed,     \* readers passed over by a notification
  overlap,    \* ids with two clients in one window of begin, or a restart
  failures

waits == <<registry, notifies, reader, missed>>
multi == <<table, stored, opened, told, overlap>>
fixed == <<backend, cast>>
objectVars == <<fixed, blob, row, waits, multi, up, failures>>

NoBlob   == [by |-> None, parts |-> <<>>]
IdleUp   == [at |-> "idle", id |-> None, session |-> None, part |-> 0, data |-> NoBlob]
IdleRead == [at |-> "idle", id |-> None, waiter |-> 0, woken |-> FALSE, listen |-> "off"]

ObjectsInit ==
  /\ backend \in Backends /\ cast \in Casts
  /\ backend = "local" => \A c, d \in cast : At[c] = At[d]
  /\ blob = [i \in Ids |-> NoBlob]
  /\ row = {}
  /\ registry = [s \in Servers |-> [i \in Ids |-> 0]]
  /\ notifies = 0
  /\ reader = [r \in Readers |-> IdleRead]
  /\ table = [s \in Servers |-> [i \in Ids |-> [session |-> None, parts |-> {}]]]
  /\ stored = <<>>
  /\ opened = 0
  /\ up = [c \in Singles \cup Multis |-> IdleUp]
  /\ told = [c \in Multis |-> {}]
  /\ missed = {}
  /\ overlap = {}
  /\ failures = 0

MayFail == failures < MaxFailures

-----------------------------------------------------------------------------
(* Waiting for an object: handle_download_wait *)

\* try_download: the bytes are put before the row and never taken away.
Exists(i) == i \in row

Moves(r, at) == reader' = [reader EXCEPT ![r].at = at]
Others       == <<fixed, blob, row, multi, up, failures>>

\* The first look; an object that is there is answered at once, and no step.
Wait(r, i) ==
  /\ r \in cast /\ reader[r].at = "idle" /\ ~Exists(i)
  /\ reader' = [reader EXCEPT ![r].at = "register", ![r].id = i,
                              ![r].listen = IF backend = "pg" THEN "on" ELSE "off"]
  /\ UNCHANGED <<Others, registry, notifies, missed>>

\* waiter_for
WaiterFor(r) ==
  LET s == At[r]
      i == reader[r].id
      n == IF registry[s][i] = 0 THEN notifies + 1 ELSE registry[s][i]
  IN  /\ reader[r].at = "register"
      /\ registry' = [registry EXCEPT ![s][i] = n]
      /\ notifies' = IF registry[s][i] = 0 THEN notifies + 1 ELSE notifies
      /\ reader' = [reader EXCEPT ![r].at = "check", ![r].waiter = n]
      /\ UNCHANGED <<Others, missed>>

\* The second look, whose answer leaves the registry as it is.
Check(r) ==
  /\ reader[r].at = "check"
  /\ Moves(r, IF Exists(reader[r].id) THEN "found" ELSE "arm")
  /\ UNCHANGED <<Others, registry, notifies, missed>>

\* The futures of the select are made: from here on the reader can be woken.
Arm(r) ==
  /\ reader[r].at = "arm"
  /\ reader' = [reader EXCEPT ![r].at = "waiting", ![r].woken = FALSE]
  /\ UNCHANGED <<Others, registry, notifies, missed>>

\* wait_for_upload_notification: LISTEN, then a look at the row.
Listen(r) ==
  /\ reader[r].at = "waiting" /\ reader[r].listen = "on"
  /\ reader' = [reader EXCEPT ![r].listen = "listening"]
  /\ UNCHANGED <<Others, registry, notifies, missed>>

ListenChecks(r) ==
  /\ reader[r].at = "waiting" /\ reader[r].listen = "listening"
  /\ reader' = [reader EXCEPT ![r].listen = "receiving",
                              ![r].woken = @ \/ Exists(reader[r].id)]
  /\ UNCHANGED <<Others, registry, notifies, missed>>

\* It fails: the reader goes on with the server's own registry, and arms anew.
ListenFails(r) ==
  /\ reader[r].at = "waiting" /\ reader[r].listen # "off" /\ ~reader[r].woken /\ MayFail
  /\ failures' = failures + 1
  /\ reader' = [reader EXCEPT ![r].at = "arm", ![r].listen = "off"]
  /\ missed' = IF Exists(reader[r].id) THEN missed \cup {r} ELSE missed
  /\ UNCHANGED <<fixed, blob, row, multi, up, registry, notifies>>

\* Who holds a Notify: the Arc's strong count less the registry's.
Holders(n) == {r \in Readers : reader[r].waiter = n /\ reader[r].at \notin {"idle", "found", "timeout"}}

\* Mutant of ReleaseIfIdle: the count of holders is not looked at.
ReleaseAlways(r) ==
  LET s == At[r]
      i == reader[r].id
  IN  registry' = IF registry[s][i] = reader[r].waiter
                  THEN [registry EXCEPT ![s][i] = 0] ELSE registry

\* release_if_idle: the entry is dropped if it is the reader's and nobody else
\* holds it.
ReleaseIfIdle(r) ==
  LET s == At[r]
      i == reader[r].id
  IN  registry' = IF registry[s][i] = reader[r].waiter /\ Holders(reader[r].waiter) = {r}
                  THEN [registry EXCEPT ![s][i] = 0] ELSE registry

\* Woken, it releases its entry and looks once more.
Wake(r) ==
  /\ reader[r].at = "waiting" /\ reader[r].woken
  /\ ReleaseIfIdle(r)
  /\ Moves(r, IF Exists(reader[r].id) THEN "found" ELSE "timeout")
  /\ UNCHANGED <<Others, notifies, missed>>

TimeOut(r) ==
  /\ reader[r].at = "waiting"
  /\ ReleaseIfIdle(r)
  /\ Moves(r, "timeout")
  /\ UNCHANGED <<Others, notifies, missed>>

-----------------------------------------------------------------------------
(* Publishing: the end of handle_upload and of handle_upload_finish *)

UpTo(c, at) == up' = [up EXCEPT ![c].at = at]

\* The bytes of an object are replaced as a whole (temporary_path and rename).
Put(c, value) == blob' = [blob EXCEPT ![up[c].id] = value]

UploadStarts(c, i) ==
  /\ c \in Singles \cap cast /\ up[c] = IdleUp
  /\ up' = [up EXCEPT ![c].at = "put", ![c].id = i, ![c].data = [by |-> c, parts |-> {c}]]
  /\ UNCHANGED <<fixed, blob, row, waits, multi, failures>>

UploadPut(c) ==
  /\ c \in Singles /\ up[c].at = "put"
  /\ \/ Put(c, up[c].data) /\ UpTo(c, "index") /\ UNCHANGED failures
     \/ MayFail /\ failures' = failures + 1 /\ UpTo(c, "failed") /\ UNCHANGED blob
  /\ UNCHANGED <<fixed, row, waits, multi>>

\* insert_object: if it fails, that is logged and the upload goes on.
Index(c) ==
  /\ up[c].at = "index"
  /\ \/ row' = row \cup {up[c].id} /\ UNCHANGED failures
     \/ MayFail /\ failures' = failures + 1 /\ UNCHANGED row
  /\ UpTo(c, "publish")
  /\ UNCHANGED <<fixed, blob, waits, multi>>

\* publish_upload_notification wakes who listens, on whatever server; if it
\* fails, that too is only logged.
Publish(c) ==
  LET i == up[c].id
      hear == {r \in Readers : /\ reader[r].at = "waiting" /\ reader[r].id = i
                               /\ reader[r].listen \in {"listening", "receiving"}}
      Away(how) == {r \in Readers : /\ reader[r].id = i /\ At[r] # At[c]
                                    /\ reader[r].listen \in how}
  IN  /\ up[c].at = "publish"
      /\ \/ /\ reader' = [r \in Readers |-> IF r \in hear THEN [reader[r] EXCEPT !.woken = TRUE]
                                            ELSE reader[r]]
            /\ missed' = missed \cup Away({"off"})
            /\ UNCHANGED failures
         \/ /\ MayFail /\ backend = "pg" /\ failures' = failures + 1
            /\ missed' = missed \cup Away({"off", "on", "listening", "receiving"})
            /\ UNCHANGED reader
      /\ UpTo(c, "notify")
      /\ UNCHANGED <<fixed, blob, row, registry, notifies, multi>>

\* notify_upload takes the entry out and wakes the futures armed on it.  A reader
\* between its second look and arming is passed over, which matters to it unless
\* it is about to look at the row again.
NotifyUpload(c) ==
  LET s == At[c]
      i == up[c].id
      n == registry[s][i]
      on == {r \in Readers : reader[r].waiter = n /\ reader[r].id = i /\ n # 0}
  IN  /\ up[c].at = "notify"
      /\ registry' = [registry EXCEPT ![s][i] = 0]
      /\ reader' = [r \in Readers |-> IF r \in on /\ reader[r].at = "waiting"
                                      THEN [reader[r] EXCEPT !.woken = TRUE] ELSE reader[r]]
      /\ missed' = missed \cup {r \in on : reader[r].at = "arm" /\ reader[r].listen = "off"}
      /\ UpTo(c, "done")
      /\ UNCHANGED <<fixed, blob, row, notifies, multi, failures>>

-----------------------------------------------------------------------------
(* Multipart uploads *)

\* The sessions of the object store: begin_multipart, upload_part, the end of
\* abort_multipart and finish_multipart, and what the latter makes of the parts.
Fresh           == Append(stored, [live |-> TRUE, parts |-> [n \in {} |-> None]])
WithPart(s, n, c) == [stored EXCEPT ![s].parts = [m \in DOMAIN @ \cup {n} |-> IF m = n THEN c ELSE @[m]]]
Ended(s)        == [stored EXCEPT ![s].live = FALSE]
Holds(s, parts) == stored[s].live /\ parts \subseteq DOMAIN stored[s].parts
Gathered(s, parts) == [n \in parts |-> stored[s].parts[n]]

Session(c) == table[At[c]][up[c].id].session

\* Mutant of UploadBegin: an upload in flight is not looked for.
UploadBeginAnyway(c, i) ==
  /\ c \in Multis \cap cast /\ up[c] = IdleUp
  /\ up' = [up EXCEPT ![c].at = "begin", ![c].id = i]
  /\ overlap' = overlap \cup {i : d \in {d \in Multis \ {c} : /\ up[d].at = "begin" /\ up[d].id = i
                                                            /\ At[d] = At[c]}}
  /\ UNCHANGED <<fixed, blob, row, waits, table, stored, opened, told, failures>>

\* handle_upload_begin looks for an upload in flight,
UploadBegin(c, i) ==
  /\ c \in Multis \cap cast /\ up[c] = IdleUp
  /\ table[At[c]][i].session = None
  /\ up' = [up EXCEPT ![c].at = "begin", ![c].id = i]
  /\ overlap' = overlap \cup {i : d \in {d \in Multis \ {c} : /\ up[d].at = "begin" /\ up[d].id = i
                                                            /\ At[d] = At[c]}}
  /\ UNCHANGED <<fixed, blob, row, waits, table, stored, opened, told, failures>>

\* and, the lock given up meanwhile, opens a session and enters it.
BeginMultipart(c) ==
  /\ up[c].at = "begin" /\ opened + 1 \in Sessions
  /\ opened' = opened + 1
  /\ stored' = Fresh
  /\ table' = [table EXCEPT ![At[c]][up[c].id] = [session |-> opened + 1, parts |-> {}]]
  /\ UpTo(c, "sending")
  /\ UNCHANGED <<fixed, blob, row, waits, told, overlap, failures>>

\* handle_upload_part: the session is looked up,
UploadPart(c, n) ==
  /\ up[c].at = "sending" /\ n \notin told[c]
  /\ up' = [up EXCEPT ![c].at = IF Session(c) = None THEN "failed" ELSE "part",
                      ![c].session = Session(c), ![c].part = n]
  /\ UNCHANGED <<fixed, blob, row, waits, multi, failures>>

\* the part goes to it, replacing one of the same number,
StorePart(c) ==
  LET s == up[c].session
      n == up[c].part
  IN  /\ up[c].at = "part"
      /\ \/ /\ stored[s].live
            /\ stored' = WithPart(s, n, c)
            /\ UpTo(c, "record") /\ UNCHANGED failures
         \/ /\ ~stored[s].live
            /\ UpTo(c, "drop") /\ UNCHANGED <<stored, failures>>
         \/ /\ stored[s].live /\ MayFail /\ failures' = failures + 1
            /\ UpTo(c, "drop") /\ UNCHANGED stored
      /\ UNCHANGED <<fixed, blob, row, waits, table, opened, told, overlap>>

\* and its token is recorded in whatever session the id has by now, if any.
RecordPart(c) ==
  LET s == At[c]
      i == up[c].id
  IN  /\ up[c].at = "record"
      /\ table' = IF Session(c) = None THEN table
                  ELSE [table EXCEPT ![s][i].parts = @ \cup {up[c].part}]
      /\ told' = [told EXCEPT ![c] = @ \cup {up[c].part}]
      /\ UpTo(c, "sending")
      /\ UNCHANGED <<fixed, blob, row, waits, stored, opened, overlap, failures>>

\* A part that failed takes the id's session with it.
DropSession(c) ==
  LET t == Session(c)
  IN  /\ up[c].at = "drop"
      /\ table' = [table EXCEPT ![At[c]][up[c].id] = [session |-> None, parts |-> {}]]
      /\ stored' = IF t = None THEN stored ELSE Ended(t)
      /\ overlap' = overlap \cup {up[c].id}
      /\ UpTo(c, "failed")
      /\ UNCHANGED <<fixed, blob, row, waits, opened, told, failures>>

\* handle_upload_finish takes the session out and wants its parts to be 1..n.
UploadFinish(c, n) ==
  LET t == table[At[c]][up[c].id] IN
  /\ up[c].at = "sending" /\ told[c] = 1 .. n
  /\ table' = [table EXCEPT ![At[c]][up[c].id] = [session |-> None, parts |-> {}]]
  /\ \/ /\ t.session # None /\ t.parts = 1 .. n
        /\ up' = [up EXCEPT ![c].at = "assemble", ![c].session = t.session, ![c].part = n,
                            ![c].data = [by |-> c, parts |-> t.parts]]
        /\ UNCHANGED stored
     \/ /\ t.session # None /\ t.parts # 1 .. n
        /\ stored' = Ended(t.session)
        /\ UpTo(c, "failed")
     \/ t.session = None /\ UpTo(c, "failed") /\ UNCHANGED stored
  /\ UNCHANGED <<fixed, blob, row, waits, opened, told, overlap, failures>>

\* finish_multipart: the object is made of the session's parts in order, if all
\* are there; a session whose finishing failed is left behind.
FinishMultipart(c) ==
  LET s == up[c].session
      wanted == up[c].data.parts
      whole == Holds(s, wanted)
  IN  /\ up[c].at = "assemble"
      /\ \/ /\ whole
            /\ Put(c, [by |-> c, parts |-> Gathered(s, wanted)])
            /\ stored' = Ended(s)
            /\ UpTo(c, "index") /\ UNCHANGED failures
         \/ /\ ~whole /\ UpTo(c, "failed") /\ UNCHANGED <<blob, stored, failures>>
         \/ /\ whole /\ MayFail /\ failures' = failures + 1
            /\ UpTo(c, "failed") /\ UNCHANGED <<blob, stored>>
      /\ UNCHANGED <<fixed, row, waits, table, opened, told, overlap>>

\* A server restarts: its tables are gone, and the requests it was working on.
ServerRestarts(s) ==
  LET hit == {c \in Singles \cup Multis : At[c] = s /\ up[c].at \notin {"idle", "sending", "done", "failed"}}
      lost == {r \in Readers : At[r] = s /\ reader[r].at \in {"register", "check", "arm", "waiting"}}
  IN  /\ MayFail /\ failures' = failures + 1
      /\ registry' = [registry EXCEPT ![s] = [i \in Ids |-> 0]]
      /\ table' = [table EXCEPT ![s] = [i \in Ids |-> [session |-> None, parts |-> {}]]]
      /\ up' = [c \in Singles \cup Multis |-> IF c \in hit THEN [up[c] EXCEPT !.at = "failed"] ELSE up[c]]
      /\ reader' = [r \in Readers |-> IF r \in lost THEN [reader[r] EXCEPT !.at = "timeout"] ELSE reader[r]]
      /\ overlap' = overlap \cup {up[c].id : c \in {c \in Multis : At[c] = s /\ up[c].at # "idle"}}
      /\ missed' = missed \cup {r \in Readers : reader[r].id \in {up[c].id : c \in hit}}
      /\ UNCHANGED <<fixed, blob, row, notifies, stored, opened, told>>

-----------------------------------------------------------------------------
Reads(r)     == WaiterFor(r) \/ Check(r) \/ Arm(r) \/ Listen(r) \/ ListenChecks(r) \/ Wake(r)
Publishes(c) == UploadPut(c) \/ Index(c) \/ Publish(c) \/ NotifyUpload(c)
Works(c)     == BeginMultipart(c) \/ StorePart(c) \/ RecordPart(c) \/ DropSession(c) \/ FinishMultipart(c)

ObjectsNext ==
  \/ \E r \in Readers : Reads(r) \/ TimeOut(r) \/ ListenFails(r)
  \/ \E r \in Readers, i \in Ids : Wait(r, i)
  \/ \E c \in Singles \cup Multis : Publishes(c) \/ Works(c)
  \/ \E c \in Singles, i \in Ids : UploadStarts(c, i)
  \/ \E c \in Multis, i \in Ids : UploadBegin(c, i)
  \/ \E c \in Multis, n \in PartNumbers : UploadPart(c, n) \/ UploadFinish(c, n)
  \/ \E s \in Servers : ServerRestarts(s)

\* The runtime runs what can run.  A timeout may be as long as MAX_DOWNLOAD_WAIT
\* allows and is not counted on; clients are not fair.
Fairness ==
  /\ \A r \in Readers : WF_objectVars(Reads(r))
  /\ \A c \in Singles \cup Multis : WF_objectVars(Publishes(c) \/ Works(c))

ObjectsSpec == ObjectsInit /\ [][ObjectsNext]_objectVars /\ Fairness

-----------------------------------------------------------------------------
(* Properties *)

Waiting(r) == reader[r].at \in {"register", "check", "arm", "waiting"}

\* No reader sleeps on while the object it waits for exists, in every order of
\* waiting and uploading, on whatever server: except for one passed over between
\* its second look and arming, or whose notification was never published or heard.
WaitersAreWoken ==
  \A r \in Readers :
    (Waiting(r) /\ r \notin missed /\ Exists(reader[r].id)) ~> (~Waiting(r) \/ r \in missed)

\* _black_hole_void/src/lib.rs:64, "Wait up to `timeout_ms` for an object to
\* exist, then download it": said without the exception.
WaitersSeeTheObject ==
  \A r \in Readers : (Waiting(r) /\ Exists(reader[r].id)) ~> ~Waiting(r)

\* An object made of parts has the parts 1 .. n its finish named, without a gap,
\* whatever overlapping uploads, failures and restarts did to the session; and
\* they are one client's, unless two begins of the id were in their window at
\* once, or a failed part or a restart gave the id away.
PartsAreWhole ==
  \A i \in Ids : blob[i].by \in Multis =>
    /\ DOMAIN blob[i].parts = 1 .. up[blob[i].by].part
    /\ i \notin overlap => \A n \in DOMAIN blob[i].parts : blob[i].parts[n] = blob[i].by
=============================================================================
