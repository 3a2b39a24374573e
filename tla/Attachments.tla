----------------------------- MODULE Attachments -----------------------------
(***************************************************************************)
(* The local attachment store (attachments.rs), the download that fills it *)
(* (get_redmine_attachment, tools/files.rs), the route that serves it      *)
(* (GET /files/{uuid}, transport/http.rs) and the sweeper. One lock of the *)
(* store or one await is one step. Files live in one directory per uuid;   *)
(* the directories outlive the process, the map does not.                  *)
(*                                                                         *)
(* Ages are relative and stop at EXPIRES, so time has no bound here. A     *)
(* uuid is free again once nothing refers to it.                           *)
(***************************************************************************)
EXTENDS Naturals, FiniteSets, Totals

CONSTANTS Handlers,            \* concurrent requests
          Sweeper,             \* the background task
          Uuids,
          None,
          max_download_bytes, max_store_bytes,
          Filesizes,           \* sizes that Redmine declares
          EXPIRES,             \* expires_after
          TIMEOUT              \* the client's timeout for one attempt

\* What config.rs validates: the timeout and the expiry are set apart, so a
\* download need not be over before its directory is old enough to be swept.
ASSUME StoreAssumption ==
    /\ max_download_bytes \in Nat \ {0} /\ max_store_bytes \in Nat
    /\ max_download_bytes <= max_store_bytes /\ Filesizes \subseteq 0..max_download_bytes
    /\ EXPIRES \in Nat /\ TIMEOUT \in Nat
    /\ Sweeper \notin Handlers /\ IsFiniteSet(Handlers) /\ IsFiniteSet(Uuids)
    /\ None \notin Nat \cup Uuids /\ None \notin [size: Nat, age: Nat]

VARIABLES entries,    \* Inner.entries: uuid -> [size, age] or None
          in_flight,  \* Inner.in_flight
          dirs,       \* on disk: uuid -> age of its directory, or None
          pc,         \* next lock or await of each task
          my          \* its locals

vars == <<entries, in_flight, dirs, pc, my>>

Tasks == Handlers \cup {Sweeper}
NoLocals == [uuid |-> None, declared |-> 0, held |-> 0, written |-> 0,
             again |-> FALSE, expired |-> {}]

Sizes == 0..max_download_bytes

Init ==
    /\ entries = [u \in Uuids |-> None] /\ in_flight = 0
    /\ dirs = [u \in Uuids |-> None]
    /\ pc = [t \in Tasks |-> "idle"] /\ my = [t \in Tasks |-> NoLocals]

Goto(t, label) == pc' = [pc EXCEPT ![t] = label]
Set(t, locals) == my' = [my EXCEPT ![t] = locals]
Done(t) == Goto(t, "idle") /\ Set(t, NoLocals)

StoredIn(u) == IF entries[u] = None THEN 0 ELSE entries[u].size
committed == Total([u \in Uuids |-> StoredIn(u)])

HasRoomFor(bytes) == committed + in_flight + bytes <= max_store_bytes

\* QuotaGuard::drop, saturating.
Released(bytes) == IF in_flight >= bytes THEN in_flight - bytes ELSE 0

------------------------------------------------------------------------------
(* get_redmine_attachment *)

\* The metadata was read; a file declared too large is refused before this.
StartDownload(t, bytes) ==
    /\ t \in Handlers /\ pc[t] = "idle"
    /\ Set(t, [NoLocals EXCEPT !.declared = bytes]) /\ Goto(t, "reserve")
    /\ UNCHANGED <<entries, in_flight, dirs>>

\* try_reserve; when the store is full, one sweep and one more try.
try_reserve(t) ==
    /\ pc[t] = "reserve"
    /\ \/ /\ HasRoomFor(my[t].declared)
          /\ in_flight' = in_flight + my[t].declared
          /\ Set(t, [my[t] EXCEPT !.held = my[t].declared]) /\ Goto(t, "mkdir")
       \/ /\ ~HasRoomFor(my[t].declared) /\ ~my[t].again
          /\ Set(t, [my[t] EXCEPT !.again = TRUE]) /\ Goto(t, "judge")
          /\ UNCHANGED in_flight
       \/ /\ ~HasRoomFor(my[t].declared) /\ my[t].again
          /\ Done(t) /\ UNCHANGED in_flight
    /\ UNCHANGED <<entries, dirs>>

FreeUuids == {u \in Uuids : /\ entries[u] = None /\ dirs[u] = None
                            /\ \A t \in Tasks : my[t].uuid # u /\ u \notin my[t].expired}

\* reserve, after the quota: the directory, or an error that drops the guard.
MakeDir(t) ==
    /\ pc[t] = "mkdir"
    /\ \E u \in FreeUuids :
         /\ dirs' = [dirs EXCEPT ![u] = 0]
         /\ Set(t, [my[t] EXCEPT !.uuid = u]) /\ Goto(t, "connect")
    /\ UNCHANGED <<entries, in_flight>>

MakeDirFails(t) ==
    /\ pc[t] = "mkdir"
    /\ in_flight' = Released(my[t].held) /\ Done(t)
    /\ UNCHANGED <<entries, dirs>>

\* download_attachment answered; then the file is created, which makes the
\* directory young again, unless the directory is gone or the disk refuses.
Connected(t) ==
    /\ pc[t] = "connect" /\ dirs[my[t].uuid] # None
    /\ dirs' = [dirs EXCEPT ![my[t].uuid] = 0]
    /\ Goto(t, "stream")
    /\ UNCHANGED <<entries, in_flight, my>>

ConnectFails(t) == pc[t] = "connect" /\ Goto(t, "abort") /\ UNCHANGED <<entries, in_flight, dirs, my>>

\* QuotaGuard::extend for the bytes by which `total` exceeds the reservation.
Deficit(t, total) == IF total > my[t].held THEN total - my[t].held ELSE 0

\* Mutant: the deficit is added without asking for room.
FitsUnchecked(t, total) == total <= max_download_bytes

\* The byte counter and extend admit one more chunk.
Fits(t, total) ==
    /\ total <= max_download_bytes
    /\ Deficit(t, total) > 0 => HasRoomFor(Deficit(t, total))

\* One chunk arrives and is handed to the file.
Chunk(t) ==
    LET total == my[t].written + 1
        more  == Deficit(t, total)
    IN
    /\ pc[t] = "stream" /\ Fits(t, total)
    /\ in_flight' = in_flight + more
    /\ Set(t, [my[t] EXCEPT !.written = total, !.held = @ + more])
    /\ UNCHANGED <<entries, dirs, pc>>

\* A chunk too many, a stream error or timeout, or a write error: abort.
ChunkRefused(t) ==
    /\ pc[t] = "stream"
    /\ Goto(t, "abort")
    /\ UNCHANGED <<entries, in_flight, dirs, my>>

\* commit, after the stream's end and a flush whose error is only logged.
commit(t) ==
    /\ pc[t] = "stream"
    /\ entries' = [entries EXCEPT ![my[t].uuid] = [size |-> my[t].written, age |-> 0]]
    /\ in_flight' = Released(my[t].held)
    /\ Done(t) /\ UNCHANGED dirs

\* abort: the directory goes, or stays for the sweeper; then the guard drops.
abort(t) ==
    /\ pc[t] = "abort"
    /\ \E gone \in BOOLEAN : dirs' = IF gone THEN [dirs EXCEPT ![my[t].uuid] = None] ELSE dirs
    /\ Goto(t, "release") /\ UNCHANGED <<entries, in_flight, my>>

release(t) ==
    /\ pc[t] = "release"
    /\ in_flight' = Released(my[t].held) /\ Done(t)
    /\ UNCHANGED <<entries, dirs>>

\* A file operation that is under way when its future is dropped is not undone:
\* the disk may be as it leaves it, or as it found it.
DroppedOnDisk(t) ==
    \/ UNCHANGED dirs
    \/ pc[t] = "mkdir" /\ \E u \in FreeUuids : dirs' = [dirs EXCEPT ![u] = 0]
    \/ /\ pc[t] = "connect" /\ dirs[my[t].uuid] # None
       /\ dirs' = [dirs EXCEPT ![my[t].uuid] = 0]
    \/ pc[t] \in {"abort", "remove"} /\ dirs' = [dirs EXCEPT ![my[t].uuid] = None]

\* Mutant: no guard, so a dropped future keeps its quota.
DroppedUnguarded(t) ==
    /\ pc[t] \in {"mkdir", "connect", "stream", "abort"}
    /\ Done(t) /\ UNCHANGED <<entries, in_flight, dirs>>

\* The future of a tool call is dropped at an await, those of its sweep included:
\* only the guard runs.  A sweep dropped after it removed a directory and before
\* it took the lock leaves the entry without its file.
Dropped(t) ==
    /\ pc[t] \in {"mkdir", "connect", "stream", "abort", "judge", "remove"}
    /\ in_flight' = Released(my[t].held) /\ Done(t)
    /\ DroppedOnDisk(t) /\ UNCHANGED entries

------------------------------------------------------------------------------
(* sweep_expired: by the background task, by cleanup_attachment_files, and by *)
(* a download that found the store full.                                      *)

StartSweep ==
    /\ pc[Sweeper] = "idle"
    /\ Goto(Sweeper, "judge") /\ UNCHANGED <<entries, in_flight, dirs, my>>

\* cleanup_attachment_files: the same pass, on demand.
StartCleanup(t) ==
    /\ t \in Handlers /\ pc[t] = "idle"
    /\ Goto(t, "judge") /\ UNCHANGED <<entries, in_flight, dirs, my>>

SweepEnds(t) ==
    IF my[t].again
    THEN Goto(t, "reserve") /\ Set(t, [my[t] EXCEPT !.expired = {}])
    ELSE Done(t)

\* Mutant: a directory the map does not know is taken for an orphan.
OldOrUnknown(u) == dirs[u] # None /\ (dirs[u] >= EXPIRES \/ entries[u] = None)

Old(u) == dirs[u] # None /\ dirs[u] >= EXPIRES

\* next_entry hands out the directories one by one: one that is old enough is
\* removed in a later step, the others are left alone.
JudgeDir(t, u) ==
    /\ pc[t] = "judge" /\ Old(u)
    /\ Set(t, [my[t] EXCEPT !.uuid = u])
    /\ Goto(t, "remove")
    /\ UNCHANGED <<entries, in_flight, dirs>>

\* remove_dir_all fails if another pass or a reader was faster, or on an error.
RemoveDir(t) ==
    LET u == my[t].uuid IN
    /\ pc[t] = "remove" /\ dirs[u] # None
    /\ dirs' = [dirs EXCEPT ![u] = None]
    /\ Set(t, [my[t] EXCEPT !.uuid = None, !.expired = @ \cup {u}])
    /\ Goto(t, "judge") /\ UNCHANGED <<entries, in_flight>>

RemoveDirFails(t) ==
    /\ pc[t] = "remove"
    /\ Set(t, [my[t] EXCEPT !.uuid = None])
    /\ Goto(t, "judge") /\ UNCHANGED <<entries, in_flight, dirs>>

\* The listing ends, or fails at any point (read_dir, next_entry, metadata): the
\* entries of the directories removed so far, in one lock.
ForgetExpired(t) ==
    /\ pc[t] = "judge"
    /\ entries' = [u \in Uuids |-> IF u \in my[t].expired THEN None ELSE entries[u]]
    /\ SweepEnds(t) /\ UNCHANGED <<in_flight, dirs>>

------------------------------------------------------------------------------
(* GET /files/{uuid} *)

\* get of an expired entry: it goes at once, its directory in the next step. Of
\* a live one nothing changes; a file removed before serve_file opens it is a 404.
get(t, u) ==
    /\ t \in Handlers /\ pc[t] = "idle"
    /\ entries[u] # None /\ entries[u].age >= EXPIRES
    /\ entries' = [entries EXCEPT ![u] = None]
    /\ Set(t, [NoLocals EXCEPT !.uuid = u]) /\ Goto(t, "expire")
    /\ UNCHANGED <<in_flight, dirs>>

ExpireDir(t) ==
    /\ pc[t] = "expire"
    /\ \E gone \in BOOLEAN : dirs' = IF gone THEN [dirs EXCEPT ![my[t].uuid] = None] ELSE dirs
    /\ Done(t) /\ UNCHANGED <<entries, in_flight>>

------------------------------------------------------------------------------

\* The process ends and starts again: the map is empty, the directories stay.
Restart ==
    /\ entries' = [u \in Uuids |-> None] /\ in_flight' = 0
    /\ pc' = [t \in Tasks |-> "idle"] /\ my' = [t \in Tasks |-> NoLocals]
    /\ UNCHANGED dirs

Older(age) == IF age < EXPIRES THEN age + 1 ELSE age

\* A download waits for Redmine no longer than two timeouts from its
\* directory's creation, and for the rest of the body one from its file's.
InTime(t) ==
    dirs[my[t].uuid] # None =>
        /\ pc[t] = "connect" => dirs[my[t].uuid] < 2 * TIMEOUT
        /\ pc[t] = "stream" => dirs[my[t].uuid] < TIMEOUT

Tick ==
    /\ \A t \in Handlers : pc[t] # "mkdir" /\ (pc[t] \in {"connect", "stream"} => InTime(t))
    /\ entries' = [u \in Uuids |->
                     IF entries[u] = None THEN None ELSE [entries[u] EXCEPT !.age = Older(@)]]
    /\ dirs' = [u \in Uuids |->
                  IF dirs[u] = None THEN None ELSE Older(dirs[u])]
    /\ UNCHANGED <<in_flight, pc, my>>

DownloadStep(t) ==
    \/ try_reserve(t) \/ MakeDir(t) \/ MakeDirFails(t) \/ Connected(t) \/ ConnectFails(t)
    \/ Chunk(t) \/ ChunkRefused(t) \/ commit(t) \/ abort(t) \/ release(t)

SweepStep(t) ==
    \/ \E u \in Uuids : JudgeDir(t, u)
    \/ RemoveDir(t) \/ RemoveDirFails(t) \/ ForgetExpired(t)

Next ==
    \/ \E t \in Handlers, bytes \in Filesizes : StartDownload(t, bytes)
    \/ \E t \in Tasks : DownloadStep(t) \/ SweepStep(t)
    \/ \E t \in Handlers, u \in Uuids : get(t, u)
    \/ \E t \in Handlers : ExpireDir(t) \/ Dropped(t) \/ StartCleanup(t)
    \/ StartSweep \/ Tick \/ Restart

Spec == Init /\ [][Next]_vars

------------------------------------------------------------------------------
(* Properties *)

\* Types, with the size of a stored file within its cap.
TypeOK ==
    /\ entries \in [Uuids -> [size: Sizes, age: 0..EXPIRES] \cup {None}]
    /\ in_flight \in 0..max_store_bytes
    /\ dirs \in [Uuids -> 0..EXPIRES \cup {None}]
    /\ \A t \in Tasks : my[t].written \in Sizes /\ my[t].held \in Nat

\* in_flight is exactly what the downloads under way hold, and it fits the cap
\* together with what is stored: no exit from a download, dropped futures
\* included, leaks or returns quota twice (QuotaGuard).
QuotaExact ==
    /\ in_flight = Total([t \in Tasks |-> my[t].held])
    /\ committed + in_flight <= max_store_bytes

\* Where a download, which ends within two timeouts (RequestRetry), is over before
\* its directory is old enough to be swept, no sweep takes the directory of a
\* download under way, and no stored file loses its directory more than a timeout
\* before its link expires: whatever is dropped, swept or restarted meanwhile,
\* though the sweep looks only at ages on disk and the map knows nothing of
\* downloads under way (sweep_expired, download_and_commit).
FilesKeptInTime ==
    2 * TIMEOUT < EXPIRES =>
        /\ \A t \in Handlers : pc[t] \in {"connect", "stream"} => dirs[my[t].uuid] # None
        /\ \A u \in Uuids : entries[u] # None /\ dirs[u] = None => entries[u].age + TIMEOUT >= EXPIRES

\* QuotaAccount, read off the store and the downloads.
Account == INSTANCE QuotaAccount WITH
    Holders <- Tasks, Cap <- max_store_bytes,
    used <- committed, held <- [t \in Tasks |-> my[t].held]

\* The store implements the account: every step takes, keeps, gives back or
\* frees quota as QuotaAccount allows, or leaves it alone.
RefinesAccount == Account!AccountSpec
==============================================================================
