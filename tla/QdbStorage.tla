----------------------------- MODULE QdbStorage -----------------------------
(***************************************************************************)
(* The storage layer under QdbEngine, system call by system call: the file *)
(* header and the records as qdb_io.c lays them out, qdb__append_record    *)
(* and qdb__header_update with their writes and syncs, and the opening     *)
(* sequence of qdb_open_err (creation, header, WAL replay, truncation,     *)
(* validation) up to the point where the log is replayed.                  *)
(*                                                                         *)
(* A file is a function from offsets to cells.  Cell 0 is the file header; *)
(* a record is a header cell (type, length, CRC), its payload bytes and a  *)
(* marker byte; the CRC of a payload is the payload itself.  The cache is  *)
(* what a program reads.  The media is what a power loss leaves, together  *)
(* with any part of what was written and not synced.                       *)
(***************************************************************************)
EXTENDS Integers, Sequences, FiniteSets, Functions

CONSTANTS
  Types,       \* the known record types
  Payloads,    \* the payloads of records: sequences over Bytes
  Bytes,       \* the bytes of payloads, the marker among them
  MARKER,      \* QDB_COMMIT_MARKER
  MaxCells,    \* bound on the file size, in cells
  MaxAppends,  \* bound on the calls that append a record
  MaxOpens,    \* bound on the calls of qdb_open
  MaxFaults,   \* bound on failed system calls
  MaxLosses,   \* bound on power losses
  WalFiles,    \* the WAL files another writer may leave
  Damages      \* what may be damaged: a subset of "type", "plen", "crc", "byte", "header"

Offsets == 0..MaxCells
Records == [type : Types, payload : Payloads]
BadRecord == [type |-> "bad", payload |-> << >>]

ASSUME LayoutAssumption ==
  /\ MaxCells \in Nat /\ MARKER \in Bytes /\ "bad" \notin Types
  /\ \A p \in Payloads : p \in Seq(Bytes)
  /\ \A w \in WalFiles : w \in Seq(Records \cup {BadRecord})

None == [kind |-> "none"]        \* not in the file
Junk == [kind |-> "junk"]        \* a cell of which only a part was written
B(x) == [kind |-> "byte", x |-> x]
R(t, n, c) == [kind |-> "rec", type |-> t, plen |-> n, crc |-> c]
H(e, fl) == [kind |-> "hdr", end |-> e, flags |-> fl]
Blank == [o \in Offsets |-> None]
NoWal == [there |-> FALSE, recs |-> << >>]

VARIABLES
  cache, media, \* offset -> cell
  dirty,        \* the cells that were written since the last sync
  exists,       \* the file exists
  pc,           \* where the program is; "down" when no handle is open
  for,          \* what the append or header update under way is for
  end,          \* db->log_end_offset
  flags,        \* db->flags, a subset of {"DIRTY", "WAL_PRESENT"}
  rec,          \* the record being appended
  wal,          \* the WAL file and its records; none if it is too short
  walpos,       \* the next WAL record to append
  rc,           \* the result of the last qdb_open
  log,          \* the records appended, in order; no code reads this
  durable,      \* how many of them a synced header covers
  happened,     \* subset of {"unfinished", "torn", "damaged", "cut", "walcut", "walkept", "walunread"}
  walruns,      \* how often a header that covers the WAL's records was synced
  appends, opens, faults, losses

file == <<cache, media, dirty, exists>>
db == <<end, flags>>
waldata == <<wal, walpos, walruns>>
history == <<log, durable, happened>>
bounds == <<appends, opens, faults, losses>>
vars == <<file, pc, for, db, rec, waldata, rc, history, bounds>>

Init ==
  /\ cache = Blank /\ media = Blank /\ dirty = {} /\ exists = FALSE
  /\ pc = "down" /\ for = "none" /\ end = 1 /\ flags = {} /\ rec = BadRecord
  /\ wal = NoWal /\ walpos = 1 /\ walruns = 0
  /\ rc = "none" /\ log = << >> /\ durable = 0 /\ happened = {}
  /\ appends = 0 /\ opens = 0 /\ faults = 0 /\ losses = 0

-----------------------------------------------------------------------------
(* The layout of a file (qdb_io.c) *)

\* The offset after the last cell in the file.
Size(f) == Cardinality({o \in Offsets : \E x \in o..MaxCells : f[x] # None})

RecLen(r) == Len(r.payload) + 2

\* The cells of a record without its marker.
Body(r) == <<R(r.type, Len(r.payload), r.payload)>> \o [i \in DOMAIN r.payload |-> B(r.payload[i])]

Contents(f, off, n) == [i \in 1..n |-> IF f[off + i].kind = "byte" THEN f[off + i].x ELSE 0]

\* Mutant: the CRC is not compared.
scan_record_NoCrc(f, off, limit) ==
  LET c == f[off] m == off + 1 + c.plen IN
  IF limit - off < 2 THEN [rc |-> "PARTIAL"]
  ELSE IF c.kind # "rec" THEN [rc |-> IF c = None THEN "IO" ELSE "CORRUPT"]
  ELSE IF m >= limit THEN [rc |-> "PARTIAL"]
  ELSE IF f[m] # B(MARKER) THEN [rc |-> IF f[m] = None THEN "IO" ELSE "PARTIAL"]
  ELSE IF c.type \notin Types THEN [rc |-> "CORRUPT"]
  ELSE [rc |-> "OK", next |-> m + 1,
        rec |-> [type |-> c.type, payload |-> Contents(f, off, c.plen)]]

\* qdb__scan_record, for a record that starts before limit.
scan_record(f, off, limit) ==
  LET c == f[off] m == off + 1 + c.plen IN
  IF limit - off < 2 THEN [rc |-> "PARTIAL"]
  ELSE IF c.kind # "rec" THEN [rc |-> IF c = None THEN "IO" ELSE "CORRUPT"]
  ELSE IF m >= limit THEN [rc |-> "PARTIAL"]
  ELSE IF f[m] # B(MARKER) THEN [rc |-> IF f[m] = None THEN "IO" ELSE "PARTIAL"]
  ELSE IF c.type \notin Types \/ Contents(f, off, c.plen) # c.crc THEN [rc |-> "CORRUPT"]
  ELSE [rc |-> "OK", next |-> m + 1,
        rec |-> [type |-> c.type, payload |-> c.crc]]

\* The loop of validate_log and replay_log, from each offset: the records
\* before limit, and why and where the scan stopped.
ScanFrom(f, limit) ==
  LET from[off \in 1..(MaxCells + 1)] ==
        IF off >= limit THEN [rc |-> "END", at |-> off, recs |-> << >>]
        ELSE LET s == scan_record(f, off, limit) IN
             IF s.rc # "OK" THEN [rc |-> s.rc, at |-> off, recs |-> << >>]
             ELSE LET rest == from[s.next] IN [rest EXCEPT !.recs = <<s.rec>> \o @]
  IN from

Scan(f, limit) == ScanFrom(f, limit)[1]

\* Where the records of s start, and the next one would.
Starts(s) ==
  LET start[i \in 1..(Len(s) + 1)] == IF i = 1 THEN 1 ELSE start[i - 1] + RecLen(s[i - 1])
  IN start

\* The records of s that end at or before offset e.
Upto(s, e) ==
  SubSeq(s, 1, CHOOSE n \in 0..Len(s) : \A i \in 1..Len(s) : i <= n <=> Starts(s)[i + 1] <= e)

-----------------------------------------------------------------------------
(* System calls (qdb_platform.c) *)

\* qdb__pwrite of the first n of some cells.
Write(off, cells, n) ==
  /\ cache' = [o \in Offsets |-> IF o \in off..(off + n - 1) THEN cells[o - off + 1] ELSE cache[o]]
  /\ dirty' = dirty \cup (off..(off + n - 1))
  /\ UNCHANGED <<media, exists>>

\* qdb__file_truncate.
Truncate(off) ==
  /\ cache' = [o \in Offsets |-> IF o >= off THEN None ELSE cache[o]]
  /\ dirty' = dirty \cup {o \in Offsets : o >= off /\ cache[o] # None}
  /\ UNCHANGED <<media, exists>>

Reaching(cells) == [o \in Offsets |-> IF o \in cells THEN cache[o] ELSE media[o]]

\* Mutant: the sync returns before anything is on the media.
Sync_Nothing == UNCHANGED <<cache, media, dirty, exists>>

\* qdb__file_sync.
Sync == media' = Reaching(dirty) /\ dirty' = {} /\ UNCHANGED <<cache, exists>>

\* After a failed sync some of the cells are on the media, and the system may
\* not try again to write the others, and may read them back from the media.
SyncFails ==
  /\ \E some \in SUBSET dirty : media' = Reaching(some)
  /\ dirty' = {} /\ cache' \in {cache, media'}
  /\ UNCHANGED exists

\* A system call fails.
Fault == faults < MaxFaults /\ faults' = faults + 1 /\ UNCHANGED <<appends, opens, losses>>

-----------------------------------------------------------------------------
(* qdb__append_record and qdb__header_update *)

\* What a failed append or header update leads to: a call on an open handle
\* returns an error, qdb_open returns NULL, and qdb_close takes no notice.
Fails ==
  /\ pc' = IF for = "call" THEN "idle" ELSE "down"
  /\ rc' = IF for \in {"call", "close"} THEN rc ELSE "IO"

WriteBody ==
  LET cells == Body(rec) IN
  /\ pc = "body"
  /\ \/ /\ Write(end, cells, Len(cells))
        /\ pc' = "sync body" /\ UNCHANGED <<rc, bounds>>
     \/ /\ Fault
        /\ \E n \in 0..(Len(cells) - 1) : Write(end, cells, n)
        /\ Fails
  /\ UNCHANGED <<for, db, rec, waldata, history>>

SyncBody ==
  /\ pc = "sync body"
  /\ \/ Sync /\ pc' = "marker" /\ UNCHANGED <<rc, bounds>>
     \/ Fault /\ SyncFails /\ Fails
  /\ UNCHANGED <<for, db, rec, waldata, history>>

WriteMarker ==
  /\ pc = "marker"
  /\ \/ /\ Write(end + RecLen(rec) - 1, <<B(MARKER)>>, 1)
        /\ pc' = "sync marker" /\ UNCHANGED <<rc, bounds>>
     \/ Fault /\ Fails /\ UNCHANGED file
  /\ UNCHANGED <<for, db, rec, waldata, history>>

\* Mutant: the record counts as committed without a second sync.
SyncMarker_Skipped ==
  /\ pc = "sync marker"
  /\ end' = end + RecLen(rec)
  /\ log' = Append(log, rec)
  /\ pc' = IF for = "wal" THEN "wal" ELSE "write header"
  /\ walpos' = IF for = "wal" THEN walpos + 1 ELSE walpos
  /\ UNCHANGED <<file, for, flags, rec, wal, walruns, durable, happened, rc, bounds>>

\* Mutant: the log's end moves past the payload and not past the marker.
SyncMarker_Short ==
  /\ pc = "sync marker"
  /\ Sync
  /\ end' = end + RecLen(rec) - 1
  /\ log' = Append(log, rec)
  /\ pc' = IF for = "wal" THEN "wal" ELSE "write header"
  /\ walpos' = IF for = "wal" THEN walpos + 1 ELSE walpos
  /\ UNCHANGED <<for, flags, rec, wal, walruns, durable, happened, rc, bounds>>

SyncMarker ==
  /\ pc = "sync marker"
  /\ \/ /\ Sync
        /\ end' = end + RecLen(rec)
        /\ log' = Append(log, rec)
        /\ pc' = IF for = "wal" THEN "wal" ELSE "write header"
        /\ walpos' = IF for = "wal" THEN walpos + 1 ELSE walpos
        /\ UNCHANGED <<rc, bounds>>
     \/ Fault /\ SyncFails /\ Fails /\ UNCHANGED <<end, log, walpos>>
  /\ UNCHANGED <<for, flags, rec, wal, walruns, durable, happened>>

\* The header is written whole when the file is created and patched later.
WriteHeader ==
  /\ pc = "write header"
  /\ \/ /\ Write(0, <<H(end, flags)>>, 1)
        /\ pc' = "sync header" /\ UNCHANGED <<rc, happened, bounds>>
     \/ /\ Fault
        /\ \/ UNCHANGED <<file, happened>>
           \/ Write(0, <<Junk>>, 1) /\ happened' = happened \cup {"torn"}
        /\ Fails
  /\ UNCHANGED <<for, db, rec, waldata, log, durable>>

\* The step after a successful header update.
After ==
  CASE for = "wal" -> "delete wal"
    [] for = "cut" -> "replay"
    [] for = "close" -> "down"
    [] OTHER -> "idle"

SyncHeader ==
  /\ pc = "sync header"
  /\ \/ /\ Sync
        /\ pc' = After
        /\ rc' = IF for \in {"create", "ready"} THEN "OK" ELSE rc
        /\ durable' = Len(log)
        /\ happened' = happened \ {"unfinished", "torn"}
        /\ walruns' = IF for = "wal" THEN walruns + 1 ELSE walruns
        /\ UNCHANGED bounds
     \/ Fault /\ SyncFails /\ Fails /\ UNCHANGED <<durable, happened, walruns>>
  /\ UNCHANGED <<for, db, rec, wal, walpos, log>>

\* qdb_push, qdb_pop, qdb_ack, qdb_nack or an expiry appends a record.
AppendRecord(r) ==
  /\ pc = "idle" /\ appends < MaxAppends
  /\ end + RecLen(r) <= MaxCells + 1
  /\ rec' = r /\ for' = "call" /\ pc' = "body" /\ appends' = appends + 1
  /\ UNCHANGED <<file, db, waldata, rc, history, opens, faults, losses>>

qdb_close ==
  /\ pc = "idle"
  /\ flags' = {} /\ for' = "close" /\ pc' = "write header"
  /\ UNCHANGED <<file, end, rec, waldata, rc, history, bounds>>

-----------------------------------------------------------------------------
(* qdb_open_err, once it holds the lock *)

Refuse(error) == pc' = "down" /\ rc' = error

\* The file does not exist and is created.
OpenNew ==
  /\ pc = "down" /\ opens < MaxOpens
  /\ ~exists
  /\ exists' = TRUE /\ end' = 1 /\ flags' = {"DIRTY"}
  /\ pc' = "write header" /\ for' = "create" /\ rc' = "none"
  /\ happened' = happened \cup {"unfinished"}
  /\ opens' = opens + 1
  /\ UNCHANGED <<cache, media, dirty, rec, waldata, log, durable, appends, faults, losses>>

\* qdb__header_read: a header that is not complete is refused.
header_read(f) == IF f[0].kind = "hdr" THEN f[0] ELSE Junk

OpenOld ==
  LET h == header_read(cache) IN
  /\ pc = "down" /\ opens < MaxOpens
  /\ exists
  /\ opens' = opens + 1
  /\ IF h = Junk
     THEN Refuse("CORRUPT") /\ UNCHANGED <<db, walpos, log>>
     ELSE /\ end' = h.end /\ flags' = h.flags /\ walpos' = 1
          /\ log' = Upto(log, h.end)
          /\ pc' = (IF h.flags = {} THEN "truncate" ELSE "wal") /\ rc' = "none"
  /\ UNCHANGED <<file, for, rec, wal, walruns, durable, happened, appends, faults, losses>>

\* Mutant: the WAL file is deleted before the header covers its records.
replay_wal_DeleteFirst ==
  /\ pc = "wal"
  /\ IF ~wal.there THEN pc' = "truncate" /\ UNCHANGED <<rec, rc, flags, for, wal>>
     ELSE IF walpos > Len(wal.recs)
     THEN /\ flags' = flags \ {"WAL_PRESENT"} /\ wal' = NoWal
          /\ pc' = "write header" /\ for' = "wal" /\ UNCHANGED <<rec, rc>>
     ELSE IF wal.recs[walpos] = BadRecord
     THEN Refuse("CORRUPT") /\ UNCHANGED <<rec, flags, for, wal>>
     ELSE /\ end + RecLen(wal.recs[walpos]) <= MaxCells + 1
          /\ rec' = wal.recs[walpos] /\ for' = "wal" /\ pc' = "body"
          /\ UNCHANGED <<rc, flags, wal>>
  /\ UNCHANGED <<file, end, walpos, walruns, history, bounds>>

\* replay_wal: every record of the WAL file is appended, then the header is
\* updated.  A WAL whose header or next record is damaged is refused.
replay_wal ==
  /\ pc = "wal"
  /\ IF ~wal.there THEN pc' = "truncate" /\ UNCHANGED <<rec, rc, flags, for>>
     ELSE IF walpos > Len(wal.recs)
     THEN /\ flags' = flags \ {"WAL_PRESENT"}
          /\ pc' = "write header" /\ for' = "wal" /\ UNCHANGED <<rec, rc>>
     ELSE IF wal.recs[walpos] = BadRecord
     THEN Refuse("CORRUPT") /\ UNCHANGED <<rec, flags, for>>
     ELSE /\ end + RecLen(wal.recs[walpos]) <= MaxCells + 1
          /\ rec' = wal.recs[walpos] /\ for' = "wal" /\ pc' = "body"
          /\ UNCHANGED <<rc, flags>>
  /\ UNCHANGED <<file, end, wal, walpos, walruns, history, bounds>>

\* replay_wal takes a WAL file that it cannot open for one that is not there,
\* and deletes one whose size it cannot read.
WalUnread ==
  /\ pc = "wal" /\ wal.there /\ walpos = 1
  /\ Fault
  /\ \/ UNCHANGED <<wal, happened>>
     \/ wal' = NoWal /\ happened' = happened \cup {"walunread"}
  /\ pc' = "truncate"
  /\ UNCHANGED <<file, for, db, rec, walpos, walruns, rc, log, durable>>

\* The header covers the WAL's records; deleting the file may fail.
DeleteWal ==
  /\ pc = "delete wal"
  /\ pc' = "truncate"
  /\ \/ wal' = NoWal /\ UNCHANGED <<happened, bounds>>
     \/ Fault /\ happened' = happened \cup {"walkept"} /\ UNCHANGED wal
  /\ UNCHANGED <<file, for, db, rec, walpos, walruns, rc, log, durable>>

\* Step 5: what lies past the end of the log is cut off.
TruncateTail ==
  /\ pc = "truncate"
  /\ \/ /\ IF Size(cache) > end THEN Truncate(end) ELSE UNCHANGED file
        /\ pc' = "validate" /\ UNCHANGED <<rc, bounds>>
     \/ Fault /\ Size(cache) > end /\ Refuse("IO") /\ UNCHANGED file
  /\ UNCHANGED <<for, db, rec, waldata, history>>

\* Step 6.
validate_log ==
  LET s == Scan(cache, end) IN
  /\ pc = "validate"
  /\ \/ s.rc = "END" /\ pc' = "replay" /\ UNCHANGED <<file, end, for, history, rc, bounds>>
     \/ /\ s.rc = "PARTIAL"
        /\ Truncate(s.at) /\ end' = s.at
        /\ log' = Upto(log, s.at)
        /\ durable' = IF Len(log') < durable THEN Len(log') ELSE durable
        /\ happened' = happened \cup {"cut"} \cup (IF wal.there THEN {"walcut"} ELSE {})
        /\ pc' = "write header" /\ for' = "cut" /\ UNCHANGED <<rc, bounds>>
     \/ /\ s.rc = "PARTIAL"
        /\ Fault /\ Refuse("IO") /\ UNCHANGED <<file, end, for, history>>
     \/ /\ s.rc \in {"CORRUPT", "IO"}
        /\ Refuse(s.rc) /\ UNCHANGED <<file, end, for, history, bounds>>
  /\ UNCHANGED <<flags, rec, waldata>>

\* Steps 7 and 8: the log is replayed, and the header is marked dirty.
ReplayLog ==
  /\ pc = "replay"
  /\ flags' = flags \cup {"DIRTY"}
  /\ for' = "ready" /\ pc' = "write header"
  /\ UNCHANGED <<file, end, rec, waldata, rc, history, bounds>>

\* A read, a size query or an allocation fails while the file is opened.
OpenFails ==
  /\ pc \in {"wal", "truncate", "validate", "replay"}
  /\ Fault /\ Refuse("IO")
  /\ UNCHANGED <<file, for, db, rec, waldata, history>>

-----------------------------------------------------------------------------
(* The environment *)

\* A crash in front of the deletion of the WAL file leaves it there.
Stops ==
  /\ pc' = "down"
  /\ UNCHANGED <<for, db, rec, waldata, rc, log, durable>>

Left == IF pc = "delete wal" THEN {"walkept"} ELSE {}

\* The process dies; what it wrote is still in the cache.
Kill ==
  /\ pc # "down" /\ Stops
  /\ happened' = happened \cup Left
  /\ UNCHANGED <<file, bounds>>

\* The machine dies: of each unsynced cell the new value, the old one or, if
\* it is longer than a byte, a mixture is found.
PowerLoss ==
  /\ losses < MaxLosses /\ exists
  /\ Stops
  /\ \E some \in SUBSET dirty :
       \E torn \in SUBSET {o \in some : cache[o].kind \in {"rec", "hdr"}} :
         /\ media' = [o \in Offsets |-> IF o \in torn THEN Junk ELSE Reaching(some)[o]]
         /\ happened' = happened \cup Left \cup (IF 0 \in torn THEN {"torn"} ELSE {})
  /\ cache' = media' /\ dirty' = {}
  /\ exists' \in IF media' = Blank /\ "unfinished" \in happened THEN BOOLEAN ELSE {TRUE}
  /\ losses' = losses + 1
  /\ UNCHANGED <<appends, opens, faults>>

\* A later version of the program left a WAL file and said so in the header.
WalAppears ==
  /\ pc = "down" /\ dirty = {} /\ ~wal.there /\ walruns = 0
  /\ cache[0].kind = "hdr" /\ cache[0] = media[0]
  /\ \E w \in WalFiles : wal' = [there |-> TRUE, recs |-> w]
  /\ \E fl \in {{"WAL_PRESENT"}, {"DIRTY"}} :
       /\ cache' = [cache EXCEPT ![0].flags = @ \cup fl]
       /\ media' = [media EXCEPT ![0].flags = @ \cup fl]
  /\ UNCHANGED <<dirty, exists, pc, for, db, rec, walpos, walruns, rc, history, bounds>>

\* What may become of a cell of the log.
Damaged(c) ==
  CASE c.kind = "rec" ->
         {[c EXCEPT !.plen = n] : n \in IF "plen" \in Damages THEN (0..MaxCells) \ {c.plen} ELSE {}}
         \cup {[c EXCEPT !.crc = << >>] : x \in Damages \cap {"crc"}}
         \cup {[c EXCEPT !.type = t] : t \in IF "type" \in Damages THEN {"bad"} ELSE {}}
    [] c.kind = "byte" -> {B(x) : x \in IF "byte" \in Damages THEN Bytes \ {c.x} ELSE {}}
    [] c.kind = "hdr" -> {Junk : x \in Damages \cap {"header"}}
    [] OTHER -> {}

\* A cell under the header's log end changes on the media.
Damage ==
  /\ pc = "down" /\ cache = media /\ happened = {} /\ cache[0].kind = "hdr"
  /\ \E o \in 0..(cache[0].end - 1) : \E c \in Damaged(cache[o]) :
       cache' = [cache EXCEPT ![o] = c]
  /\ media' = cache'
  /\ happened' = {"damaged"}
  /\ UNCHANGED <<dirty, exists, pc, for, db, rec, waldata, rc, log, durable, bounds>>

-----------------------------------------------------------------------------
Next ==
  \/ OpenNew \/ OpenOld \/ replay_wal \/ WalUnread \/ DeleteWal
  \/ TruncateTail \/ validate_log \/ ReplayLog \/ OpenFails
  \/ \E r \in Records : AppendRecord(r)
  \/ qdb_close
  \/ WriteBody \/ SyncBody \/ WriteMarker \/ SyncMarker \/ WriteHeader \/ SyncHeader
  \/ Kill \/ PowerLoss \/ WalAppears \/ Damage

Spec == Init /\ [][Next]_vars

-----------------------------------------------------------------------------
Sound == happened \cap {"unfinished", "torn", "damaged"} = {}

\* At every moment, and whatever part of the unsynced writes a power loss
\* leaves, the header on the media covers an unbroken sequence of records: the
\* ones appended, in order, at least those a successful header update covered.
\* Neither failed writes and syncs, after which the caller goes on, nor the
\* remains of earlier attempts behind the log's end come in between.
PromisedDurable ==
  exists /\ Sound =>
    /\ media[0].kind = "hdr"
    /\ LET s == Scan(media, media[0].end) IN
       /\ s.rc = "END" /\ Len(s.recs) \in durable..Len(log)
       /\ s.recs = SubSeq(log, 1, Len(s.recs))

\* What an open handle reads back are exactly the records that were appended,
\* also after damage: a damaged log is refused or cut, never misread.  Unless
\* it is cut with a WAL file left over: the next open appends the records of
\* that file where the cut was, and if the header of the cut is not on the
\* media yet, a power loss can leave a record of them under the old header.
ReadsBack ==
  pc = "idle" /\ "walcut" \notin happened =>
    LET s == Scan(cache, end) IN s.rc = "END" /\ s.recs = log

\* qdb_open calls a database corrupt only if the media was damaged, a header
\* write was torn, its creation never finished, or the WAL file is damaged:
\* no crash, power loss or failed call makes it refuse the log.
RefusedForCause ==
  rc = "CORRUPT" => ~Sound \/ BadRecord \in Range(wal.recs)

\* validate_log cuts off a record only if the media was damaged: whatever a
\* crash can leave is behind the header's log end.
CutOnlyDamage == "cut" \in happened => "damaged" \in happened

\* The records of a WAL file come into the log as a whole and once, and the
\* file is not deleted before: unless it stays behind, because the process dies
\* before the deletion or the deletion fails, or its size could not be read.
WalOnce ==
  [][/\ wal.there /\ ~wal'.there =>
          walruns' = 1 \/ happened' \cap {"walkept", "walunread"} # {}
     /\ walruns' > 1 => "walkept" \in happened]_vars

\* A changed bit of a committed record does not go unnoticed: either all
\* records are there or the database is refused.
DamageDetected == [][durable' >= durable]_vars
=============================================================================
