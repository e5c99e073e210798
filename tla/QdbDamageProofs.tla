-------------------------- MODULE QdbDamageProofs --------------------------
(***************************************************************************)
(* A damaged file.  In front of the damaged record everything is as it     *)
(* was, p; the damaged record begins at o = EndOf(p) and ended at m.       *)
(* scan_record does not accept it, whatever mixture of the old and the new *)
(* file a power loss leaves, until a header that ends at o is on the media *)
(* and validate_log's cut is complete: then the file is laid out again.    *)
(***************************************************************************)
EXTENDS QdbStorageProofs


\* A record header that is refused, or has no record that could fit it.
BadHead(f, o) ==
  f[o].kind = "rec" => f[o].plen # Len(f[o].crc) \/ f[o].type \notin Types

\* A record without its marker.
BadMark(f, o, m) ==
  f[m] # B(MARKER) /\ (f[o].kind = "rec" => o + 1 + f[o].plen = m)

\* A record with a wrong byte in its payload.
BadByte(f, o, m) ==
  /\ f[o].kind = "rec" /\ o + 1 + f[o].plen = m /\ f[m] = B(MARKER)
  /\ \E k \in 1..f[o].plen : f[o + k].kind = "byte" /\ f[o + k].x # f[o].crc[k]

\* A header from before the cut, and that of the cut.
Uncut(c, m) ==
  c.kind = "hdr" =>
    \E e \in (m + 1)..(MaxCells + 1), fl \in SUBSET {"DIRTY", "WAL_PRESENT"} : c = H(e, fl)

AtCut(c, o) == \E fl \in SUBSET {"DIRTY", "WAL_PRESENT"} : c = H(o, fl)

\* The damaged record can be cut off, or it is refused for ever.
Cuttable(o, m) ==
  \/ BadHead(cache, o) /\ BadHead(media, o)
  \/ BadMark(cache, o, m) /\ BadMark(media, o, m)

Refused(o, m) ==
  /\ BadByte(cache, o, m) /\ BadByte(media, o, m)
  /\ \A x \in o..m : x \notin dirty

HurtFile(p, m) ==
  LET o == EndOf(p) IN
  /\ Celled(cache) /\ Celled(media) /\ dirty \subseteq Nat /\ exists
  /\ p \in Seq(Records) /\ m \in Nat /\ o < m /\ m <= MaxCells
  /\ Holds(cache, p) /\ Holds(media, p)
  /\ \A x \in dirty : x = 0 \/ x >= o
  /\ Uncut(media[0], m) /\ (Uncut(cache[0], m) \/ AtCut(cache[0], o))
  /\ Cuttable(o, m) \/ (Refused(o, m) /\ Uncut(cache[0], m))

\* What was cut is not in the log.
IsCut(p) == log = p /\ durable <= Len(p) /\ ~wal.there

HurtLog(p, m) ==
  /\ log \in Seq(Records) /\ Len(p) <= Len(log) /\ \A i \in 1..Len(p) : log[i] = p[i]
  /\ durable \in Nat
  /\ AtCut(cache[0], EndOf(p)) => IsCut(p)
  /\ "damaged" \in happened /\ "unfinished" \notin happened

\* The log ends at the cut, or behind the damaged record.
Where(p, m) ==
  \/ end = EndOf(p) /\ IsCut(p) /\ Cuttable(EndOf(p), m)
  \/ end \in (m + 1)..(MaxCells + 1) /\ Uncut(cache[0], m)

\* The program has not come past the validation of the log, or is about to
\* write the header of the cut; it may append records of a WAL file behind.
HurtProgram(p, m) ==
  LET o == EndOf(p) IN
  /\ pc \in {"down", "wal", "truncate", "validate", "replay", "delete wal",
             "body", "sync body", "marker", "sync marker", "write header", "sync header"}
  /\ pc # "down" => Where(p, m)
  /\ pc \in {"body", "sync body", "marker", "sync marker"} =>
       rec \in Records /\ end + RecLen(rec) <= MaxCells + 1
  /\ pc \in {"body", "sync body", "marker", "sync marker", "delete wal"}
     \/ (pc \in {"write header", "sync header"} /\ for = "wal") => end > m
  /\ pc = "replay" \/ (pc \in {"write header", "sync header"} /\ for # "wal") => end = o
  /\ pc \in {"body", "sync body", "marker", "sync marker"} => for = "wal"
  /\ pc \in {"write header", "sync header"} => for \in {"wal", "cut", "ready"}
  /\ pc = "sync header" => cache[0] = H(end, flags) /\ 0 \in dirty
  /\ flags \subseteq {"DIRTY", "WAL_PRESENT"}
  /\ wal.recs \in Seq(Records \cup {BadRecord}) /\ walpos \in Nat \ {0}
  /\ ~wal.there => wal = NoWal
  /\ rc = "CORRUPT" => pc = "down"

Hurt(p, m) == HurtFile(p, m) /\ HurtLog(p, m) /\ HurtProgram(p, m)

\* A file whose header is lost.
Headless ==
  /\ pc = "down" /\ exists /\ cache[0].kind # "hdr" /\ media[0].kind # "hdr"
  /\ "damaged" \in happened /\ "unfinished" \notin happened

\* After damage, as long as no WAL record was appended behind the cut.
DInv ==
  "damaged" \in happened /\ "walcut" \notin happened =>
    \/ Laid
    \/ Headless
    \/ \E p \in Seq(Records), m \in Nat : Hurt(p, m)

-----------------------------------------------------------------------------
(* What changes of a damaged file leave of the damage *)

\* The bounds of the damaged record.
LEMMA HurtBounds ==
  ASSUME NEW p, NEW m, HurtFile(p, m)
  PROVE  /\ p \in Seq(Records) /\ Len(p) \in Nat /\ m \in Nat /\ MaxCells \in Nat
         /\ EndOf(p) \in Nat \ {0} /\ EndOf(p) < m /\ m <= MaxCells /\ exists
<1>1. p \in Seq(Records) /\ m \in Nat /\ EndOf(p) < m /\ m <= MaxCells /\ exists
  BY Zenon DEF HurtFile
<1>2. Len(p) \in Nat /\ Len(p) + 1 \in 1..(Len(p) + 1)
  BY <1>1
<1>3. EndOf(p) \in Nat \ {0}
  BY <1>1, <1>2, StartsFacts, Zenon DEF EndOf
<1> QED
  BY <1>1, <1>2, <1>3, LayoutAssumption, Zenon

\* A header from before the cut is not that of the cut.
LEMMA UncutOrCut ==
  ASSUME NEW c, NEW o \in Nat, NEW m \in Nat, o < m, Uncut(c, m)
  PROVE  ~AtCut(c, o)
<1> SUFFICES ASSUME AtCut(c, o) PROVE FALSE
  BY Zenon
<1>1. MaxCells \in Nat
  BY LayoutAssumption, Zenon
<1>2. c.kind = "hdr" /\ c.end = o
  BY DEF AtCut, H
<1>3. PICK e \in (m + 1)..(MaxCells + 1), fl \in SUBSET {"DIRTY", "WAL_PRESENT"} : c = H(e, fl)
  BY <1>2, Zenon DEF Uncut
<1> QED
  BY <1>1, <1>2, <1>3 DEF H

\* The damage is the same in a file with the same cells in the record.
LEMMA SameDamage ==
  ASSUME NEW f, NEW h, NEW o \in Nat, NEW m \in Nat, o < m, Celled(f), m <= MaxCells,
         \A x \in o..m : f[x] = h[x]
  PROVE  /\ BadHead(f, o) => BadHead(h, o)
         /\ BadMark(f, o, m) => BadMark(h, o, m)
         /\ BadByte(f, o, m) => BadByte(h, o, m)
<1>1. f[o] = h[o] /\ f[m] = h[m]
  OBVIOUS
<1>2. ASSUME BadByte(f, o, m) PROVE BadByte(h, o, m)
  <2>1. o \in Offsets
    BY LayoutAssumption DEF Offsets
  <2>2. f[o].kind = "rec" /\ o + 1 + f[o].plen = m /\ f[m] = B(MARKER) /\ f[o].plen \in Nat
    BY <1>2, <2>1, Zenon DEF BadByte, Celled
  <2>3. PICK k \in 1..f[o].plen : f[o + k].kind = "byte" /\ f[o + k].x # f[o].crc[k]
    BY <1>2, Zenon DEF BadByte
  <2>4. o + k \in o..m
    BY <2>2
  <2>5. h[o + k].kind = "byte" /\ h[o + k].x # h[o].crc[k] /\ k \in 1..h[o].plen
    BY <1>1, <2>3, <2>4
  <2> QED
    BY <1>1, <2>2, <2>5, Zenon DEF BadByte
<1> QED
  BY <1>1, <1>2, Zenon DEF BadHead, BadMark

\* Each cell on the media is the one it was, or, if it was dirty, the cached
\* one or a part of it; a program reads the cache it had, or the media.
Mixed ==
  /\ Celled(media')
  /\ \A x \in Offsets : \/ media'[x] = media[x]
                        \/ x \in dirty /\ media'[x] \in {cache[x], Junk}
  /\ cache' = cache \/ cache' = media'
  /\ dirty' = {} /\ exists'

-----------------------------------------------------------------------------
(* The steps of a program on a damaged file *)

\* A file whose header is lost is refused, and nothing brings the header back.
LEMMA HeadlessStep ==
  ASSUME Headless, Next, ~Damage
  PROVE  Headless'
<1>1. /\ pc = "down" /\ exists /\ cache[0].kind # "hdr" /\ media[0].kind # "hdr"
      /\ "damaged" \in happened /\ "unfinished" \notin happened
  BY Zenon DEF Headless
<1>2. OpenOld \/ PowerLoss
  BY <1>1, Zenon DEF Next, OpenNew, replay_wal, WalUnread, DeleteWal, TruncateTail, validate_log, ReplayLog,
    OpenFails, AppendRecord, qdb_close, WriteBody, SyncBody, WriteMarker, SyncMarker, WriteHeader,
    SyncHeader, Kill, WalAppears
<1>3. CASE OpenOld
  <2>1. header_read(cache) = Junk
    BY <1>1, Zenon DEF header_read
  <2>2. pc' = "down" /\ UNCHANGED <<cache, media, exists, happened>>
    BY <1>3, <2>1, ZenonT(40) DEF OpenOld, Refuse, file
  <2> QED
    BY <1>1, <2>2, Zenon DEF Headless
<1>4. CASE PowerLoss
  <2>1. pc' = "down" /\ cache' = media' /\ exists'
    BY <1>1, <1>4, ZenonT(40) DEF PowerLoss, Stops
  <2>2. "damaged" \in happened' /\ "unfinished" \notin happened'
    BY <1>1, <1>4, Zenon DEF PowerLoss, Left
  <2>3. PICK some \in SUBSET dirty : \E torn \in SUBSET {o \in some : cache[o].kind \in {"rec", "hdr"}} :
          media' = [o \in Offsets |-> IF o \in torn THEN Junk ELSE Reaching(some)[o]]
    BY <1>4, Zenon DEF PowerLoss
  <2>4. 0 \in Offsets
    BY LayoutAssumption DEF Offsets
  <2>5. Reaching(some)[0] \in {cache[0], media[0]}
    BY <2>4, Zenon DEF Reaching
  <2>6. media'[0] \in {cache[0], media[0], Junk}
    BY <2>3, <2>4, <2>5, Zenon
  <2>7. media'[0].kind # "hdr"
    BY <1>1, <2>6, SMTT(60) DEF Junk
  <2> QED
    BY <2>1, <2>2, <2>7, Zenon DEF Headless
<1> QED
  BY <1>2, <1>3, <1>4, Zenon

\* The damage stays where it is, or is cut off.
LEMMA HurtStep ==
  \A p, m : Hurt(p, m) /\ Next /\ ~Damage => Hurt(p, m)' \/ Laid' \/ "walcut" \in happened'
\* A write of the header, or behind the damaged record.
<1>HurtChanged.
    ASSUME NEW p, NEW m, HurtFile(p, m), UNCHANGED <<media, exists>>,
           Celled(cache'), \A x \in 1..m : cache'[x] = cache[x],
           dirty' \subseteq Nat, \A x \in dirty' : x \in dirty \/ x = 0 \/ x > m,
           Uncut(cache'[0], m) \/ (AtCut(cache'[0], EndOf(p)) /\ Cuttable(EndOf(p), m))
    PROVE  HurtFile(p, m)' /\ (Cuttable(EndOf(p), m) => Cuttable(EndOf(p), m)')
  <2> USE <1>HurtChanged
  <2>0. /\ p \in Seq(Records) /\ m \in Nat /\ MaxCells \in Nat
        /\ EndOf(p) \in Nat \ {0} /\ EndOf(p) < m /\ m <= MaxCells /\ exists
    BY HurtBounds, Zenon
  <2>1. PICK o : o = EndOf(p)
    BY Zenon
  <2>2. /\ Celled(cache) /\ Celled(media) /\ Holds(cache, p) /\ Holds(media, p)
        /\ \A x \in dirty : x = 0 \/ x >= o
        /\ Uncut(media[0], m)
        /\ Cuttable(o, m) \/ (Refused(o, m) /\ Uncut(cache[0], m))
    BY <2>1, Zenon DEF HurtFile
  <2>3. \A x \in o..m : cache[x] = cache'[x]
    BY <2>0, <2>1
  <2>4. Cuttable(o, m) => Cuttable(o, m)'
    <3>1. /\ BadHead(cache, o) => BadHead(cache', o)
          /\ BadMark(cache, o, m) => BadMark(cache', o, m)
      BY <2>0, <2>1, <2>2, <2>3, SameDamage, Zenon
    <3>2. Cuttable(o, m)' <=> \/ BadHead(cache', o) /\ BadHead(media', o)
                              \/ BadMark(cache', o, m) /\ BadMark(media', o, m)
      BY Zenon DEF Cuttable, BadHead, BadMark
    <3> QED
      BY <3>1, <3>2, Zenon DEF Cuttable
  <2>5. Refused(o, m) => Refused(o, m)'
    <3> SUFFICES ASSUME Refused(o, m) PROVE Refused(o, m)'
      BY Zenon
    <3>1. BadByte(cache', o, m) /\ BadByte(media', o, m)
      BY <2>0, <2>1, <2>2, <2>3, SameDamage, Zenon DEF Refused
    <3>2. \A x \in o..m : x \notin dirty'
      <4> TAKE x \in o..m
      <4>1. x \notin dirty /\ x # 0 /\ ~(x > m)
        BY <2>0, <2>1, SMTT(60) DEF Refused
      <4> QED
        BY <4>1, Zenon
    <3>3. BadByte(cache, o, m)' /\ BadByte(media, o, m)'
      BY <3>1, Zenon DEF BadByte
    <3> QED
      BY <3>2, <3>3, Zenon DEF Refused
  <2>6. Holds(cache', p)
    <3>1. \A x \in 1..(EndOf(p) - 1) : cache[x] = cache'[x]
      BY <2>0
    <3> QED
      BY <2>0, <2>2, <3>1, SameHolds, Zenon
  <2>7. (Celled(cache) /\ Celled(media) /\ Holds(cache, p) /\ Holds(media, p))'
    BY <2>2, <2>6, Zenon DEF Celled, Holds
  <2>8. \A x \in dirty' : x = 0 \/ x >= EndOf(p)
    <3> TAKE x \in dirty'
    <3>1. x \in Nat
      BY Zenon
    <3> QED
      BY <2>0, <2>1, <2>2, <3>1
  <2>9. /\ Uncut(media[0], m)' /\ (Uncut(cache[0], m) \/ AtCut(cache[0], o))'
        /\ (Cuttable(o, m) \/ (Refused(o, m) /\ Uncut(cache[0], m)))'
    <3>1. Uncut(media[0], m)'
      BY <2>2, Zenon DEF Uncut
    <3>2. (Uncut(cache[0], m) \/ AtCut(cache[0], o))'
      BY <2>1, Zenon DEF Uncut, AtCut
    <3>3. Uncut(cache[0], m)' \/ Cuttable(o, m)
      BY <2>1, Zenon DEF Uncut
    <3> QED
      BY <2>2, <2>4, <2>5, <3>1, <3>2, <3>3, Zenon
  <2> QED
    BY <2>0, <2>1, <2>4, <2>7, <2>8, <2>9, Zenon DEF HurtFile
\* The damaged record is cut off in the cache.
<1>HurtTruncated.
    ASSUME NEW p, NEW m, HurtFile(p, m), Cuttable(EndOf(p), m), Truncate(EndOf(p))
    PROVE  HurtFile(p, m)' /\ Cuttable(EndOf(p), m)' /\ cache'[0] = cache[0]
  <2> USE <1>HurtTruncated
  <2>0. /\ p \in Seq(Records) /\ m \in Nat /\ MaxCells \in Nat
        /\ EndOf(p) \in Nat \ {0} /\ EndOf(p) < m /\ m <= MaxCells /\ exists
    BY HurtBounds, Zenon
  <2>1. PICK o \in Nat \ {0} : o = EndOf(p)
    BY <2>0, Zenon
  <2>2. /\ Celled(cache) /\ Celled(media) /\ Holds(cache, p) /\ Holds(media, p) /\ dirty \subseteq Nat
        /\ \A x \in dirty : x = 0 \/ x >= o
        /\ Uncut(media[0], m) /\ (Uncut(cache[0], m) \/ AtCut(cache[0], o))
    BY <2>1, Zenon DEF HurtFile
  <2>3. /\ cache' = [x \in Offsets |-> IF x >= o THEN None ELSE cache[x]]
        /\ dirty' = dirty \cup {x \in Offsets : x >= o /\ cache[x] # None}
        /\ UNCHANGED <<media, exists>>
    BY <2>1, Zenon DEF Truncate
  <2>4. \A x \in Offsets : cache'[x] = IF x >= o THEN None ELSE cache[x]
    BY <2>3, Zenon
  <2>5. Celled(cache')
    <3>1. cache' = [x \in Offsets |-> cache'[x]]
      BY <2>3, Zenon
    <3>2. \A x \in Offsets : cache[x].kind = "rec" => cache[x].plen \in Nat
      BY <2>2, Zenon DEF Celled
    <3>3. None.kind # "rec"
      BY Zenon DEF None
    <3> QED
      BY <2>4, <3>1, <3>2, <3>3, Zenon DEF Celled
  <2>6. \A x \in 0..(o - 1) : cache'[x] = cache[x]
    <3> TAKE x \in 0..(o - 1)
    <3>1. x \in Offsets /\ ~(x >= o)
      BY <2>0, <2>1 DEF Offsets
    <3> QED
      BY <2>4, <3>1, Zenon
  <2>7. cache'[0] = cache[0]
    BY <2>6
  <2>8. cache'[o] = None /\ cache'[m] = None
    <3>1. o \in Offsets /\ m \in Offsets /\ o >= o /\ m >= o
      BY <2>0, <2>1 DEF Offsets
    <3> QED
      BY <2>4, <3>1, Zenon
  <2>9. Cuttable(o, m)'
    <3>1. BadHead(cache', o) /\ BadMark(cache', o, m)
      BY <2>8 DEF BadHead, BadMark, None, B
    <3>2. Cuttable(o, m)' <=> \/ BadHead(cache', o) /\ BadHead(media', o)
                              \/ BadMark(cache', o, m) /\ BadMark(media', o, m)
      BY Zenon DEF Cuttable, BadHead, BadMark
    <3>3. Cuttable(o, m)
      BY <2>1, Zenon
    <3> QED
      BY <2>3, <3>1, <3>2, <3>3, Zenon DEF Cuttable
  <2>10. Holds(cache', p)
    <3>1. \A x \in 1..(EndOf(p) - 1) : cache[x] = cache'[x]
      BY <2>1, <2>6
    <3> QED
      BY <2>0, <2>2, <3>1, SameHolds, Zenon
  <2>11. (Celled(cache) /\ Celled(media) /\ Holds(cache, p) /\ Holds(media, p))'
    BY <2>2, <2>3, <2>5, <2>10, Zenon DEF Celled, Holds
  <2>12. dirty' \subseteq Nat /\ \A x \in dirty' : x = 0 \/ x >= o
    <3>1. dirty \subseteq Nat /\ Offsets \subseteq Nat
      BY <2>0, <2>2 DEF Offsets
    <3>2. ASSUME NEW x \in dirty' PROVE x \in Nat /\ (x = 0 \/ x >= o)
      BY <2>2, <2>3, <3>1, <3>2, Zenon
    <3> QED
      BY <3>2, Zenon
  <2>13. Uncut(media[0], m)' /\ (Uncut(cache[0], m) \/ AtCut(cache[0], o))'
    BY <2>2, <2>3, <2>7, Zenon DEF Uncut, AtCut
  <2>14. exists' /\ p \in Seq(Records) /\ m \in Nat /\ o < m /\ m <= MaxCells
    BY <2>0, <2>1, <2>3, Zenon
  <2> QED
    BY <2>1, <2>7, <2>9, <2>11, <2>12, <2>13, <2>14, Zenon DEF HurtFile
\* qdb__file_sync, and one that fails.
<1>SyncMixes.
    ASSUME Celled(cache), Celled(media), exists, Sync \/ SyncFails
    PROVE  /\ Mixed
           /\ Sync => /\ UNCHANGED cache
                      /\ 0 \in dirty => media'[0] = cache[0]
  <2> USE <1>SyncMixes
  <2>0. MaxCells \in Nat /\ 0 \in Offsets
    BY LayoutAssumption DEF Offsets
  <2>1. PICK some \in SUBSET dirty : media' = Reaching(some)
    BY Zenon DEF Sync, SyncFails
  <2>2. \A x \in Offsets : media'[x] = IF x \in some THEN cache[x] ELSE media[x]
    BY <2>1, Zenon DEF Reaching
  <2>3. media' = [x \in Offsets |-> media'[x]]
    BY <2>1, Zenon DEF Reaching
  <2>4. /\ \A x \in Offsets : cache[x].kind = "rec" => cache[x].plen \in Nat
        /\ \A x \in Offsets : media[x].kind = "rec" => media[x].plen \in Nat
    BY Zenon DEF Celled
  <2>5. Celled(media')
    BY <2>2, <2>3, <2>4, Zenon DEF Celled
  <2>6. (cache' = cache \/ cache' = media') /\ dirty' = {} /\ exists'
    BY Zenon DEF Sync, SyncFails
  <2>7. Mixed
    BY <2>2, <2>5, <2>6, Zenon DEF Mixed
  <2>8. ASSUME Sync PROVE UNCHANGED cache /\ (0 \in dirty => media'[0] = cache[0])
    BY <2>0, <2>8, Zenon DEF Sync, Reaching
  <2> QED
    BY <2>7, <2>8, Zenon
\* The records in front of the damage are left.
<1>MixedHolds.
    ASSUME NEW p, NEW m, HurtFile(p, m), Mixed
    PROVE  Holds(media', p) /\ Holds(cache', p) /\ Celled(cache') /\ Celled(media')
  <2> USE <1>MixedHolds
  <2>0. /\ p \in Seq(Records) /\ m \in Nat /\ MaxCells \in Nat
        /\ EndOf(p) \in Nat \ {0} /\ EndOf(p) < m /\ m <= MaxCells
    BY HurtBounds, Zenon
  <2>1. /\ Celled(cache) /\ Holds(cache, p) /\ Holds(media, p)
        /\ \A x \in dirty : x = 0 \/ x >= EndOf(p)
    BY Zenon DEF HurtFile
  <2>2. \A x \in 1..(EndOf(p) - 1) : media[x] = media'[x]
    <3> TAKE x \in 1..(EndOf(p) - 1)
    <3>1. x \in Offsets /\ x # 0 /\ ~(x >= EndOf(p))
      BY <2>0 DEF Offsets
    <3>2. x \notin dirty
      BY <2>1, <3>1, Zenon
    <3> QED
      BY <3>1, <3>2, Zenon DEF Mixed
  <2>3. Holds(media', p)
    BY <2>0, <2>1, <2>2, SameHolds, Zenon
  <2> QED
    BY <2>1, <2>3, Zenon DEF Mixed
\* The damage is left while the header on the media is not that of the cut.
<1>MixedHurts.
    ASSUME NEW p, NEW m, HurtFile(p, m), Mixed, Uncut(media'[0], m)
    PROVE  HurtFile(p, m)' /\ (Cuttable(EndOf(p), m) => Cuttable(EndOf(p), m)')
  <2> USE <1>MixedHurts
  <2>0. /\ p \in Seq(Records) /\ m \in Nat /\ MaxCells \in Nat
        /\ EndOf(p) \in Nat \ {0} /\ EndOf(p) < m /\ m <= MaxCells
    BY HurtBounds, Zenon
  <2>1. PICK o \in Nat \ {0} : o = EndOf(p)
    BY <2>0, Zenon
  <2>2. /\ Uncut(cache[0], m) \/ AtCut(cache[0], o)
        /\ Cuttable(o, m) \/ (Refused(o, m) /\ Uncut(cache[0], m))
        /\ Celled(media)
    BY <2>1, Zenon DEF HurtFile
  <2>3. Holds(media', p) /\ Holds(cache', p) /\ Celled(cache') /\ Celled(media')
    BY <1>MixedHolds, Zenon
  <2>4. o \in Offsets /\ m \in Offsets
    BY <2>0, <2>1, SMTT(60) DEF Offsets
  <2>5. media'[o] \in {media[o], cache[o], Junk} /\ media'[m] \in {media[m], cache[m], Junk}
    BY <2>4, Zenon DEF Mixed
  <2>6. cache' = cache \/ cache' = media'
    BY Zenon DEF Mixed
  <2>7. Junk.kind # "rec" /\ Junk # B(MARKER)
    BY Zenon DEF Junk, B
  <2>8. Cuttable(o, m) => Cuttable(o, m)'
    <3>1. ASSUME BadHead(cache, o), BadHead(media, o) PROVE BadHead(media', o) /\ BadHead(cache', o)
      BY <2>5, <2>6, <2>7, <3>1, Zenon DEF BadHead
    <3>2. ASSUME BadMark(cache, o, m), BadMark(media, o, m)
          PROVE  BadMark(media', o, m) /\ BadMark(cache', o, m)
      BY <2>5, <2>6, <2>7, <3>2, Zenon DEF BadMark
    <3>3. Cuttable(o, m)' <=> \/ BadHead(cache', o) /\ BadHead(media', o)
                              \/ BadMark(cache', o, m) /\ BadMark(media', o, m)
      BY Zenon DEF Cuttable, BadHead, BadMark
    <3> QED
      BY <3>1, <3>2, <3>3, Zenon DEF Cuttable
  <2>9. Refused(o, m) => Refused(o, m)'
    <3> SUFFICES ASSUME Refused(o, m) PROVE Refused(o, m)'
      BY Zenon
    <3>1. \A x \in o..m : media[x] = media'[x]
      <4> TAKE x \in o..m
      <4>1. x \in Offsets /\ x \notin dirty
        BY <2>0, <2>1 DEF Refused, Offsets
      <4> QED
        BY <4>1, Zenon DEF Mixed
    <3>2. BadByte(media', o, m)
      BY <2>0, <2>1, <2>2, <3>1, SameDamage, ZenonT(40) DEF Refused
    <3>3. BadByte(cache', o, m)
      BY <2>6, <3>2, Zenon DEF Refused
    <3>4. BadByte(cache, o, m)' /\ BadByte(media, o, m)'
      BY <3>2, <3>3, Zenon DEF BadByte
    <3> QED
      BY <3>4, Zenon DEF Refused, Mixed
  <2>10. /\ Uncut(media[0], m)' /\ (Uncut(cache[0], m) \/ AtCut(cache[0], o))'
         /\ Uncut(cache[0], m) => Uncut(cache[0], m)'
    BY <2>2, <2>6, Zenon DEF Uncut, AtCut
  <2>11. (Cuttable(o, m) \/ (Refused(o, m) /\ Uncut(cache[0], m)))'
    BY <2>2, <2>8, <2>9, <2>10, Zenon
  <2>12. (Celled(cache) /\ Celled(media) /\ Holds(cache, p) /\ Holds(media, p))'
    BY <2>3, Zenon DEF Celled, Holds
  <2>13. (dirty \subseteq Nat /\ exists /\ \A x \in dirty : x = 0 \/ x >= o)'
    BY Zenon DEF Mixed
  <2> QED
    BY <2>0, <2>1, <2>8, <2>10, <2>11, <2>12, <2>13, Zenon DEF HurtFile
\* Once the header of the cut is on the media, the file is laid out again.
<1>MixedHeals.
    ASSUME NEW p, NEW m, HurtFile(p, m), Mixed, media'[0] = cache[0], AtCut(cache[0], EndOf(p)),
           log' = p, durable' \in 0..Len(p), "damaged" \in happened'
    PROVE  FileInv'
  <2> USE <1>MixedHeals
  <2>0. /\ p \in Seq(Records) /\ m \in Nat /\ MaxCells \in Nat /\ Len(p) \in Nat
        /\ EndOf(p) \in Nat \ {0} /\ EndOf(p) < m /\ m <= MaxCells
    BY HurtBounds, Zenon
  <2>1. Holds(media', p) /\ Holds(cache', p) /\ Celled(cache') /\ Celled(media')
    BY <1>MixedHolds, Zenon
  <2>2. PICK fl \in SUBSET {"DIRTY", "WAL_PRESENT"} : cache[0] = H(EndOf(p), fl)
    BY Zenon DEF AtCut
  <2>3. cache'[0] = H(EndOf(p), fl) /\ media'[0] = H(EndOf(p), fl)
    BY <2>2, Zenon DEF Mixed
  <2>4. Covering(cache[0])' /\ Covering(media[0])'
    <3>1. Len(p) \in durable'..Len(log')
      BY <2>0
    <3>2. H(EndOf(p), fl) = H(Starts(log')[Len(p) + 1], fl)
      BY Zenon DEF EndOf
    <3> QED
      BY <2>3, <3>1, <3>2, Zenon DEF Covering
  <2>5. (Celled(cache) /\ Celled(media) /\ Holds(cache, log) /\ Holds(media, log))'
    BY <2>1, Zenon DEF Celled, Holds
  <2>6. (dirty \subseteq Nat /\ exists /\ \A x \in dirty : x = 0 \/ x >= EndOf(log))'
    BY Zenon DEF Mixed
  <2>7. (cache[0].kind = "hdr" /\ media[0].kind = "hdr" /\ media[0].end <= cache[0].end)'
    BY <2>0, <2>3 DEF H
  <2>8. (log \in Seq(Records) /\ durable \in 0..Len(log) /\ EndOf(log) <= MaxCells + 1)'
    <3>1. EndOf(log)' = EndOf(p)
      BY Zenon DEF EndOf
    <3> QED
      BY <2>0, <3>1
  <2> QED
    BY <2>4, <2>5, <2>6, <2>7, <2>8, Zenon DEF FileInv
\* A program that has the file open.
<1>HurtHandle.
    ASSUME NEW p, NEW m, Hurt(p, m), pc # "down"
    PROVE  /\ HurtFile(p, m) /\ HurtLog(p, m) /\ HurtProgram(p, m) /\ Where(p, m)
           /\ end \in Nat \ {0} /\ end <= MaxCells + 1 /\ rc # "CORRUPT"
           /\ end = EndOf(p) => IsCut(p) /\ Cuttable(EndOf(p), m)
           /\ end # EndOf(p) => end > m /\ Uncut(cache[0], m)
           /\ end > m => end # EndOf(p)
  <2> USE <1>HurtHandle
  <2>1. HurtFile(p, m) /\ HurtLog(p, m) /\ HurtProgram(p, m)
    BY Zenon DEF Hurt
  <2>2. Where(p, m) /\ rc # "CORRUPT"
    BY <2>1, Zenon DEF HurtProgram
  <2>3. /\ m \in Nat /\ MaxCells \in Nat
        /\ EndOf(p) \in Nat \ {0} /\ EndOf(p) < m /\ m <= MaxCells
    BY <2>1, HurtBounds, Zenon
  <2>4. \/ end = EndOf(p) /\ IsCut(p) /\ Cuttable(EndOf(p), m)
        \/ end \in (m + 1)..(MaxCells + 1) /\ Uncut(cache[0], m)
    BY <2>2, Zenon DEF Where
  <2> QED
    BY <2>1, <2>2, <2>3, <2>4
\* A file that is not touched.
<1>HurtSame.
    ASSUME NEW p, NEW m, HurtFile(p, m), UNCHANGED <<cache, media, dirty, exists>>
    PROVE  HurtFile(p, m)' /\ (Cuttable(EndOf(p), m) => Cuttable(EndOf(p), m)')
  <2> USE <1>HurtSame
  <2>1. PICK o : o = EndOf(p)
    BY Zenon
  <2>2. (Cuttable(o, m) => Cuttable(o, m)') /\ (Refused(o, m) => Refused(o, m)')
    BY Zenon DEF Cuttable, Refused, BadHead, BadMark, BadByte
  <2>3. /\ Uncut(cache[0], m)' <=> Uncut(cache[0], m)
        /\ Uncut(media[0], m)' <=> Uncut(media[0], m)
        /\ AtCut(cache[0], o)' <=> AtCut(cache[0], o)
    BY Zenon DEF Uncut, AtCut
  <2>4. /\ Celled(cache) => Celled(cache)'
        /\ Celled(media) => Celled(media)'
        /\ Holds(cache, p) => Holds(cache, p)'
        /\ Holds(media, p) => Holds(media, p)'
    BY Zenon DEF Celled, Holds
  <2> QED
    BY <2>1, <2>2, <2>3, <2>4, Zenon DEF HurtFile
\* The log is as it was, and is cut where a header says so.
<1>HurtLogKept.
    ASSUME NEW p, NEW m, HurtLog(p, m), UNCHANGED <<log, durable, wal>>,
           AtCut(cache'[0], EndOf(p)) => IsCut(p),
           "damaged" \in happened', "unfinished" \notin happened'
    PROVE  HurtLog(p, m)'
  <2> USE <1>HurtLogKept
  <2>1. IsCut(p) => IsCut(p)'
    BY Zenon DEF IsCut
  <2>2. AtCut(cache[0], EndOf(p))' => AtCut(cache'[0], EndOf(p))
    BY Zenon DEF AtCut
  <2> QED
    BY <2>1, <2>2, Zenon DEF HurtLog
\* The program stops.
<1>HurtDown.
    ASSUME NEW p, NEW m, HurtProgram(p, m), pc' = "down", UNCHANGED <<flags, walpos, wal>>
    PROVE  HurtProgram(p, m)'
  BY <1>HurtDown, Zenon DEF HurtProgram
\* An append or header update that fails in qdb_open.
<1>HurtFails.
    ASSUME NEW p, NEW m, HurtProgram(p, m), Fails,
           pc \in {"body", "sync body", "marker", "sync marker", "write header", "sync header"}
    PROVE  pc' = "down" /\ rc' = "IO"
  <2> USE <1>HurtFails
  <2>1. for \in {"wal", "cut", "ready"}
    BY Zenon DEF HurtProgram
  <2> QED
    BY <2>1, Zenon DEF Fails
\* Steps of qdb_open that do not touch the file.
<1>HurtQuiet.
    ASSUME NEW p, NEW m, Hurt(p, m), replay_wal \/ ReplayLog \/ OpenFails
    PROVE  Hurt(p, m)'
  <2> USE <1>HurtQuiet
  <2>0. /\ HurtFile(p, m) /\ HurtLog(p, m) /\ HurtProgram(p, m) /\ Where(p, m) /\ pc # "down"
        /\ end \in Nat \ {0} /\ end <= MaxCells + 1 /\ rc # "CORRUPT"
        /\ end = EndOf(p) => IsCut(p) /\ Cuttable(EndOf(p), m)
        /\ end # EndOf(p) => end > m /\ Uncut(cache[0], m)
    BY <1>HurtHandle, ZenonT(40) DEF replay_wal, ReplayLog, OpenFails
  <2>1. /\ UNCHANGED <<cache, media, dirty, exists>>
        /\ UNCHANGED <<end, log, durable, happened, wal, walpos>>
    BY Zenon DEF replay_wal, ReplayLog, OpenFails, file, db, waldata, history
  <2>2. HurtFile(p, m)' /\ (Cuttable(EndOf(p), m) => Cuttable(EndOf(p), m)')
    BY <2>0, <2>1, <1>HurtSame, Zenon
  <2>3. HurtLog(p, m)'
    BY <2>0, <2>1, <1>HurtLogKept, Zenon DEF HurtLog
  <2>4. Where(p, m)'
    BY <2>0, <2>1, <2>2, Zenon DEF Where, IsCut, Uncut
  <2>5. /\ flags \subseteq {"DIRTY", "WAL_PRESENT"}
        /\ wal.recs \in Seq(Records \cup {BadRecord}) /\ walpos \in Nat \ {0}
        /\ ~wal.there => wal = NoWal
    BY <2>0, Zenon DEF HurtProgram
  <2>6. HurtProgram(p, m)'
    <3>1. CASE OpenFails
      <4>1. pc' = "down" /\ UNCHANGED flags
        BY <3>1, Zenon DEF OpenFails, Refuse, db
      <4> QED
        BY <2>0, <2>1, <4>1, <1>HurtDown, Zenon
    <3>2. CASE ReplayLog
      <4>1. pc = "replay" /\ pc' = "write header" /\ for' = "ready" /\ flags' = flags \cup {"DIRTY"} /\ rc' = rc
        BY <3>2, ZenonT(40) DEF ReplayLog
      <4>2. end' = EndOf(p)
        BY <2>0, <2>1, <4>1, ZenonT(40) DEF HurtProgram
      <4> QED
        BY <2>0, <2>1, <2>4, <2>5, <4>1, <4>2, Zenon DEF HurtProgram
    <3>3. CASE replay_wal /\ ~wal.there
      <4>1. pc' = "truncate" /\ UNCHANGED <<flags, rc>>
        BY <3>3, Zenon DEF replay_wal
      <4> QED
        BY <2>0, <2>1, <2>4, <2>5, <4>1, ZenonT(40) DEF HurtProgram
    <3>4. CASE replay_wal /\ wal.there
      <4>0. end > m
        BY <2>0, <3>4, Zenon DEF IsCut
      <4>1. CASE walpos > Len(wal.recs)
        <5>1. pc' = "write header" /\ for' = "wal" /\ flags' = flags \ {"WAL_PRESENT"} /\ rc' = rc
          BY <3>4, <4>1, ZenonT(40) DEF replay_wal
        <5> QED
          BY <2>0, <2>1, <2>4, <2>5, <4>0, <5>1, ZenonT(40) DEF HurtProgram
      <4>2. CASE ~(walpos > Len(wal.recs)) /\ wal.recs[walpos] = BadRecord
        <5>1. pc' = "down" /\ UNCHANGED flags
          BY <3>4, <4>2, ZenonT(40) DEF replay_wal, Refuse
        <5> QED
          BY <2>0, <2>1, <5>1, <1>HurtDown, Zenon
      <4>3. CASE ~(walpos > Len(wal.recs)) /\ wal.recs[walpos] # BadRecord
        <5>1. /\ pc' = "body" /\ rec' = wal.recs[walpos] /\ for' = "wal" /\ UNCHANGED <<flags, rc>>
              /\ end + RecLen(wal.recs[walpos]) <= MaxCells + 1
          BY <3>4, <4>3, ZenonT(40) DEF replay_wal
        <5>2. rec' \in Records
          <6>1. walpos \in 1..Len(wal.recs)
            BY <2>5, <4>3
          <6>2. wal.recs[walpos] \in Records \cup {BadRecord}
            BY <2>5, <6>1
          <6> QED
            BY <4>3, <5>1, <6>2, Zenon
        <5>3. end' + RecLen(rec') <= MaxCells + 1
          BY <2>1, <5>1, Zenon
        <5> QED
          BY <2>0, <2>1, <2>4, <2>5, <4>0, <5>1, <5>2, <5>3, ZenonT(40) DEF HurtProgram, RecLen
      <4> QED
        BY <4>1, <4>2, <4>3, Zenon
    <3> QED
      BY <3>1, <3>2, <3>3, <3>4, Zenon
  <2> QED
    BY <2>2, <2>3, <2>6, Zenon DEF Hurt
\* A WAL file that is not read, and the deletion of one that is replayed.
<1>HurtWalGone.
    ASSUME NEW p, NEW m, Hurt(p, m), WalUnread \/ DeleteWal
    PROVE  Hurt(p, m)'
  <2> USE <1>HurtWalGone
  <2>0. /\ HurtFile(p, m) /\ HurtLog(p, m) /\ HurtProgram(p, m) /\ Where(p, m) /\ pc # "down"
        /\ rc # "CORRUPT" /\ end = EndOf(p) => IsCut(p) /\ Cuttable(EndOf(p), m)
        /\ end # EndOf(p) => end > m /\ Uncut(cache[0], m)
    BY <1>HurtHandle, Zenon DEF WalUnread, DeleteWal
  <2>1. /\ UNCHANGED <<cache, media, dirty, exists>>
        /\ UNCHANGED <<end, flags, log, durable, walpos, rc>>
        /\ pc' = "truncate" /\ wal' \in {wal, NoWal}
    BY Zenon DEF WalUnread, DeleteWal, file, db
  <2>2. \/ happened' = happened
        \/ happened' = happened \cup {"walunread"}
        \/ happened' = happened \cup {"walkept"}
    BY Zenon DEF WalUnread, DeleteWal
  <2>3. HurtFile(p, m)' /\ (Cuttable(EndOf(p), m) => Cuttable(EndOf(p), m)')
    BY <2>0, <2>1, <1>HurtSame, Zenon
  <2>4. wal'.recs \in Seq(Records \cup {BadRecord}) /\ (~wal'.there => wal' = NoWal)
        /\ (~wal.there => ~wal'.there)
    <3>1. NoWal.recs = << >> /\ ~NoWal.there
      BY Zenon DEF NoWal
    <3>2. wal.recs \in Seq(Records \cup {BadRecord}) /\ (~wal.there => wal = NoWal)
      BY <2>0, Zenon DEF HurtProgram
    <3>3. << >> \in Seq(Records \cup {BadRecord})
      OBVIOUS
    <3> QED
      BY <2>1, <3>1, <3>2, <3>3, Zenon
  <2>5. IsCut(p) => IsCut(p)'
    BY <2>1, <2>4, Zenon DEF IsCut
  <2>6. HurtLog(p, m)'
    <3>1. AtCut(cache[0], EndOf(p))' => AtCut(cache[0], EndOf(p))
      BY <2>1, Zenon DEF AtCut
    <3>2. "damaged" \in happened' /\ "unfinished" \notin happened'
      BY <2>0, <2>2, Zenon DEF HurtLog
    <3> QED
      BY <2>0, <2>1, <2>5, <3>1, <3>2, ZenonT(40) DEF HurtLog
  <2>7. Where(p, m)'
    BY <2>0, <2>1, <2>3, <2>5, ZenonT(40) DEF Where, Uncut
  <2>8. HurtProgram(p, m)'
    BY <2>0, <2>1, <2>4, <2>7, Zenon DEF HurtProgram
  <2> QED
    BY <2>3, <2>6, <2>8, Zenon DEF Hurt
\* qdb_open: a header that is refused, one from before the cut, and that of it.
<1>HurtOpen.
    \A p, m : Hurt(p, m) /\ OpenOld => Hurt(p, m)'
  \* The records of p stay in front when the log is taken up to an end behind them.
  <2>UptoKeeps.
      ASSUME NEW s \in Seq(Records), NEW p \in Seq(Records), Len(p) <= Len(s),
             \A i \in 1..Len(p) : s[i] = p[i], NEW e \in Nat, EndOf(p) <= e
      PROVE  LET t == Upto(s, e) IN
             /\ t \in Seq(Records) /\ Len(p) <= Len(t) /\ \A i \in 1..Len(p) : t[i] = p[i]
    <3> USE <2>UptoKeeps
    <3>1. Len(s) \in Nat /\ Len(p) \in Nat
      OBVIOUS
    <3>2. PICK n \in 0..Len(s) : /\ Upto(s, e) = SubSeq(s, 1, n)
                                 /\ \A i \in 1..Len(s) : i <= n <=> Starts(s)[i + 1] <= e
      BY UptoCut, Zenon
    <3>3. Starts(s)[Len(p) + 1] = EndOf(p)
      <4>1. \A j \in 1..(Len(p) + 1) : Starts(s)[j] = Starts(p)[j]
        BY <3>1, StartsAlike
      <4> QED
        BY <3>1, <4>1 DEF EndOf
    <3>4. Len(p) <= n
      BY <3>1, <3>2, <3>3
    <3>5. PICK t : t = SubSeq(s, 1, n)
      BY Zenon
    <3>6. t \in Seq(Records) /\ Len(t) = n /\ \A i \in 1..n : t[i] = s[i]
      BY <3>5, Cut, Zenon
    <3>7. \A i \in 1..Len(p) : i \in 1..n
      BY <3>1, <3>4
    <3> QED
      BY <3>2, <3>4, <3>5, <3>6, <3>7, Zenon
  <2> SUFFICES ASSUME NEW p, NEW m, Hurt(p, m), OpenOld
               PROVE  Hurt(p, m)'
    BY Zenon
  <2>0. HurtFile(p, m) /\ HurtLog(p, m) /\ HurtProgram(p, m)
    BY Zenon DEF Hurt
  <2>1. /\ UNCHANGED <<cache, media, dirty, exists>>
        /\ UNCHANGED <<wal, durable, happened>>
    BY Zenon DEF OpenOld, file
  <2>2. HurtFile(p, m)' /\ (Cuttable(EndOf(p), m) => Cuttable(EndOf(p), m)')
    BY <2>0, <2>1, <1>HurtSame, Zenon
  <2>3. /\ p \in Seq(Records) /\ m \in Nat /\ MaxCells \in Nat /\ Len(p) \in Nat
        /\ EndOf(p) \in Nat \ {0} /\ EndOf(p) < m /\ m <= MaxCells
    BY <2>0, HurtBounds, Zenon
  <2>4. /\ wal.recs \in Seq(Records \cup {BadRecord})
        /\ ~wal.there => wal = NoWal
    BY <2>0, ZenonT(40) DEF HurtProgram
  <2>5. /\ log \in Seq(Records) /\ Len(p) <= Len(log) /\ \A i \in 1..Len(p) : log[i] = p[i]
        /\ durable \in Nat /\ "damaged" \in happened' /\ "unfinished" \notin happened'
    BY <2>0, <2>1, Zenon DEF HurtLog
  <2>6. CASE cache[0].kind # "hdr"
    <3>1. header_read(cache) = Junk
      BY <2>6, Zenon DEF header_read
    <3>2. pc' = "down" /\ UNCHANGED <<flags, walpos, log>>
      BY <3>1, Zenon DEF OpenOld, Refuse, db
    <3>3. HurtProgram(p, m)'
      BY <2>0, <2>1, <3>2, <1>HurtDown, Zenon
    <3>4. HurtLog(p, m)'
      BY <2>0, <2>1, <2>5, <3>2, <1>HurtLogKept, ZenonT(40) DEF HurtLog
    <3> QED
      BY <2>2, <3>3, <3>4, Zenon DEF Hurt
  <2>7. CASE cache[0].kind = "hdr"
    <3>1. header_read(cache) = cache[0] /\ cache[0] # Junk
      BY <2>7, SMTT(60) DEF header_read, Junk
    <3>2. /\ end' = cache[0].end /\ flags' = cache[0].flags /\ walpos' = 1
          /\ log' = Upto(log, cache[0].end) /\ rc' = "none"
          /\ pc' \in {"truncate", "wal"}
      BY <3>1, Zenon DEF OpenOld
    <3>3. ASSUME Where(p, m)', HurtLog(p, m)', cache[0].flags \subseteq {"DIRTY", "WAL_PRESENT"}
          PROVE  Hurt(p, m)'
      <4>1. flags' \subseteq {"DIRTY", "WAL_PRESENT"} /\ walpos' \in Nat \ {0}
        BY <3>2, <3>3
      <4>2. wal'.recs \in Seq(Records \cup {BadRecord}) /\ (~wal'.there => wal' = NoWal)
        BY <2>1, <2>4, Zenon
      <4>3. pc' \in {"truncate", "wal"} /\ rc' = "none"
        BY <3>2, Zenon
      <4>4. HurtProgram(p, m)'
        BY <3>3, <4>1, <4>2, <4>3, ZenonT(40) DEF HurtProgram
      <4> QED
        BY <2>2, <3>3, <4>4, ZenonT(40) DEF Hurt
    <3>4. CASE Uncut(cache[0], m)
      <4>1. PICK e \in (m + 1)..(MaxCells + 1), fl \in SUBSET {"DIRTY", "WAL_PRESENT"} : cache[0] = H(e, fl)
        BY <2>7, <3>4, Zenon DEF Uncut
      <4>2. cache[0].end = e /\ cache[0].flags = fl
        BY <4>1 DEF H
      <4>3. e \in Nat /\ EndOf(p) <= e
        BY <2>3, SMTT(60)
      <4>4. log' \in Seq(Records) /\ Len(p) <= Len(log') /\ \A i \in 1..Len(p) : log'[i] = p[i]
        BY <2>3, <2>5, <3>2, <4>2, <4>3, <2>UptoKeeps, SMTT(30)
      <4>5. ~AtCut(cache[0], EndOf(p))
        BY <2>3, <3>4, UncutOrCut, Zenon
      <4>6. ~AtCut(cache[0], EndOf(p))'
        BY <2>1, <4>5, Zenon DEF AtCut
      <4>7. HurtLog(p, m)'
        BY <2>1, <2>5, <4>4, <4>6, Zenon DEF HurtLog
      <4>8. Where(p, m)'
        BY <2>1, <3>2, <3>4, <4>2, ZenonT(40) DEF Where, Uncut
      <4> QED
        BY <3>3, <4>2, <4>7, <4>8, Zenon
    <3>5. CASE AtCut(cache[0], EndOf(p))
      <4>1. PICK fl \in SUBSET {"DIRTY", "WAL_PRESENT"} : cache[0] = H(EndOf(p), fl)
        BY <3>5, Zenon DEF AtCut
      <4>2. cache[0].end = EndOf(p) /\ cache[0].flags = fl
        BY <4>1 DEF H
      <4>3. log = p /\ durable <= Len(p) /\ ~wal.there
        BY <2>0, <3>5, Zenon DEF HurtLog, IsCut
      <4>4. log' = p
        <5>1. Len(p) \in 0..Len(p) /\ SubSeq(p, 1, Len(p)) = p
          BY <2>3
        <5>2. Upto(p, Starts(p)[Len(p) + 1]) = SubSeq(p, 1, Len(p))
          BY <2>3, <5>1, UptoEnd, Zenon
        <5> QED
          BY <3>2, <4>2, <4>3, <5>1, <5>2, Zenon DEF EndOf
      <4>5. Cuttable(EndOf(p), m)
        <5>1. ~Uncut(cache[0], m)
          BY <2>3, <3>5, UncutOrCut, Zenon
        <5> QED
          BY <2>0, <5>1, Zenon DEF HurtFile
      <4>6. IsCut(p)'
        BY <2>1, <4>3, <4>4, Zenon DEF IsCut
      <4>7. HurtLog(p, m)'
        BY <2>1, <2>3, <2>5, <4>4, <4>6, SMTT(60) DEF HurtLog
      <4>8. Where(p, m)'
        BY <2>2, <3>2, <4>2, <4>5, <4>6, Zenon DEF Where
      <4> QED
        BY <3>3, <4>2, <4>7, <4>8, Zenon
    <3> QED
      BY <2>0, <3>4, <3>5, Zenon DEF HurtFile
  <2> QED
    BY <2>6, <2>7, Zenon
\* What lies behind the log is cut off.
<1>HurtTruncateTail.
    \A p, m : Hurt(p, m) /\ TruncateTail => Hurt(p, m)'
  \* A truncation behind the damaged record.
  <2>HurtTail.
      ASSUME NEW p, NEW m, HurtFile(p, m), NEW e \in Nat, e > m, Truncate(e),
             Uncut(cache[0], m)
      PROVE  HurtFile(p, m)' /\ cache'[0] = cache[0]
    <3> USE <2>HurtTail
    <3>0. /\ p \in Seq(Records) /\ m \in Nat /\ MaxCells \in Nat
          /\ EndOf(p) \in Nat \ {0} /\ EndOf(p) < m /\ m <= MaxCells /\ exists
      BY HurtBounds, Zenon
    <3>1. Celled(cache) /\ dirty \subseteq Nat
      BY Zenon DEF HurtFile
    <3>2. /\ cache' = [x \in Offsets |-> IF x >= e THEN None ELSE cache[x]]
          /\ dirty' = dirty \cup {x \in Offsets : x >= e /\ cache[x] # None}
          /\ UNCHANGED <<media, exists>>
      BY Zenon DEF Truncate
    <3>3. \A x \in Offsets : cache'[x] = IF x >= e THEN None ELSE cache[x]
      BY <3>2, Zenon
    <3>4. Celled(cache')
      <4>1. cache' = [x \in Offsets |-> cache'[x]]
        BY <3>2, Zenon
      <4>2. \A x \in Offsets : cache[x].kind = "rec" => cache[x].plen \in Nat
        BY <3>1, Zenon DEF Celled
      <4>3. None.kind # "rec"
        BY Zenon DEF None
      <4> QED
        BY <3>3, <4>1, <4>2, <4>3, Zenon DEF Celled
    <3>5. \A x \in 0..m : cache'[x] = cache[x]
      <4> TAKE x \in 0..m
      <4>1. x \in Offsets /\ ~(x >= e)
        BY <3>0, SMTT(60) DEF Offsets
      <4> QED
        BY <3>3, <4>1, Zenon
    <3>6. cache'[0] = cache[0] /\ \A x \in 1..m : cache'[x] = cache[x]
      BY <3>0, <3>5
    <3>7. dirty' \subseteq Nat /\ \A x \in dirty' : x \in dirty \/ x = 0 \/ x > m
      <4>1. Offsets \subseteq Nat
        BY <3>0, SMTT(60) DEF Offsets
      <4>2. ASSUME NEW x \in dirty' PROVE x \in Nat /\ (x \in dirty \/ x > m)
        BY <3>0, <3>1, <3>2, <4>1, <4>2, SMTT(60)
      <4> QED
        BY <4>2, Zenon
    <3>8. Uncut(cache'[0], m)
      BY <3>6, Zenon
    <3> QED
      BY <3>2, <3>4, <3>6, <3>7, <3>8, <1>HurtChanged, Zenon
  <2> SUFFICES ASSUME NEW p, NEW m, Hurt(p, m), TruncateTail
               PROVE  Hurt(p, m)'
    BY Zenon
  <2>0. /\ HurtFile(p, m) /\ HurtLog(p, m) /\ HurtProgram(p, m) /\ Where(p, m) /\ pc # "down"
        /\ end \in Nat \ {0} /\ end <= MaxCells + 1 /\ rc # "CORRUPT"
        /\ end = EndOf(p) => IsCut(p) /\ Cuttable(EndOf(p), m)
        /\ end # EndOf(p) => end > m /\ Uncut(cache[0], m)
    BY <1>HurtHandle, Zenon DEF TruncateTail
  <2>1. /\ pc = "truncate" /\ UNCHANGED <<for, end, flags, rec, wal, walpos, log, durable, happened>>
    BY Zenon DEF TruncateTail, db, waldata, history
  <2>2. /\ flags \subseteq {"DIRTY", "WAL_PRESENT"}
        /\ wal.recs \in Seq(Records \cup {BadRecord}) /\ walpos \in Nat \ {0}
        /\ ~wal.there => wal = NoWal
    BY <2>0, Zenon DEF HurtProgram
  <2>3. \/ pc' = "down" /\ UNCHANGED <<cache, media, dirty, exists>>
        \/ pc' = "validate" /\ rc' = rc /\ UNCHANGED <<cache, media, dirty, exists>>
        \/ pc' = "validate" /\ rc' = rc /\ Truncate(end)
    BY Zenon DEF TruncateTail, Refuse, file
  <2>4. HurtFile(p, m)' /\ cache'[0] = cache[0] /\ (end = EndOf(p) => Cuttable(EndOf(p), m)')
    <3>1. CASE UNCHANGED <<cache, media, dirty, exists>>
      BY <2>0, <3>1, <1>HurtSame, Zenon
    <3>2. CASE Truncate(end) /\ end = EndOf(p)
      BY <2>0, <3>2, <1>HurtTruncated, ZenonT(40)
    <3>3. CASE Truncate(end) /\ end # EndOf(p)
      BY <2>0, <3>3, <2>HurtTail, ZenonT(40)
    <3> QED
      BY <2>3, <3>1, <3>2, <3>3, Zenon
  <2>5. HurtLog(p, m)'
    BY <2>0, <2>1, <2>4, <1>HurtLogKept, ZenonT(40) DEF HurtLog
  <2>6. Where(p, m)'
    <3>1. IsCut(p) => IsCut(p)'
      BY <2>1, Zenon DEF IsCut
    <3>2. Uncut(cache[0], m) => Uncut(cache[0], m)'
      BY <2>4, Zenon DEF Uncut
    <3> QED
      BY <2>0, <2>1, <2>4, <3>1, <3>2, ZenonT(40) DEF Where
  <2>7. HurtProgram(p, m)'
    <3>1. CASE pc' = "down"
      BY <2>0, <2>1, <3>1, <1>HurtDown, Zenon
    <3>2. CASE pc' = "validate" /\ rc' = rc
      BY <2>0, <2>1, <2>2, <2>6, <3>2, ZenonT(40) DEF HurtProgram
    <3> QED
      BY <2>3, <3>1, <3>2, Zenon
  <2> QED
    BY <2>4, <2>5, <2>7, Zenon DEF Hurt
\* validate_log refuses the damaged record or cuts it off.
<1>HurtValidate.
    \A p, m : Hurt(p, m) /\ validate_log => Hurt(p, m)' \/ "walcut" \in happened'
  \* The scan stops behind the records s when it does not accept what follows.
  <2>ScanStops.
      ASSUME NEW f, Celled(f), NEW s \in Seq(Records), Holds(f, s),
             NEW limit \in 1..(MaxCells + 1), EndOf(s) < limit,
             NEW why, scan_record(f, EndOf(s), limit).rc = why, why # "OK"
      PROVE  Scan(f, limit).rc = why /\ Scan(f, limit).at = EndOf(s)
    <3> USE <2>ScanStops
    <3> DEFINE st == Starts(s)
               L == Len(s)
               e == EndOf(s)
               g == ScanFrom(f, limit)
               Stop(z) == [rc |-> why, at |-> e, recs |-> z]
               S == {k \in Nat : k <= L => \E z : g[st[L + 1 - k]] = Stop(z)}
    <3>0. MaxCells \in Nat /\ L \in Nat /\ limit \in Nat
      BY LayoutAssumption
    <3>1. /\ st[1] = 1
          /\ \A i \in 1..L : st[i + 1] = st[i] + RecLen(s[i])
          /\ \A i \in 1..(L + 1) : st[i] \in Nat \ {0}
      BY StartsFacts, Zenon
    <3>2. e = st[L + 1]
      BY Zenon DEF EndOf
    <3>3. e \in 1..(MaxCells + 1)
      BY <3>0, <3>1, <3>2, SMTT(60)
    <3>4. \A i \in 1..L : st[i] + RecLen(s[i]) <= e /\ s[i] \in Records
      <4> TAKE i \in 1..L
      <4>1. L + 1 \in 1..(L + 1) /\ i < L + 1
        BY <3>0
      <4> QED
        BY <3>2, <4>1, StartsUp, SMTT(60)
    <3>5. g = [off \in 1..(MaxCells + 1) |-> ScanStep(f, limit, g, off)]
      BY ScanDef, Zenon
    <3>6. scan_record(f, e, limit).rc = why
      BY Zenon
    <3> HIDE DEF st, e, g
    <3>7. 0 \in S
      <4>1. ~(e >= limit)
        BY <3>0, <3>3 DEF e
      <4>2. g[e] = ScanStep(f, limit, g, e)
        BY <3>3, <3>5, Zenon
      <4>3. ScanStep(f, limit, g, e) = Stop(<< >>)
        BY <3>6, <4>1, Zenon DEF ScanStep
      <4>4. L + 1 - 0 = L + 1
        BY <3>0
      <4> HIDE DEF L, Stop
      <4> QED
        BY <3>2, <4>2, <4>3, <4>4, Zenon
    <3>8. ASSUME NEW k \in Nat, k \in S PROVE k + 1 \in S
      <4> HIDE DEF Stop
      <4> SUFFICES ASSUME k + 1 <= L
                   PROVE  \E z : g[st[L + 1 - (k + 1)]] = Stop(z)
        OBVIOUS
      <4> DEFINE i == L - k
                 o == st[i]
                 r == s[i]
      <4>1. i \in 1..L /\ L + 1 - (k + 1) = i /\ L + 1 - k = i + 1 /\ i \in 1..(L + 1)
        BY <3>0, SMTT(60)
      <4>2. \E z : g[st[i + 1]] = Stop(z)
        <5>1. k <= L
          BY <3>0, SMTT(60)
        <5> HIDE DEF L, i
        <5> QED
          BY <3>8, <4>1, <5>1, Zenon
      <4> HIDE DEF i
      <4>3. PICK z : g[st[i + 1]] = Stop(z)
        BY <4>2, Zenon
      <4>4. o \in Nat \ {0} /\ r \in Records /\ o + RecLen(r) <= e /\ st[i + 1] = o + RecLen(r)
        BY <3>1, <3>4, <4>1, Zenon
      <4>5. HasRec(f, o, r)
        BY <4>1, Zenon DEF Holds, st
      <4>6. RecLen(r) \in Nat /\ RecLen(r) >= 2
        BY <4>4, RecLenNat, Zenon
      <4>7. o \in 1..(MaxCells + 1) /\ o < limit /\ o + RecLen(r) <= limit
        BY <3>0, <3>3, <4>4, <4>6, SMTT(60) DEF e
      <4>8. scan_record(f, o, limit) = [rc |-> "OK", next |-> o + RecLen(r), rec |-> r]
        BY <3>0, <4>4, <4>5, <4>7, ScanRecord, SMTT(60)
      <4> HIDE DEF o, r
      <4>9. g[o] = ScanStep(f, limit, g, o)
        BY <3>5, <4>7, Zenon
      <4>10. ~(o >= limit)
        BY <3>0, <4>4, <4>7
      <4>11. ScanStep(f, limit, g, o) = [g[o + RecLen(r)] EXCEPT !.recs = <<r>> \o @]
        BY <4>8, <4>10 DEF ScanStep
      <4>12. [Stop(z) EXCEPT !.recs = <<r>> \o @] = [Stop(z) EXCEPT !.recs = <<r>> \o z]
        BY Zenon DEF Stop
      <4>13. \A y : [Stop(z) EXCEPT !.recs = y] = Stop(y)
        BY DEF Stop
      <4>14. ScanStep(f, limit, g, o) = [Stop(z) EXCEPT !.recs = <<r>> \o @]
        BY <4>3, <4>4, <4>11, Zenon
      <4>15. g[o] = Stop(<<r>> \o z)
        BY <4>9, <4>12, <4>13, <4>14, Zenon
      <4> HIDE DEF L
      <4> QED
        BY <4>1, <4>15, Zenon DEF o
    <3> HIDE DEF S
    <3>9. Nat \subseteq S
      BY <3>7, <3>8, Induct, Zenon
    <3>10. \E z : g[st[1]] = Stop(z)
      <4>1. L \in S /\ L <= L /\ L + 1 - L = 1
        BY <3>0, <3>9
      <4> HIDE DEF L, Stop
      <4> QED
        BY <4>1, Zenon DEF S
    <3>11. PICK z : g[1] = Stop(z)
      BY <3>1, <3>10, Zenon
    <3>12. Stop(z).rc = why /\ Stop(z).at = e
      BY Zenon
    <3> QED
      BY <3>11, <3>12, Zenon DEF Scan, g, e
  \* The record that is damaged is not accepted; a wrong byte is corruption.
  <2>NotAccepted.
      ASSUME NEW f, Celled(f), NEW o \in Nat, NEW m \in Nat, NEW limit \in Nat,
             o < m, m < limit, m <= MaxCells,
             BadHead(f, o) \/ BadMark(f, o, m) \/ BadByte(f, o, m)
      PROVE  /\ scan_record(f, o, limit).rc \in {"PARTIAL", "IO", "CORRUPT"}
             /\ BadByte(f, o, m) => scan_record(f, o, limit).rc = "CORRUPT"
    <3> USE <2>NotAccepted
    <3>0. PICK c : c = f[o]
      BY Zenon
    <3>1. PICK n : n = o + 1 + c.plen
      BY Zenon
    <3>2. o \in Offsets /\ MaxCells \in Nat
      BY LayoutAssumption DEF Offsets
    <3>3. c.kind = "rec" => c.plen \in Nat
      BY <3>0, <3>2, Zenon DEF Celled
    <3>4. scan_record(f, o, limit) =
            IF limit - o < 2 THEN [rc |-> "PARTIAL"]
            ELSE IF c.kind # "rec" THEN [rc |-> IF c = None THEN "IO" ELSE "CORRUPT"]
            ELSE IF n >= limit THEN [rc |-> "PARTIAL"]
            ELSE IF f[n] # B(MARKER) THEN [rc |-> IF f[n] = None THEN "IO" ELSE "PARTIAL"]
            ELSE IF c.type \notin Types \/ Contents(f, o, c.plen) # c.crc THEN [rc |-> "CORRUPT"]
            ELSE [rc |-> "OK", next |-> n + 1, rec |-> [type |-> c.type, payload |-> c.crc]]
      BY <3>0, <3>1, Zenon DEF scan_record
    <3>5. ~(limit - o < 2)
      OBVIOUS
    <3>6. ASSUME c.kind = "rec", n < limit, f[n] = B(MARKER), c.type \in Types
          PROVE  Contents(f, o, c.plen) # c.crc
      <4>1. c.plen \in Nat
        BY <3>3, <3>6, Zenon
      <4>2. Contents(f, o, c.plen) = [i \in 1..c.plen |-> IF f[o + i].kind = "byte" THEN f[o + i].x ELSE 0]
        BY Zenon DEF Contents
      <4>3. Len(Contents(f, o, c.plen)) = c.plen
        BY <4>1, <4>2, SMTT(60)
      <4>4. CASE BadHead(f, o)
        BY <3>0, <3>6, <4>3, <4>4, Zenon DEF BadHead
      <4>5. CASE BadMark(f, o, m)
        BY <3>0, <3>1, <3>6, <4>5, Zenon DEF BadMark
      <4>6. CASE BadByte(f, o, m)
        <5>1. PICK k \in 1..c.plen : f[o + k].kind = "byte" /\ f[o + k].x # c.crc[k]
          BY <3>0, <4>6, Zenon DEF BadByte
        <5>2. Contents(f, o, c.plen)[k] = f[o + k].x
          BY <4>2, <5>1, ZenonT(40)
        <5> QED
          BY <5>1, <5>2, Zenon
      <4> QED
        BY <4>4, <4>5, <4>6, Zenon
    <3>7. scan_record(f, o, limit).rc \in {"PARTIAL", "IO", "CORRUPT"}
      <4>1. CASE c.kind # "rec"
        BY <3>4, <3>5, <4>1, SMTT(30)
      <4>2. CASE c.kind = "rec" /\ n >= limit
        BY <3>4, <3>5, <4>2, SMTT(60)
      <4>3. CASE c.kind = "rec" /\ ~(n >= limit) /\ f[n] # B(MARKER)
        BY <3>4, <3>5, <4>3, SMTT(30)
      <4>4. CASE c.kind = "rec" /\ ~(n >= limit) /\ f[n] = B(MARKER)
        <5>1. c.type \notin Types \/ Contents(f, o, c.plen) # c.crc
          <6>1. n \in Nat
            BY <3>1, <3>3, <4>4, SMTT(60)
          <6> QED
            BY <3>6, <4>4, <6>1, SMTT(60)
        <5> QED
          BY <3>4, <3>5, <4>4, <5>1, SMTT(30)
      <4> QED
        BY <4>1, <4>2, <4>3, <4>4, Zenon
    <3>8. ASSUME BadByte(f, o, m) PROVE scan_record(f, o, limit).rc = "CORRUPT"
      <4>1. c.kind = "rec" /\ n = m /\ f[n] = B(MARKER)
        BY <3>0, <3>1, <3>8, Zenon DEF BadByte
      <4>2. c.type \notin Types \/ Contents(f, o, c.plen) # c.crc
        BY <3>6, <4>1, Zenon
      <4>3. ~(n >= limit)
        BY <4>1
      <4> QED
        BY <3>4, <3>5, <4>1, <4>2, <4>3, SMTT(60)
    <3> QED
      BY <3>7, <3>8, Zenon
  <2> SUFFICES ASSUME NEW p, NEW m, Hurt(p, m), validate_log
               PROVE  Hurt(p, m)' \/ "walcut" \in happened'
    BY Zenon
  <2>0. /\ HurtFile(p, m) /\ HurtLog(p, m) /\ HurtProgram(p, m) /\ Where(p, m) /\ pc # "down"
        /\ end \in Nat \ {0} /\ end <= MaxCells + 1 /\ rc # "CORRUPT"
        /\ end = EndOf(p) => IsCut(p) /\ Cuttable(EndOf(p), m)
        /\ end # EndOf(p) => end > m /\ Uncut(cache[0], m)
    BY <1>HurtHandle, ZenonT(40) DEF validate_log
  <2>1. /\ p \in Seq(Records) /\ m \in Nat /\ MaxCells \in Nat /\ Len(p) \in Nat
        /\ EndOf(p) \in Nat \ {0} /\ EndOf(p) < m /\ m <= MaxCells
    BY <2>0, HurtBounds, Zenon
  <2>2. /\ pc = "validate" /\ UNCHANGED <<flags, rec, wal, walpos>>
    BY ZenonT(40) DEF validate_log, waldata
  <2>3. /\ flags \subseteq {"DIRTY", "WAL_PRESENT"}
        /\ wal.recs \in Seq(Records \cup {BadRecord}) /\ walpos \in Nat \ {0}
        /\ ~wal.there => wal = NoWal
    BY <2>0, ZenonT(40) DEF HurtProgram
  <2>4. Celled(cache) /\ Holds(cache, p)
    BY <2>0, Zenon DEF HurtFile
  <2>5. PICK s : s = Scan(cache, end)
    BY Zenon
  <2>6. CASE /\ pc' \in {"down", "replay"}
             /\ UNCHANGED <<cache, media, dirty, exists, end, log, durable, happened>>
             /\ pc' = "replay" => end = EndOf(p) /\ rc' = rc
    <3>1. HurtFile(p, m)' /\ (Cuttable(EndOf(p), m) => Cuttable(EndOf(p), m)')
      BY <2>0, <2>6, <1>HurtSame, Zenon
    <3>2. HurtLog(p, m)'
      BY <2>0, <2>2, <2>6, <1>HurtLogKept, ZenonT(40) DEF HurtLog
    <3>3. HurtProgram(p, m)'
      <4>1. CASE pc' = "down"
        BY <2>0, <2>2, <4>1, <1>HurtDown, Zenon
      <4>2. CASE pc' = "replay"
        <5>1. Where(p, m)'
          BY <2>0, <2>2, <2>6, <3>1, ZenonT(40) DEF Where, IsCut, Uncut
        <5>2. end' = EndOf(p) /\ rc' # "CORRUPT"
          BY <2>0, <2>6, <4>2, Zenon
        <5> QED
          BY <2>2, <2>3, <4>2, <5>1, <5>2, Zenon DEF HurtProgram
      <4> QED
        BY <2>6, <4>1, <4>2, Zenon
    <3> QED
      BY <3>1, <3>2, <3>3, Zenon DEF Hurt
  <2>7. CASE end = EndOf(p)
    <3>1. s.rc = "END"
      BY <2>0, <2>1, <2>4, <2>5, <2>7, ScanHolds, SMTT(60)
    <3>2. pc' = "replay" /\ rc' = rc /\ UNCHANGED <<cache, media, dirty, exists, end, log, durable, happened>>
      BY <2>5, <3>1, Zenon DEF validate_log, file, history
    <3> QED
      BY <2>6, <2>7, <3>2, Zenon
  <2>8. CASE end # EndOf(p)
    <3>1. end > m /\ end \in 1..(MaxCells + 1) /\ Uncut(cache[0], m) /\ EndOf(p) < end
      BY <2>0, <2>1, <2>8, SMTT(60)
    <3>2. PICK why : why = scan_record(cache, EndOf(p), end).rc
      BY Zenon
    <3>3. Cuttable(EndOf(p), m) \/ BadByte(cache, EndOf(p), m)
      BY <2>0, Zenon DEF HurtFile, Refused
    <3>4. BadHead(cache, EndOf(p)) \/ BadMark(cache, EndOf(p), m) \/ BadByte(cache, EndOf(p), m)
      BY <3>3, Zenon DEF Cuttable
    <3>5. why \in {"PARTIAL", "IO", "CORRUPT"} /\ (BadByte(cache, EndOf(p), m) => why = "CORRUPT")
      BY <2>1, <2>4, <3>1, <3>2, <3>4, <2>NotAccepted, SMTT(60)
    <3>6. s.rc = why /\ s.at = EndOf(p)
      BY <2>1, <2>4, <2>5, <3>1, <3>2, <3>5, <2>ScanStops, SMTT(60)
    <3>7. \/ pc' = "down" /\ UNCHANGED <<cache, media, dirty, exists, end, log, durable, happened>>
          \/ /\ why = "PARTIAL" /\ Truncate(EndOf(p)) /\ end' = EndOf(p)
             /\ log' = Upto(log, EndOf(p))
             /\ durable' = IF Len(log') < durable THEN Len(log') ELSE durable
             /\ happened' = happened \cup {"cut"} \cup (IF wal.there THEN {"walcut"} ELSE {})
             /\ pc' = "write header" /\ for' = "cut" /\ rc' = rc
      <4>1. s.rc # "END"
        BY <3>5, <3>6, Zenon
      <4> HIDE <2>8
      <4> QED
        BY <2>5, <3>6, <4>1, Zenon DEF validate_log, file, history, Refuse
    <3>8. CASE pc' = "down" /\ UNCHANGED <<cache, media, dirty, exists, end, log, durable, happened>>
      BY <2>6, <3>8, Zenon
    <3>9. CASE /\ why = "PARTIAL" /\ Truncate(EndOf(p)) /\ end' = EndOf(p)
               /\ log' = Upto(log, EndOf(p))
               /\ durable' = (IF Len(log') < durable THEN Len(log') ELSE durable)
               /\ happened' = happened \cup {"cut"} \cup (IF wal.there THEN {"walcut"} ELSE {})
               /\ pc' = "write header" /\ for' = "cut" /\ rc' = rc
      <4> SUFFICES ASSUME ~wal.there PROVE Hurt(p, m)'
        BY <3>9, Zenon
      <4>1. Cuttable(EndOf(p), m)
        BY <3>3, <3>5, <3>9, ZenonT(40)
      <4>2. HurtFile(p, m)' /\ Cuttable(EndOf(p), m)'
        BY <2>0, <3>9, <4>1, <1>HurtTruncated, ZenonT(40)
      <4>3. /\ log \in Seq(Records) /\ Len(p) <= Len(log) /\ \A i \in 1..Len(p) : log[i] = p[i]
            /\ durable \in Nat /\ "damaged" \in happened /\ "unfinished" \notin happened
        BY <2>0, Zenon DEF HurtLog
      <4>4. log' = p
        <5>1. Len(log) \in Nat /\ Len(p) \in 0..Len(log)
          BY <2>1, <4>3
        <5>2. EndOf(p) = Starts(log)[Len(p) + 1]
          <6>1. \A i \in 1..(Len(p) + 1) : Starts(log)[i] = Starts(p)[i]
            BY <2>1, <4>3, StartsAlike, SMTT(60)
          <6>2. Len(p) + 1 \in 1..(Len(p) + 1)
            BY <2>1
          <6> QED
            BY <6>1, <6>2, Zenon DEF EndOf
        <5>3. Upto(log, EndOf(p)) = SubSeq(log, 1, Len(p))
          BY <4>3, <5>1, <5>2, UptoEnd, Zenon
        <5>4. PICK t : t = SubSeq(log, 1, Len(p))
          BY Zenon
        <5>5. t \in Seq(Records) /\ Len(t) = Len(p) /\ \A i \in 1..Len(p) : t[i] = log[i]
          BY <4>3, <5>1, <5>4, Cut, ZenonT(40)
        <5>6. t = p
          BY <2>1, <4>3, <5>5, SMTT(60)
        <5> QED
          BY <3>9, <5>3, <5>4, <5>6, ZenonT(40)
      <4>5. durable' \in Nat /\ durable' <= Len(p)
        <5>1. durable' = IF Len(p) < durable THEN Len(p) ELSE durable
          BY <3>9, <4>4, Zenon
        <5>2. durable' = Len(p) \/ (durable' = durable /\ ~(Len(p) < durable))
          BY <5>1, Zenon
        <5> QED
          BY <2>1, <4>3, <5>2, SMTT(60)
      <4>6. IsCut(p)'
        BY <2>2, <4>4, <4>5, Zenon DEF IsCut
      <4>7. "damaged" \in happened' /\ "unfinished" \notin happened'
        BY <3>9, <4>3, ZenonT(40)
      <4>8. HurtLog(p, m)'
        BY <2>1, <4>4, <4>5, <4>6, <4>7, SMTT(60) DEF HurtLog
      <4>9. Where(p, m)'
        BY <3>9, <4>2, <4>6, ZenonT(40) DEF Where
      <4>10. end' = EndOf(p) /\ pc' = "write header" /\ for' = "cut" /\ rc' # "CORRUPT"
        BY <2>0, <3>9, ZenonT(40)
      <4>11. HurtProgram(p, m)'
        BY <2>2, <2>3, <4>9, <4>10, ZenonT(40) DEF HurtProgram
      <4> QED
        BY <4>2, <4>8, <4>11, Zenon DEF Hurt
    <3> QED
      BY <3>7, <3>8, <3>9, ZenonT(40)
  <2> QED
    BY <2>7, <2>8, Zenon
\* qdb__pwrite of the header, or behind the damaged record.
<1>HurtWrite.
    ASSUME NEW p, NEW m, HurtFile(p, m), NEW off \in Nat, NEW n \in Nat, NEW cells,
           Write(off, cells, n), CellsOK(cells, n),
           \/ off > m /\ Uncut(cache[0], m)
           \/ off = 0 /\ n = 1 /\ Uncut(cells[1], m)
           \/ off = 0 /\ n = 1 /\ AtCut(cells[1], EndOf(p)) /\ Cuttable(EndOf(p), m)
    PROVE  /\ HurtFile(p, m)' /\ (Cuttable(EndOf(p), m) => Cuttable(EndOf(p), m)')
           /\ cache'[0] = IF off = 0 THEN cells[1] ELSE cache[0]
           /\ off = 0 => 0 \in dirty'
  <2> USE <1>HurtWrite
  <2>0. /\ p \in Seq(Records) /\ m \in Nat /\ MaxCells \in Nat
        /\ EndOf(p) \in Nat \ {0} /\ EndOf(p) < m /\ m <= MaxCells /\ exists
    BY HurtBounds, ZenonT(40)
  <2>1. Celled(cache) /\ dirty \subseteq Nat
    BY ZenonT(40) DEF HurtFile
  <2>2. /\ cache' = [x \in Offsets |-> IF x \in off..(off + n - 1) THEN cells[x - off + 1] ELSE cache[x]]
        /\ dirty' = dirty \cup (off..(off + n - 1)) /\ UNCHANGED <<media, exists>>
    BY ZenonT(40) DEF Write
  <2>3. \A x \in Offsets : cache'[x] = IF x \in off..(off + n - 1) THEN cells[x - off + 1] ELSE cache[x]
    BY <2>2, Zenon
  <2>4. Celled(cache')
    <3>1. cache' = [x \in Offsets |-> cache'[x]]
      BY <2>2, ZenonT(40)
    <3>2. ASSUME NEW x \in Offsets, cache'[x].kind = "rec" PROVE cache'[x].plen \in Nat
      <4>0. x \in Nat
        BY <2>0, SMTT(60) DEF Offsets
      <4>1. CASE x \in off..(off + n - 1)
        <5>1. x - off + 1 \in 1..n
          BY <4>0, <4>1, SMTT(60)
        <5> QED
          BY <2>3, <3>2, <4>1, <5>1, Zenon DEF CellsOK
      <4>2. CASE x \notin off..(off + n - 1)
        BY <2>1, <2>3, <3>2, <4>2, Zenon DEF Celled
      <4> QED
        BY <4>1, <4>2, Zenon
    <3> QED
      BY <3>1, <3>2, Zenon DEF Celled
  <2>5. \A x \in 1..m : cache'[x] = cache[x]
    <3> TAKE x \in 1..m
    <3>1. x \in Offsets /\ x \notin off..(off + n - 1)
      BY <2>0, SMTT(60) DEF Offsets
    <3> QED
      BY <2>3, <3>1, Zenon
  <2>6. cache'[0] = IF off = 0 THEN cells[1] ELSE cache[0]
    <3>1. 0 \in Offsets
      BY <2>0, SMTT(60) DEF Offsets
    <3>2. CASE off = 0
      <4>1. n = 1 /\ 0 \in off..(off + n - 1) /\ 0 - off + 1 = 1
        BY <2>0, <3>2, SMTT(60)
      <4> QED
        BY <2>3, <3>1, <3>2, <4>1, Zenon
    <3>3. CASE off # 0
      <4>1. 0 \notin off..(off + n - 1)
        BY <3>3, SMTT(60)
      <4> QED
        BY <2>3, <3>1, <3>3, <4>1, ZenonT(40)
    <3> QED
      BY <3>2, <3>3, Zenon
  <2>7. \A x \in off..(off + n - 1) : x \in Nat /\ (x = 0 \/ x > m)
    BY <2>0
  <2>8. dirty' \subseteq Nat /\ \A x \in dirty' : x \in dirty \/ x = 0 \/ x > m
    BY <2>1, <2>2, <2>7, ZenonT(40)
  <2>9. off = 0 => 0 \in dirty'
    <3> SUFFICES ASSUME off = 0 PROVE 0 \in off..(off + n - 1)
      BY <2>2, ZenonT(40)
    <3> QED
      BY <2>0
  <2>10. Uncut(cache'[0], m) \/ (AtCut(cache'[0], EndOf(p)) /\ Cuttable(EndOf(p), m))
    BY <2>0, <2>6
  <2> QED
    BY <2>2, <2>4, <2>5, <2>6, <2>8, <2>9, <2>10, <1>HurtChanged, ZenonT(40)
\* The body or the marker of a WAL record is written behind the damaged record.
<1>HurtAppend.
    ASSUME NEW p, NEW m, Hurt(p, m), WriteBody \/ WriteMarker
    PROVE  Hurt(p, m)'
  <2> USE <1>HurtAppend
  <2>0. /\ HurtFile(p, m) /\ HurtLog(p, m) /\ HurtProgram(p, m) /\ pc # "down"
        /\ end \in Nat \ {0} /\ end <= MaxCells + 1 /\ rc # "CORRUPT"
        /\ end > m => end # EndOf(p)
        /\ end # EndOf(p) => end > m /\ Uncut(cache[0], m)
    BY <1>HurtHandle, ZenonT(40) DEF WriteBody, WriteMarker
  <2>1. pc \in {"body", "marker"} /\ UNCHANGED <<for, end, flags, rec, wal, walpos, log, durable, happened>>
    BY Zenon DEF WriteBody, WriteMarker, db, waldata, history
  <2>2. /\ rec \in Records /\ end + RecLen(rec) <= MaxCells + 1 /\ end > m /\ for = "wal"
        /\ flags \subseteq {"DIRTY", "WAL_PRESENT"}
        /\ wal.recs \in Seq(Records \cup {BadRecord}) /\ walpos \in Nat \ {0}
        /\ ~wal.there => wal = NoWal
    BY <2>0, <2>1, Zenon DEF HurtProgram
  <2>3. m \in Nat /\ MaxCells \in Nat /\ EndOf(p) \in Nat /\ EndOf(p) < m
    BY <2>0, HurtBounds, Zenon
  <2>4. Uncut(cache[0], m)
    BY <2>0, <2>2, Zenon
  <2>5. PICK cells : cells = Body(rec)
    BY Zenon
  <2>6. PICK n \in Nat : n = Len(rec.payload)
    BY <2>2, RecLenNat, Zenon
  <2>7. RecLen(rec) = n + 2
    BY <2>6, Zenon DEF RecLen
  <2>8. /\ Len(cells) = n + 1
        /\ cells[1] = R(rec.type, n, rec.payload)
        /\ \A k \in 1..n : cells[k + 1] = B(rec.payload[k])
    BY <2>2, <2>5, <2>6, BodyCells, Zenon
  <2>9. \A i \in 1..(n + 1) : cells[i].kind = "rec" => cells[i].plen \in Nat
    <3> TAKE i \in 1..(n + 1)
    <3>1. CASE i = 1
      BY <2>8, <3>1, SMTT(60) DEF R
    <3>2. CASE i # 1
      <4>1. i - 1 \in 1..n /\ (i - 1) + 1 = i
        BY <3>2
      <4>2. cells[i] = B(rec.payload[i - 1])
        BY <2>8, <4>1, Zenon
      <4> QED
        BY <4>2 DEF B
    <3> QED
      BY <3>1, <3>2, Zenon
  <2>10. ASSUME NEW k \in 0..(n + 1), Write(end, cells, k) PROVE HurtFile(p, m)' /\ cache'[0] = cache[0]
    <3>1. 1..k \subseteq 1..(n + 1) /\ k \in Nat /\ end \in Nat /\ end # 0
      BY <2>0
    <3>2. CellsOK(cells, k)
      BY <2>9, <3>1, Zenon DEF CellsOK
    <3> QED
      BY <2>0, <2>2, <2>4, <2>10, <3>1, <3>2, <1>HurtWrite, ZenonT(40)
  <2>11. ASSUME Write(end + RecLen(rec) - 1, <<B(MARKER)>>, 1) PROVE HurtFile(p, m)' /\ cache'[0] = cache[0]
    <3>1. PICK off \in Nat : off = end + RecLen(rec) - 1
      BY <2>0, <2>7, SMTT(60)
    <3>2. off > m /\ off # 0
      BY <2>0, <2>2, <2>3, <2>7, <3>1, SMTT(60)
    <3>3. CellsOK(<<B(MARKER)>>, 1)
      BY DEF CellsOK, B
    <3>4. Write(off, <<B(MARKER)>>, 1)
      BY <2>11, <3>1, Zenon
    <3> QED
      BY <2>0, <2>4, <3>2, <3>3, <3>4, <1>HurtWrite, ZenonT(40)
  <2>12. /\ HurtFile(p, m)' /\ cache'[0] = cache[0]
         /\ pc' \in {"down", "sync body", "sync marker"} /\ (pc' # "down" => rc' = rc)
    <3>1. CASE Write(end, cells, Len(cells)) /\ pc' = "sync body" /\ rc' = rc
      <4>1. n + 1 \in 0..(n + 1)
        OBVIOUS
      <4>2. Write(end, cells, n + 1)
        BY <2>8, <3>1, Zenon
      <4> QED
        BY <2>10, <3>1, <4>1, <4>2, Zenon
    <3>2. CASE Fails /\ \E k \in 0..(Len(cells) - 1) : Write(end, cells, k)
      <4>1. PICK k \in 0..(Len(cells) - 1) : Write(end, cells, k)
        BY <3>2, Zenon
      <4>2. k \in 0..(n + 1)
        BY <2>8
      <4>3. pc' = "down"
        BY <2>0, <2>1, <3>2, <1>HurtFails, ZenonT(40)
      <4> QED
        BY <2>10, <4>1, <4>2, <4>3, Zenon
    <3>3. CASE Write(end + RecLen(rec) - 1, <<B(MARKER)>>, 1) /\ pc' = "sync marker" /\ rc' = rc
      BY <2>11, <3>3, Zenon
    <3>4. CASE Fails /\ UNCHANGED file
      <4>1. pc' = "down"
        BY <2>0, <2>1, <3>4, <1>HurtFails, Zenon
      <4>2. UNCHANGED <<cache, media, dirty, exists>>
        BY <3>4, Zenon DEF file
      <4> QED
        BY <2>0, <4>1, <4>2, <1>HurtSame, Zenon
    <3>5. CASE WriteBody
      BY <2>5, <3>1, <3>2, <3>5, ZenonT(40) DEF WriteBody
    <3>6. CASE WriteMarker
      BY <3>3, <3>4, <3>6, ZenonT(40) DEF WriteMarker
    <3> QED
      BY <3>5, <3>6, ZenonT(40)
  <2>13. HurtLog(p, m)'
    BY <2>0, <2>1, <2>12, <1>HurtLogKept, Zenon DEF HurtLog
  <2>14. Where(p, m)'
    <3>1. Uncut(cache[0], m)'
      BY <2>4, <2>12, Zenon DEF Uncut
    <3>2. end' \in (m + 1)..(MaxCells + 1)
      BY <2>0, <2>1, <2>2, <2>3, SMTT(60)
    <3> QED
      BY <3>1, <3>2, Zenon DEF Where
  <2>15. HurtProgram(p, m)'
    <3>1. CASE pc' = "down"
      BY <2>0, <2>1, <3>1, <1>HurtDown, Zenon
    <3>2. CASE pc' \in {"sync body", "sync marker"} /\ rc' = rc
      <4>1. (rec \in Records /\ end + RecLen(rec) <= MaxCells + 1 /\ end > m /\ for = "wal")'
        BY <2>1, <2>2, Zenon DEF RecLen
      <4> QED
        BY <2>0, <2>1, <2>2, <2>14, <3>2, <4>1, ZenonT(40) DEF HurtProgram
    <3> QED
      BY <2>12, <3>1, <3>2, ZenonT(40)
  <2> QED
    BY <2>12, <2>13, <2>15, ZenonT(40) DEF Hurt
\* A header is written: that of the WAL's records, that of the cut, or a part.
<1>HurtWriteHeader.
    ASSUME NEW p, NEW m, Hurt(p, m), WriteHeader
    PROVE  Hurt(p, m)'
  \* A write of one cell.
  <2> USE <1>HurtWriteHeader
  <2>OneCell.
      ASSUME NEW c
      PROVE  \E cells : cells = <<c>> /\ cells[1] = c
    <3>1. PICK cells : cells = <<c>>
      BY ZenonT(40)
    <3>2. cells[1] = c
      BY <3>1, Zenon
    <3> QED
      BY <3>1, <3>2, Zenon
  <2>0. /\ HurtFile(p, m) /\ HurtLog(p, m) /\ HurtProgram(p, m) /\ Where(p, m) /\ pc # "down"
        /\ end \in Nat \ {0} /\ end <= MaxCells + 1 /\ rc # "CORRUPT"
        /\ end = EndOf(p) => IsCut(p) /\ Cuttable(EndOf(p), m)
        /\ end # EndOf(p) => end > m /\ Uncut(cache[0], m)
    BY <1>HurtHandle, Zenon DEF WriteHeader
  <2>1. pc = "write header" /\ UNCHANGED <<for, end, flags, rec, wal, walpos, log, durable>>
    BY Zenon DEF WriteHeader, db, waldata
  <2>2. /\ for \in {"wal", "cut", "ready"} /\ flags \subseteq {"DIRTY", "WAL_PRESENT"}
        /\ wal.recs \in Seq(Records \cup {BadRecord}) /\ walpos \in Nat \ {0}
        /\ ~wal.there => wal = NoWal
        /\ for = "wal" => end > m
        /\ for # "wal" => end = EndOf(p)
    BY <2>0, <2>1, Zenon DEF HurtProgram
  <2>3. m \in Nat /\ MaxCells \in Nat /\ EndOf(p) \in Nat /\ EndOf(p) < m
    BY <2>0, HurtBounds, Zenon
  <2>4. "damaged" \in happened /\ "unfinished" \notin happened
    BY <2>0, Zenon DEF HurtLog
  <2>5. CASE Write(0, <<H(end, flags)>>, 1) /\ pc' = "sync header" /\ UNCHANGED <<rc, happened>>
    <3>1. PICK cells : cells = <<H(end, flags)>> /\ cells[1] = H(end, flags)
      BY <2>OneCell, Zenon
    <3>2. CellsOK(cells, 1) /\ Write(0, cells, 1)
      <4>1. cells[1].kind = "hdr"
        BY <3>1, Zenon DEF H
      <4>2. CellsOK(cells, 1)
        BY <4>1 DEF CellsOK
      <4>3. Write(0, cells, 1)
        BY <2>5, <3>1, Zenon
      <4> QED
        BY <4>2, <4>3, Zenon
    <3>3. end = EndOf(p) => AtCut(cells[1], EndOf(p))
      BY <2>2, <3>1, Zenon DEF AtCut
    <3>4. end # EndOf(p) => Uncut(cells[1], m)
      <4> SUFFICES ASSUME end # EndOf(p) PROVE Uncut(cells[1], m)
        BY Zenon
      <4>1. end \in (m + 1)..(MaxCells + 1)
        BY <2>0, <2>3, SMTT(60)
      <4> QED
        BY <2>2, <3>1, <4>1, Zenon DEF Uncut
    <3>5. /\ HurtFile(p, m)' /\ (Cuttable(EndOf(p), m) => Cuttable(EndOf(p), m)')
          /\ cache'[0] = H(end, flags) /\ 0 \in dirty'
      <4>1. Uncut(cells[1], m) \/ (AtCut(cells[1], EndOf(p)) /\ Cuttable(EndOf(p), m))
        BY <2>0, <3>3, <3>4, ZenonT(40)
      <4> QED
        BY <2>0, <3>1, <3>2, <4>1, <1>HurtWrite, ZenonT(40)
    <3>6. AtCut(cache'[0], EndOf(p)) => IsCut(p)
      <4> SUFFICES ASSUME AtCut(cache'[0], EndOf(p)) PROVE IsCut(p)
        BY Zenon
      <4>1. ~Uncut(cells[1], m)
        BY <2>3, <3>1, <3>5, UncutOrCut, Zenon
      <4> QED
        BY <2>0, <3>4, <4>1, ZenonT(40)
    <3>7. HurtLog(p, m)'
      BY <2>0, <2>1, <2>4, <2>5, <3>6, <1>HurtLogKept, ZenonT(40)
    <3>8. Where(p, m)'
      <4>1. CASE end = EndOf(p)
        <5>1. IsCut(p)'
          BY <2>0, <2>1, <4>1, Zenon DEF IsCut
        <5> QED
          BY <2>0, <2>1, <3>5, <4>1, <5>1, ZenonT(40) DEF Where
      <4>2. CASE end # EndOf(p)
        <5>1. Uncut(cache[0], m)'
          BY <3>1, <3>4, <3>5, <4>2 DEF Uncut
        <5>2. end > m /\ end \in Nat /\ end <= MaxCells + 1 /\ end' = end
          BY <2>0, <2>1, <4>2, Zenon
        <5>3. end' \in (m + 1)..(MaxCells + 1)
          BY <2>3, <5>2, SMTT(60)
        <5> QED
          BY <5>1, <5>3, Zenon DEF Where
      <4> QED
        BY <4>1, <4>2, Zenon
    <3>9. HurtProgram(p, m)'
      BY <2>0, <2>1, <2>2, <2>5, <3>5, <3>8, ZenonT(40) DEF HurtProgram
    <3> QED
      BY <3>5, <3>7, <3>9, Zenon DEF Hurt
  <2>6. CASE Fails /\ UNCHANGED <<file, happened>>
    <3>1. UNCHANGED <<cache, media, dirty, exists, happened>>
      BY <2>6, Zenon DEF file
    <3>2. HurtFile(p, m)'
      BY <2>0, <3>1, <1>HurtSame, Zenon
    <3>3. HurtLog(p, m)'
      BY <2>0, <2>1, <2>4, <3>1, <1>HurtLogKept, ZenonT(40) DEF HurtLog
    <3>4. pc' = "down"
      BY <2>0, <2>1, <2>6, <1>HurtFails, ZenonT(40)
    <3>5. HurtProgram(p, m)'
      BY <2>0, <2>1, <3>4, <1>HurtDown, ZenonT(40)
    <3> QED
      BY <3>2, <3>3, <3>5, SMTT(60) DEF Hurt
  <2>7. CASE Fails /\ Write(0, <<Junk>>, 1) /\ happened' = happened \cup {"torn"}
    <3>1. PICK cells : cells = <<Junk>> /\ cells[1] = Junk
      BY <2>OneCell, Zenon
    <3>2. CellsOK(cells, 1) /\ Write(0, cells, 1) /\ Uncut(cells[1], m)
      <4>1. cells[1].kind = "junk"
        BY <3>1, Zenon DEF Junk
      <4>2. CellsOK(cells, 1) /\ Uncut(cells[1], m)
        BY <4>1 DEF CellsOK, Uncut
      <4>3. Write(0, cells, 1)
        BY <2>7, <3>1, Zenon
      <4> QED
        BY <4>2, <4>3, Zenon
    <3>3. HurtFile(p, m)' /\ cache'[0] = Junk
      BY <2>0, <3>1, <3>2, <1>HurtWrite, ZenonT(40)
    <3>4. ~AtCut(cache'[0], EndOf(p))
      <4>1. Uncut(cache'[0], m)
        BY <3>1, <3>2, <3>3, ZenonT(40)
      <4> QED
        BY <2>3, <4>1, UncutOrCut, Zenon
    <3>5. HurtLog(p, m)'
      BY <2>0, <2>1, <2>4, <2>7, <3>4, <1>HurtLogKept, ZenonT(40)
    <3>6. pc' = "down"
      BY <2>0, <2>1, <2>7, <1>HurtFails, ZenonT(40)
    <3>7. HurtProgram(p, m)'
      BY <2>0, <2>1, <3>6, <1>HurtDown, ZenonT(40)
    <3> QED
      BY <3>3, <3>5, <3>7, Zenon DEF Hurt
  <2> QED
    BY <2>5, <2>6, <2>7, Zenon DEF WriteHeader
\* The syncs of an append.
<1>HurtSyncs.
    ASSUME NEW p, NEW m, Hurt(p, m), SyncBody \/ SyncMarker
    PROVE  Hurt(p, m)'
  <2> USE <1>HurtSyncs
  <2>0. /\ HurtFile(p, m) /\ HurtLog(p, m) /\ HurtProgram(p, m) /\ pc # "down"
        /\ end \in Nat \ {0} /\ end <= MaxCells + 1 /\ rc # "CORRUPT"
        /\ end > m => end # EndOf(p)
        /\ end # EndOf(p) => end > m /\ Uncut(cache[0], m)
    BY <1>HurtHandle, ZenonT(40) DEF SyncBody, SyncMarker
  <2>1. pc \in {"sync body", "sync marker"} /\ UNCHANGED <<for, flags, rec, wal, durable, happened>>
    BY ZenonT(40) DEF SyncBody, SyncMarker, db, waldata, history
  <2>2. /\ rec \in Records /\ end + RecLen(rec) <= MaxCells + 1 /\ end > m /\ for = "wal"
        /\ flags \subseteq {"DIRTY", "WAL_PRESENT"}
        /\ wal.recs \in Seq(Records \cup {BadRecord}) /\ walpos \in Nat \ {0}
        /\ ~wal.there => wal = NoWal
    BY <2>0, <2>1, Zenon DEF HurtProgram
  <2>3. m \in Nat /\ MaxCells \in Nat /\ EndOf(p) \in Nat /\ EndOf(p) < m /\ p \in Seq(Records)
        /\ Len(p) \in Nat
    BY <2>0, HurtBounds, Zenon
  <2>4. Uncut(cache[0], m)
    BY <2>0, <2>2, Zenon
  <2>5. Celled(cache) /\ Celled(media) /\ exists /\ Uncut(media[0], m)
    BY <2>0, Zenon DEF HurtFile
  <2>6. Mixed
    BY <2>5, <1>SyncMixes, Zenon DEF SyncBody, SyncMarker
  <2>7. Uncut(media'[0], m) /\ Uncut(cache'[0], m)
    <3>1. 0 \in Offsets
      BY <2>3 DEF Offsets
    <3>2. Uncut(Junk, m)
      BY Zenon DEF Uncut, Junk
    <3> QED
      BY <2>4, <2>5, <2>6, <3>1, <3>2, SMTT(60) DEF Mixed
  <2>8. HurtFile(p, m)'
    BY <2>0, <2>6, <2>7, <1>MixedHurts, ZenonT(40)
  <2>9. ~AtCut(cache'[0], EndOf(p))
    BY <2>3, <2>7, UncutOrCut, Zenon
  <2>10. ~AtCut(cache[0], EndOf(p))'
    BY <2>9, Zenon DEF AtCut
  <2>11. /\ log \in Seq(Records) /\ Len(p) <= Len(log) /\ \A i \in 1..Len(p) : log[i] = p[i]
         /\ durable' \in Nat /\ "damaged" \in happened' /\ "unfinished" \notin happened'
    BY <2>0, <2>1, ZenonT(40) DEF HurtLog
  <2>12. RecLen(rec) \in Nat /\ Len(log) \in Nat
    BY <2>2, <2>11, RecLenNat, SMTT(60)
  <2>13. /\ \/ log' = log /\ end' = end /\ walpos' = walpos
            \/ log' = Append(log, rec) /\ end' = end + RecLen(rec) /\ walpos' = walpos + 1 /\ pc' = "wal"
         /\ pc' \in {"down", "marker", "wal"} /\ (pc' = "down" \/ rc' = rc)
    <3>1. CASE SyncBody
      <4>1. UNCHANGED <<log, end, walpos>>
        BY <3>1, Zenon DEF SyncBody, db, waldata, history
      <4>2. (pc' = "marker" /\ rc' = rc) \/ Fails
        BY <3>1, Zenon DEF SyncBody
      <4>3. Fails => pc' = "down"
        BY <2>0, <2>1, <1>HurtFails, ZenonT(40)
      <4> QED
        BY <4>1, <4>2, <4>3, SMTT(60)
    <3>2. CASE SyncMarker
      <4>1. Fails => pc' = "down"
        BY <2>0, <2>1, <1>HurtFails, ZenonT(40)
      <4>2. \/ /\ log' = Append(log, rec) /\ end' = end + RecLen(rec) /\ walpos' = walpos + 1
               /\ pc' = "wal" /\ rc' = rc
            \/ Fails /\ UNCHANGED <<log, end, walpos>>
        BY <2>2, <3>2, ZenonT(40) DEF SyncMarker
      <4> QED
        BY <4>1, <4>2, Zenon
    <3> QED
      BY <3>1, <3>2, Zenon
  <2>14. log' \in Seq(Records) /\ Len(p) <= Len(log') /\ \A i \in 1..Len(p) : log'[i] = p[i]
    <3>1. CASE log' = log
      BY <2>11, <3>1, Zenon
    <3>2. CASE log' = Append(log, rec)
      <4>1. log' \in Seq(Records) /\ Len(log') = Len(log) + 1 /\ \A i \in 1..Len(log) : log'[i] = log[i]
        BY <2>2, <2>11, <3>2, SMTT(60)
      <4>2. \A i \in 1..Len(p) : i \in 1..Len(log)
        BY <2>3, <2>11, <2>12, SMTT(60)
      <4> QED
        BY <2>3, <2>11, <2>12, <4>1, <4>2, SMTT(60)
    <3> QED
      BY <2>13, <3>1, <3>2, ZenonT(40)
  <2>15. HurtLog(p, m)'
    BY <2>10, <2>11, <2>14, Zenon DEF HurtLog
  <2>16. end' \in (m + 1)..(MaxCells + 1) /\ end' > m /\ walpos' \in Nat \ {0}
    <3>1. CASE end' = end /\ walpos' = walpos
      BY <2>0, <2>2, <2>3, <3>1, SMTT(60)
    <3>2. CASE end' = end + RecLen(rec) /\ walpos' = walpos + 1
      BY <2>0, <2>2, <2>3, <2>12, <3>2, SMTT(60)
    <3> QED
      BY <2>13, <3>1, <3>2, SMTT(60)
  <2>17. Where(p, m)'
    BY <2>7, <2>16, ZenonT(40) DEF Where, Uncut
  <2>18. HurtProgram(p, m)'
    <3>1. /\ flags' \subseteq {"DIRTY", "WAL_PRESENT"}
          /\ wal'.recs \in Seq(Records \cup {BadRecord})
          /\ ~wal'.there => wal' = NoWal
      BY <2>1, <2>2, ZenonT(40)
    <3>2. CASE pc' \in {"down", "wal"}
      BY <2>0, <2>13, <2>16, <2>17, <3>1, <3>2, ZenonT(40) DEF HurtProgram
    <3>3. CASE pc' = "marker"
      <4>1. (rec \in Records /\ end + RecLen(rec) <= MaxCells + 1 /\ for = "wal")' /\ rc' = rc
        BY <2>1, <2>2, <2>13, <3>3, ZenonT(40) DEF RecLen
      <4> QED
        BY <2>0, <2>16, <2>17, <3>1, <3>3, <4>1, ZenonT(40) DEF HurtProgram
    <3> QED
      BY <2>13, <3>2, <3>3, SMTT(60)
  <2> QED
    BY <2>8, <2>15, <2>18, Zenon DEF Hurt
\* The program stops, or fails, after a part of the cached cells has come to
\* the media: the damage is left, or the cut is complete.
<1>HurtMixed.
    ASSUME NEW p, NEW m, Hurt(p, m), Mixed, pc' = "down", rc' = rc \/ rc' = "IO",
           UNCHANGED <<flags, wal, walpos, log, durable>>,
           "damaged" \in happened', "unfinished" \notin happened'
    PROVE  Hurt(p, m)' \/ Laid'
  <2> USE <1>HurtMixed
  <2>0. HurtFile(p, m) /\ HurtLog(p, m) /\ HurtProgram(p, m)
    BY Zenon DEF Hurt
  <2>1. m \in Nat /\ MaxCells \in Nat /\ EndOf(p) \in Nat /\ EndOf(p) < m /\ Len(p) \in Nat
    BY <2>0, HurtBounds, Zenon
  <2>2. 0 \in Offsets /\ Uncut(Junk, m)
    BY <2>1, SMTT(60) DEF Offsets, Uncut, Junk
  <2>3. /\ Uncut(media[0], m) /\ (Uncut(cache[0], m) \/ AtCut(cache[0], EndOf(p)))
        /\ AtCut(cache[0], EndOf(p)) => IsCut(p)
        /\ durable \in Nat
    BY <2>0, ZenonT(40) DEF HurtFile, HurtLog
  <2>4. HurtProgram(p, m)'
    BY <2>0, <1>HurtDown, Zenon
  <2>5. CASE Uncut(media'[0], m)
    <3>1. HurtFile(p, m)'
      BY <2>0, <2>5, <1>MixedHurts, Zenon
    <3>2. AtCut(cache'[0], EndOf(p)) => AtCut(cache[0], EndOf(p))
      <4>1. ~AtCut(media'[0], EndOf(p))
        BY <2>1, <2>5, UncutOrCut, Zenon
      <4> QED
        BY <4>1, Zenon DEF Mixed
    <3>3. HurtLog(p, m)'
      BY <2>0, <2>3, <3>2, <1>HurtLogKept, ZenonT(40)
    <3> QED
      BY <2>4, <3>1, <3>3, Zenon DEF Hurt
  <2>6. CASE ~Uncut(media'[0], m)
    <3>1. media'[0] = cache[0] /\ AtCut(cache[0], EndOf(p))
      BY <2>2, <2>3, <2>6, ZenonT(40) DEF Mixed
    <3>2. log' = p /\ durable' \in 0..Len(p)
      BY <2>1, <2>3, <3>1 DEF IsCut
    <3>3. FileInv'
      BY <2>0, <3>1, <3>2, <1>MixedHeals, ZenonT(40)
    <3>4. Appending'
      BY NotAppending, Zenon
    <3>5. ~Sound'
      BY Zenon DEF Sound
    <3>6. ProgramInv'
      BY <2>4, <3>4, <3>5, SMTT(60) DEF ProgramInv, HurtProgram
    <3> QED
      BY <3>3, <3>6, Zenon DEF Laid
  <2> QED
    BY <2>5, <2>6, Zenon
\* The header is synced: the one that covers the WAL's records leaves the
\* damage where it is, that of the cut completes the cut.
<1>HurtSyncHeader.
    ASSUME NEW p, NEW m, Hurt(p, m), SyncHeader
    PROVE  Hurt(p, m)' \/ Laid'
  <2> USE <1>HurtSyncHeader
  <2>0. /\ HurtFile(p, m) /\ HurtLog(p, m) /\ HurtProgram(p, m) /\ pc # "down"
        /\ end \in Nat \ {0} /\ end <= MaxCells + 1 /\ rc # "CORRUPT"
        /\ end = EndOf(p) => IsCut(p)
        /\ end > m => end # EndOf(p)
        /\ end # EndOf(p) => end > m /\ Uncut(cache[0], m)
    BY <1>HurtHandle, ZenonT(40) DEF SyncHeader
  <2>1. pc = "sync header" /\ UNCHANGED <<for, flags, rec, wal, walpos, log, end>>
    BY ZenonT(40) DEF SyncHeader, db
  <2>2. /\ for \in {"wal", "cut", "ready"} /\ (for = "wal" => end > m) /\ (for # "wal" => end = EndOf(p))
        /\ flags \subseteq {"DIRTY", "WAL_PRESENT"} /\ cache[0] = H(end, flags) /\ 0 \in dirty
        /\ wal.recs \in Seq(Records \cup {BadRecord}) /\ walpos \in Nat \ {0}
        /\ ~wal.there => wal = NoWal
    BY <2>0, <2>1, ZenonT(40) DEF HurtProgram
  <2>3. m \in Nat /\ MaxCells \in Nat /\ EndOf(p) \in Nat /\ EndOf(p) < m /\ p \in Seq(Records)
        /\ Len(p) \in Nat
    BY <2>0, HurtBounds, Zenon
  <2>4. /\ log \in Seq(Records) /\ Len(p) <= Len(log) /\ \A i \in 1..Len(p) : log[i] = p[i]
        /\ "damaged" \in happened /\ "unfinished" \notin happened
    BY <2>0, ZenonT(40) DEF HurtLog
  <2>5. Celled(cache) /\ Celled(media) /\ exists
    BY <2>0, Zenon DEF HurtFile
  <2>6. CASE Sync /\ pc' = After /\ rc' = (IF for \in {"create", "ready"} THEN "OK" ELSE rc)
             /\ durable' = Len(log) /\ happened' = happened \ {"unfinished", "torn"}
    <3>1. Mixed /\ UNCHANGED cache /\ media'[0] = cache[0]
      BY <2>2, <2>5, <2>6, <1>SyncMixes, ZenonT(40)
    <3>2. "damaged" \in happened' /\ "unfinished" \notin happened' /\ rc' # "CORRUPT"
      BY <2>0, <2>4, <2>6, ZenonT(40)
    <3>3. CASE for = "wal"
      <4>1. end > m /\ Uncut(cache[0], m)
        BY <2>0, <2>2, <3>3, Zenon
      <4>2. HurtFile(p, m)'
        BY <2>0, <3>1, <4>1, <1>MixedHurts, ZenonT(40)
      <4>3. Uncut(cache[0], m)' /\ ~AtCut(cache[0], EndOf(p))'
        <5>1. ~AtCut(cache'[0], EndOf(p))
          BY <2>3, <3>1, <4>1, UncutOrCut, ZenonT(40)
        <5> QED
          BY <3>1, <4>1, <5>1, ZenonT(40) DEF Uncut, AtCut
      <4>4. durable' \in Nat
        BY <2>4, <2>6, SMTT(60)
      <4>5. HurtLog(p, m)'
        BY <2>1, <2>4, <3>2, <4>3, <4>4, ZenonT(40) DEF HurtLog
      <4>6. pc' = "delete wal"
        BY <2>6, <3>3, Zenon DEF After
      <4>7. end' \in (m + 1)..(MaxCells + 1)
        <5>1. end' = end
          BY <2>1, Zenon
        <5>2. end \in Nat /\ end <= MaxCells + 1
          BY <2>0, Zenon
        <5> QED
          BY <2>3, <4>1, <5>1, <5>2, SMTT(60)
      <4>8. Where(p, m)'
        BY <4>3, <4>7, Zenon DEF Where
      <4>9. end' > m
        BY <2>1, <4>1, ZenonT(40)
      <4>10. HurtProgram(p, m)'
        BY <2>1, <2>2, <3>2, <4>6, <4>8, <4>9, ZenonT(40) DEF HurtProgram
      <4> QED
        BY <4>2, <4>5, <4>10, Zenon DEF Hurt
    <3>4. CASE for # "wal"
      <4>1. end = EndOf(p) /\ log = p
        BY <2>0, <2>2, <3>4, SMTT(60) DEF IsCut
      <4>2. AtCut(cache[0], EndOf(p))
        BY <2>2, <4>1, Zenon DEF AtCut
      <4>3. log' = p /\ durable' \in 0..Len(p)
        <5>1. log' = log /\ durable' = Len(log)
          BY <2>1, <2>6, ZenonT(40)
        <5> QED
          BY <2>3, <4>1, <5>1
      <4>4. FileInv'
        BY <2>0, <3>1, <3>2, <4>2, <4>3, <1>MixedHeals, ZenonT(40)
      <4>5. pc' \in {"replay", "idle"}
        BY <2>2, <2>6, <3>4, SMTT(60) DEF After
      <4>6. Appending'
        BY <4>5, NotAppending, ZenonT(40)
      <4>7. exists' /\ end' = EndOf(log')
        BY <2>1, <3>1, <4>1, <4>3, ZenonT(40) DEF Mixed
      <4>8. (end = EndOf(log))'
        BY <4>7, Zenon DEF EndOf, Starts, RecLen
      <4>9. ProgramInv'
        BY <2>1, <2>2, <3>2, <4>5, <4>6, <4>7, <4>8, ZenonT(40) DEF ProgramInv
      <4> QED
        BY <4>4, <4>9, Zenon DEF Laid
    <3> QED
      BY <3>3, <3>4, Zenon
  <2>7. CASE SyncFails /\ Fails /\ UNCHANGED <<durable, happened>>
    <3>1. pc' = "down" /\ rc' = "IO"
      BY <2>0, <2>1, <2>7, <1>HurtFails, ZenonT(40)
    <3>2. Mixed
      BY <2>5, <2>7, <1>SyncMixes, Zenon
    <3> QED
      BY <2>1, <2>4, <2>7, <3>1, <3>2, <1>HurtMixed, ZenonT(40)
  <2> QED
    BY <2>6, <2>7, ZenonT(40) DEF SyncHeader
\* The process or the machine dies.
<1>HurtStop.
    ASSUME NEW p, NEW m, Hurt(p, m), Kill \/ PowerLoss
    PROVE  Hurt(p, m)' \/ Laid'
  \* A power loss, once the creation of the file is complete.
  <2> USE <1>HurtStop
  <2>PowerMixes.
      ASSUME Celled(cache), Celled(media), PowerLoss, "unfinished" \notin happened
      PROVE  Mixed
    <3> USE <2>PowerMixes
    <3>1. PICK some \in SUBSET dirty :
            \E torn \in SUBSET {o \in some : cache[o].kind \in {"rec", "hdr"}} :
              media' = [o \in Offsets |-> IF o \in torn THEN Junk ELSE Reaching(some)[o]]
      BY Zenon DEF PowerLoss
    <3>2. PICK torn \in SUBSET {o \in some : cache[o].kind \in {"rec", "hdr"}} :
              media' = [o \in Offsets |-> IF o \in torn THEN Junk ELSE Reaching(some)[o]]
      BY <3>1, Zenon
    <3>3. \A x \in Offsets : media'[x] = IF x \in torn THEN Junk
                                         ELSE IF x \in some THEN cache[x] ELSE media[x]
      BY <3>2, Zenon DEF Reaching
    <3>4. media' = [x \in Offsets |-> media'[x]]
      BY <3>2, Zenon
    <3>5. /\ \A x \in Offsets : cache[x].kind = "rec" => cache[x].plen \in Nat
          /\ \A x \in Offsets : media[x].kind = "rec" => media[x].plen \in Nat
          /\ Junk.kind # "rec"
      BY Zenon DEF Celled, Junk
    <3>6. Celled(media')
      BY <3>3, <3>4, <3>5, Zenon DEF Celled
    <3>7. \A x \in Offsets : \/ media'[x] = media[x]
                             \/ x \in dirty /\ media'[x] \in {cache[x], Junk}
      <4> TAKE x \in Offsets
      <4>1. CASE x \in torn
        BY <3>3, <4>1
      <4>2. CASE x \notin torn
        BY <3>3, <4>2, Zenon
      <4> QED
        BY <4>1, <4>2, Zenon
    <3>8. cache' = media' /\ dirty' = {} /\ exists'
      BY Zenon DEF PowerLoss
    <3> QED
      BY <3>6, <3>7, <3>8, Zenon DEF Mixed
  <2>0. HurtFile(p, m) /\ HurtLog(p, m) /\ HurtProgram(p, m)
    BY Zenon DEF Hurt
  <2>1. pc' = "down" /\ UNCHANGED <<flags, wal, walpos, log, durable, rc>>
    BY ZenonT(40) DEF Kill, PowerLoss, Stops, db, waldata
  <2>2. "damaged" \in happened /\ "unfinished" \notin happened /\ Celled(cache) /\ Celled(media)
    BY <2>0, ZenonT(40) DEF HurtLog, HurtFile
  <2>3. "damaged" \in happened' /\ "unfinished" \notin happened'
    BY <2>2, ZenonT(40) DEF Kill, PowerLoss, Left
  <2>4. CASE Kill
    <3>1. UNCHANGED <<cache, media, dirty, exists>>
      BY <2>4, Zenon DEF Kill, file
    <3>2. HurtFile(p, m)'
      BY <2>0, <3>1, <1>HurtSame, Zenon
    <3>3. AtCut(cache'[0], EndOf(p)) => IsCut(p)
      BY <2>0, <3>1, ZenonT(40) DEF HurtLog
    <3>4. HurtLog(p, m)'
      BY <2>0, <2>1, <2>3, <3>3, <1>HurtLogKept, Zenon
    <3>5. HurtProgram(p, m)'
      BY <2>0, <2>1, <1>HurtDown, Zenon
    <3> QED
      BY <3>2, <3>4, <3>5, Zenon DEF Hurt
  <2>5. CASE PowerLoss
    <3>1. Mixed
      BY <2>2, <2>5, <2>PowerMixes, Zenon
    <3> QED
      BY <2>1, <2>3, <3>1, <1>HurtMixed, Zenon
  <2> QED
    BY <2>4, <2>5, Zenon
\* A WAL file and the flags of the header that say so: there is no cut yet
\* that is not on the media.
<1>HurtWalAppears.
    ASSUME NEW p, NEW m, Hurt(p, m), WalAppears
    PROVE  Hurt(p, m)'
  <2> USE <1>HurtWalAppears
  <2>0. HurtFile(p, m) /\ HurtLog(p, m) /\ HurtProgram(p, m)
    BY Zenon DEF Hurt
  <2>1. /\ pc = "down" /\ dirty = {} /\ cache[0].kind = "hdr" /\ cache[0] = media[0]
        /\ UNCHANGED <<dirty, exists, pc, flags, walpos, rc, log, durable, happened>>
    BY Zenon DEF WalAppears, db, history
  <2>2. PICK fl \in {{"WAL_PRESENT"}, {"DIRTY"}} :
          /\ cache' = [cache EXCEPT ![0].flags = @ \cup fl]
          /\ media' = [media EXCEPT ![0].flags = @ \cup fl]
    BY ZenonT(40) DEF WalAppears
  <2>3. m \in Nat /\ MaxCells \in Nat /\ EndOf(p) \in Nat \ {0} /\ EndOf(p) < m /\ m <= MaxCells
    BY <2>0, HurtBounds, Zenon
  <2>4. Uncut(cache[0], m) /\ Uncut(media[0], m) /\ Celled(cache) /\ Celled(media)
    BY <2>0, <2>1, Zenon DEF HurtFile
  <2>5. PICK e \in (m + 1)..(MaxCells + 1), g \in SUBSET {"DIRTY", "WAL_PRESENT"} : cache[0] = H(e, g)
    BY <2>1, <2>4, ZenonT(40) DEF Uncut
  <2>6. 0 \in Offsets /\ DOMAIN cache = Offsets /\ DOMAIN media = Offsets
    BY <2>3, <2>4 DEF Offsets, Celled
  <2>7. cache'[0] = H(e, g \cup fl) /\ media'[0] = H(e, g \cup fl)
    <3>1. PICK y : y = H(e, g)
      BY Zenon
    <3>2. y.flags = g /\ \A z : [y EXCEPT !.flags = z] = H(e, z)
      BY <3>1 DEF H
    <3>3. cache'[0] = [cache[0] EXCEPT !.flags = cache[0].flags \cup fl]
          /\ media'[0] = [media[0] EXCEPT !.flags = media[0].flags \cup fl]
      BY <2>2, <2>6, Zenon
    <3>4. cache[0] = y /\ media[0] = y
      BY <2>1, <2>5, <3>1, Zenon
    <3> QED
      BY <3>2, <3>3, <3>4, ZenonT(40)
  <2>8. \A x \in Offsets : x # 0 => cache'[x] = cache[x] /\ media'[x] = media[x]
    BY <2>2, <2>6, Zenon
  <2>9. Uncut(cache'[0], m) /\ Uncut(media'[0], m)
    BY <2>5, <2>7, Zenon DEF Uncut
  <2>10. Celled(cache') /\ Celled(media')
    <3>1. ASSUME NEW f, NEW h, Celled(f), h = [x \in Offsets |-> h[x]], h[0].kind = "hdr",
                 \A x \in Offsets : x # 0 => h[x] = f[x]
          PROVE  Celled(h)
      BY ONLY <3>1, Zenon DEF Celled
    <3>2. cache'[0].kind = "hdr" /\ media'[0].kind = "hdr"
      BY <2>7 DEF H
    <3>3. cache' = [x \in Offsets |-> cache'[x]] /\ media' = [x \in Offsets |-> media'[x]]
      BY <2>2, <2>6, Zenon
    <3>4. Celled(cache')
      BY <2>4, <2>8, <3>1, <3>2, <3>3, Zenon
    <3>5. Celled(media')
      BY <2>4, <2>8, <3>1, <3>2, <3>3, Zenon
    <3> QED
      BY <3>4, <3>5, Zenon
  <2>11. PICK o : o = EndOf(p)
    BY Zenon
  <2>12. \A x \in 1..m : cache[x] = cache'[x] /\ media[x] = media'[x]
    BY <2>3, <2>8, SMTT(60) DEF Offsets
  <2>13. \A x \in o..m : cache[x] = cache'[x] /\ media[x] = media'[x]
    BY <2>3, <2>11, <2>12, SMTT(60)
  <2>14. /\ p \in Seq(Records) /\ Holds(cache, p) /\ Holds(media, p) /\ exists
         /\ Cuttable(o, m) \/ Refused(o, m)
    BY <2>0, <2>11, Zenon DEF HurtFile
  <2>15. Holds(cache', p) /\ Holds(media', p)
    <3>1. \A x \in 1..(EndOf(p) - 1) : cache[x] = cache'[x] /\ media[x] = media'[x]
      BY <2>3, <2>12, SMTT(60)
    <3> QED
      BY <2>14, <3>1, SameHolds, Zenon
  <2>16. (Cuttable(o, m) \/ Refused(o, m))'
    <3>1. /\ BadHead(cache, o) => BadHead(cache', o)
          /\ BadMark(cache, o, m) => BadMark(cache', o, m)
          /\ BadByte(cache, o, m) => BadByte(cache', o, m)
      BY <2>3, <2>4, <2>11, <2>13, SameDamage, ZenonT(40)
    <3>2. /\ BadHead(media, o) => BadHead(media', o)
          /\ BadMark(media, o, m) => BadMark(media', o, m)
          /\ BadByte(media, o, m) => BadByte(media', o, m)
      BY <2>3, <2>4, <2>11, <2>13, SameDamage, ZenonT(40)
    <3>3. Cuttable(o, m)' <=> \/ BadHead(cache', o) /\ BadHead(media', o)
                              \/ BadMark(cache', o, m) /\ BadMark(media', o, m)
      BY ZenonT(40) DEF Cuttable, BadHead, BadMark
    <3>4. Refused(o, m)' <=> /\ BadByte(cache', o, m) /\ BadByte(media', o, m)
                             /\ \A x \in o..m : x \notin dirty'
      BY ZenonT(40) DEF Refused, BadByte
    <3>5. \A x \in o..m : x \notin dirty'
      BY <2>1, ZenonT(40)
    <3> QED
      BY <2>14, <3>1, <3>2, <3>3, <3>4, <3>5, ZenonT(40) DEF Cuttable, Refused
  <2>17. HurtFile(p, m)'
    <3>1. (Celled(cache) /\ Celled(media) /\ Holds(cache, p) /\ Holds(media, p))'
      BY <2>10, <2>15, Zenon DEF Celled, Holds
    <3>2. Uncut(cache[0], m)' /\ Uncut(media[0], m)'
      BY <2>9, Zenon DEF Uncut
    <3>3. dirty' = {} /\ exists'
      BY <2>1, <2>14, ZenonT(40)
    <3> QED
      BY <2>3, <2>11, <2>14, <2>16, <3>1, <3>2, <3>3, ZenonT(40) DEF HurtFile
  <2>18. HurtLog(p, m)'
    <3>1. ~AtCut(cache[0], EndOf(p))'
      <4>1. ~AtCut(cache'[0], EndOf(p))
        BY <2>3, <2>9, UncutOrCut, ZenonT(40)
      <4> QED
        BY <4>1, Zenon DEF AtCut
    <3> QED
      BY <2>0, <2>1, <3>1, ZenonT(40) DEF HurtLog
  <2>19. HurtProgram(p, m)'
    <3>1. PICK w \in WalFiles : wal' = [there |-> TRUE, recs |-> w]
      BY Zenon DEF WalAppears
    <3>2. w \in Seq(Records \cup {BadRecord})
      BY LayoutAssumption, Zenon
    <3>3. wal'.there /\ wal'.recs \in Seq(Records \cup {BadRecord})
      BY <3>1, <3>2, Zenon
    <3> QED
      BY <2>0, <2>1, <3>3, ZenonT(40) DEF HurtProgram
  <2> QED
    BY <2>17, <2>18, <2>19, SMTT(60) DEF Hurt
<1> SUFFICES ASSUME NEW p, NEW m, Hurt(p, m), Next, ~Damage
             PROVE  Hurt(p, m)' \/ Laid' \/ "walcut" \in happened'
  BY Zenon
<1>1. exists /\ pc # "idle"
  BY ZenonT(40) DEF Hurt, HurtFile, HurtProgram
<1>2. ~OpenNew /\ ~qdb_close /\ ~(\E r \in Records : AppendRecord(r))
  BY <1>1, Zenon DEF OpenNew, qdb_close, AppendRecord
<1>3. CASE OpenOld
  BY <1>3, <1>HurtOpen, Zenon
<1>4. CASE replay_wal \/ ReplayLog \/ OpenFails
  BY <1>4, <1>HurtQuiet, Zenon
<1>5. CASE WalUnread \/ DeleteWal
  BY <1>5, <1>HurtWalGone, Zenon
<1>6. CASE TruncateTail
  BY <1>6, <1>HurtTruncateTail, Zenon
<1>7. CASE validate_log
  BY <1>7, <1>HurtValidate, Zenon
<1>8. CASE WriteBody \/ WriteMarker
  BY <1>8, <1>HurtAppend, Zenon
<1>9. CASE SyncBody \/ SyncMarker
  BY <1>9, <1>HurtSyncs, Zenon
<1>10. CASE WriteHeader
  BY <1>10, <1>HurtWriteHeader, Zenon
<1>11. CASE SyncHeader
  BY <1>11, <1>HurtSyncHeader, Zenon
<1>12. CASE Kill \/ PowerLoss
  BY <1>12, <1>HurtStop, Zenon
<1>13. CASE WalAppears
  BY <1>13, <1>HurtWalAppears, Zenon
<1> QED
  BY <1>2, <1>3, <1>4, <1>5, <1>6, <1>7, <1>8, <1>9, <1>10, <1>11, <1>12, <1>13, SMTT(60) DEF Next

-----------------------------------------------------------------------------
(* The damage *)

\* Damage to the header of a file, or to a cell of a record that it covers.
LEMMA DamageStep ==
  Laid /\ Damage => Laid' \/ Headless' \/ \E p \in Seq(Records), m \in Nat : Hurt(p, m)'
\* Each cell of the first n records is one of a record.
<1>CellOf.
    ASSUME NEW s \in Seq(Records), NEW n \in 0..Len(s), NEW x \in Nat, 1 <= x, x < Starts(s)[n + 1]
    PROVE  \E i \in 1..n : Starts(s)[i] <= x /\ x < Starts(s)[i] + RecLen(s[i])
  <2> USE <1>CellOf
  <2> DEFINE T == {j \in 1..(n + 1) : x < Starts(s)[j]}
  <2>1. Len(s) \in Nat /\ n \in Nat /\ n + 1 \in 1..(n + 1)
    OBVIOUS
  <2>2. T \subseteq Nat /\ T # {}
    BY <2>1, SMTT(60)
  <2>3. PICK j \in T : \A k \in T : j <= k
    BY <2>2, LeastNat, Zenon
  <2>4. /\ Starts(s)[1] = 1
        /\ \A i \in 1..Len(s) : Starts(s)[i + 1] = Starts(s)[i] + RecLen(s[i])
        /\ \A i \in 1..(Len(s) + 1) : Starts(s)[i] \in Nat
    BY StartsFacts, Zenon
  <2>5. j \in 1..(n + 1) /\ x < Starts(s)[j] /\ j # 1
    BY <2>4
  <2>6. PICK i : i = j - 1
    BY Zenon
  <2>7. i \in 1..n /\ i \in 1..Len(s) /\ i \in 1..(n + 1) /\ i \in 1..(Len(s) + 1) /\ i + 1 = j /\ i < j
    BY <2>1, <2>5, <2>6, SMTT(60)
  <2>8. ~(x < Starts(s)[i])
    BY <2>3, <2>7, SMTT(60)
  <2> HIDE DEF T
  <2>9. Starts(s)[i] <= x
    BY <2>4, <2>7, <2>8, SMTT(60)
  <2>10. x < Starts(s)[i] + RecLen(s[i])
    BY <2>4, <2>5, <2>7, Zenon
  <2> QED
    BY <2>7, <2>9, <2>10, Zenon
\* What becomes of a record header: it has a length that its CRC does not fit,
\* an empty CRC, or an unknown type.
<1>DamagedRec.
    ASSUME NEW t, NEW l \in Nat, NEW q, NEW c, c \in Damaged(R(t, l, q))
    PROVE  /\ c.kind = "rec" /\ c.plen \in Nat
           /\ \/ c.plen # l /\ c.crc = q
              \/ c = R(t, l, << >>)
              \/ c.type = "bad"
  <2> USE <1>DamagedRec
  <2>1. PICK r : r = R(t, l, q)
    BY Zenon
  <2>2. r.kind = "rec" /\ r.plen = l /\ r.crc = q
    BY <2>1, Zenon DEF R
  <2>3. c \in {[r EXCEPT !.plen = n] : n \in IF "plen" \in Damages THEN (0..MaxCells) \ {r.plen} ELSE {}}
             \cup {[r EXCEPT !.crc = << >>] : x \in Damages \cap {"crc"}}
             \cup {[r EXCEPT !.type = u] : u \in IF "type" \in Damages THEN {"bad"} ELSE {}}
    BY <2>1, <2>2, Zenon DEF Damaged
  <2>4. CASE \E n \in (0..MaxCells) \ {l} : c = [r EXCEPT !.plen = n]
    <3>1. PICK n \in (0..MaxCells) \ {l} : c = [r EXCEPT !.plen = n]
      BY <2>4, Zenon
    <3>2. c = R(t, n, q)
      BY <2>1, <3>1, Zenon DEF R
    <3> QED
      BY <3>1, <3>2, LayoutAssumption DEF R
  <2>5. CASE c = [r EXCEPT !.crc = << >>]
    <3>1. c = R(t, l, << >>)
      BY <2>1, <2>5, Zenon DEF R
    <3> QED
      BY <3>1, Zenon DEF R
  <2>6. CASE c = [r EXCEPT !.type = "bad"]
    <3>1. c = R("bad", l, q)
      BY <2>1, <2>6, Zenon DEF R
    <3> QED
      BY <3>1, Zenon DEF R
  <2> QED
    BY <2>2, <2>3, <2>4, <2>5, <2>6, Zenon
\* What becomes of a byte, and of the header of the file.
<1>DamagedByte.
    ASSUME NEW x, NEW c, c \in Damaged(B(x))
    PROVE  \E y : c = B(y) /\ y # x
  <2> USE <1>DamagedByte
  <2>1. PICK b : b = B(x)
    BY Zenon
  <2>2. b.kind = "byte" /\ b.x = x
    BY <2>1, Zenon DEF B
  <2>3. c \in {B(y) : y \in IF "byte" \in Damages THEN Bytes \ {b.x} ELSE {}}
    BY <2>1, <2>2, Zenon DEF Damaged
  <2> QED
    BY <2>2, <2>3, Zenon
<1>DamagedHeader.
    ASSUME NEW h, h.kind = "hdr", NEW c, c \in Damaged(h)
    PROVE  c = Junk
  BY <1>DamagedHeader, Zenon DEF Damaged
\* Before the damage: the header covers the first n records, and they are there.
<1>Undamaged.
    ASSUME Laid, Damage
    PROVE  /\ cache = media /\ exists /\ Celled(cache) /\ DOMAIN cache = Offsets /\ MaxCells \in Nat
           /\ log \in Seq(Records) /\ Len(log) \in Nat /\ durable \in Nat /\ Holds(cache, log)
           /\ EndOf(log) \in Nat /\ EndOf(log) <= MaxCells + 1
           /\ dirty \subseteq Nat /\ \A x \in dirty : x = 0 \/ x >= EndOf(log)
           /\ \E n \in 0..Len(log), fl \in SUBSET {"DIRTY", "WAL_PRESENT"} :
                cache[0] = H(Starts(log)[n + 1], fl)
  <2> USE <1>Undamaged
  <2>1. FileInv /\ cache = media /\ cache[0].kind = "hdr"
    BY Zenon DEF Laid, Damage
  <2>2. EndOf(log) \in 1..(MaxCells + 1) /\ Len(log) \in Nat /\ MaxCells \in Nat
    BY <2>1, LogEnd, Zenon
  <2>3. exists
    <3>1. Blank[0].kind # "hdr"
      BY <2>2, SMTT(60) DEF Blank, None, Offsets
    <3> QED
      BY <2>1, <3>1, Zenon DEF FileInv
  <2>4. /\ Celled(cache) /\ log \in Seq(Records) /\ durable \in 0..Len(log) /\ Holds(cache, log)
        /\ dirty \subseteq Nat /\ \A x \in dirty : x = 0 \/ x >= EndOf(log)
        /\ Covering(cache[0])
    BY <2>1, ZenonT(40) DEF FileInv
  <2>5. PICK n \in durable..Len(log), fl \in SUBSET {"DIRTY", "WAL_PRESENT"} :
          cache[0] = H(Starts(log)[n + 1], fl)
    BY <2>1, <2>4, Zenon DEF Covering
  <2>6. n \in 0..Len(log) /\ durable \in Nat
    BY <2>2, <2>4
  <2>7. DOMAIN cache = Offsets
    BY <2>4, Zenon DEF Celled
  <2>8. \E k \in 0..Len(log), g \in SUBSET {"DIRTY", "WAL_PRESENT"} :
          cache[0] = H(Starts(log)[k + 1], g)
    BY <2>5, <2>6, Zenon
  <2>9. EndOf(log) \in Nat /\ EndOf(log) <= MaxCells + 1
    BY <2>2, SMTT(60)
  <2> QED
    BY <2>1, <2>2, <2>3, <2>4, <2>6, <2>7, <2>8, <2>9, Zenon
\* A file with a damaged cell in the record i, which the header covers.
<1>DamageHurts.
    ASSUME Laid, Damage, NEW n \in 0..Len(log), NEW fl \in SUBSET {"DIRTY", "WAL_PRESENT"},
           cache[0] = H(Starts(log)[n + 1], fl), NEW i \in 1..n,
           NEW x \in Nat, Starts(log)[i] <= x, x < Starts(log)[i] + RecLen(log[i]),
           NEW c, c.kind = "rec" => c.plen \in Nat, cache' = [cache EXCEPT ![x] = c],
           LET o == Starts(log)[i]
               m == Starts(log)[i] + RecLen(log[i]) - 1 IN
           BadHead(cache', o) \/ BadMark(cache', o, m) \/ BadByte(cache', o, m)
    PROVE  \E p \in Seq(Records), m \in Nat : Hurt(p, m)'
  <2> USE <1>DamageHurts
  <2>1. /\ cache = media /\ exists /\ Celled(cache) /\ DOMAIN cache = Offsets /\ MaxCells \in Nat
        /\ log \in Seq(Records) /\ Len(log) \in Nat /\ durable \in Nat /\ Holds(cache, log)
        /\ EndOf(log) \in Nat /\ EndOf(log) <= MaxCells + 1
        /\ dirty \subseteq Nat /\ \A y \in dirty : y = 0 \/ y >= EndOf(log)
    BY <1>Undamaged, ZenonT(40)
  <2>2. /\ media' = cache' /\ pc' = "down" /\ pc = "down" /\ happened' = {"damaged"}
        /\ UNCHANGED <<dirty, exists, flags, wal, walpos, log, durable>>
    BY ZenonT(40) DEF Damage, db, waldata
  <2>3. PICK o, m : o = Starts(log)[i] /\ m = Starts(log)[i] + RecLen(log[i]) - 1
    BY Zenon
  <2>4. i \in 1..Len(log) /\ i \in 1..(Len(log) + 1) /\ n + 1 \in 1..(Len(log) + 1) /\ i < n + 1
        /\ i - 1 \in 0..Len(log) /\ Len(log) + 1 \in 1..(Len(log) + 1) /\ i < Len(log) + 1 /\ (i - 1) + 1 = i
    BY <2>1
  <2>5. o \in Nat \ {0} /\ RecLen(log[i]) \in Nat /\ RecLen(log[i]) >= 2
        /\ Starts(log)[n + 1] \in Nat
    <3>1. log[i] \in Records
      BY <2>1, <2>4
    <3> QED
      BY <2>1, <2>3, <2>4, <3>1, StartsFacts, RecLenNat, ZenonT(40)
  <2>6. o + RecLen(log[i]) <= Starts(log)[n + 1] /\ o + RecLen(log[i]) <= EndOf(log)
    BY <2>1, <2>3, <2>4, StartsUp, ZenonT(40) DEF EndOf
  <2>7. Starts(log)[n + 1] <= EndOf(log)
    <3>1. CASE n = Len(log)
      BY <2>5, <3>1, SMTT(60) DEF EndOf
    <3>2. CASE n # Len(log)
      <4>1. n + 1 \in 1..Len(log) /\ n + 1 < Len(log) + 1
        BY <2>1, <3>2, SMTT(60)
      <4>2. Starts(log)[n + 1] + RecLen(log[n + 1]) <= EndOf(log)
        BY <2>1, <2>4, <4>1, StartsUp, ZenonT(40) DEF EndOf
      <4>3. log[n + 1] \in Records
        BY <2>1, <4>1
      <4>4. RecLen(log[n + 1]) \in Nat
        BY <4>3, RecLenNat, Zenon
      <4> QED
        BY <2>1, <2>5, <4>2, <4>4, SMTT(30)
    <3> QED
      BY <3>1, <3>2, Zenon
  <2>8. /\ m \in Nat /\ o < m /\ m <= MaxCells /\ x \in o..m /\ x \in Offsets /\ x # 0
        /\ Starts(log)[n + 1] \in (m + 1)..(MaxCells + 1) /\ m < EndOf(log)
    <3>1. PICK e, w, y : e = EndOf(log) /\ w = Starts(log)[n + 1] /\ y = RecLen(log[i])
      BY Zenon
    <3>2. /\ o \in Nat \ {0} /\ y \in Nat /\ y >= 2 /\ w \in Nat /\ e \in Nat /\ e <= MaxCells + 1
          /\ o + y <= w /\ w <= e /\ m = o + y - 1 /\ o <= x /\ x < o + y /\ MaxCells \in Nat
      BY <2>1, <2>3, <2>5, <2>6, <2>7, <3>1, ZenonT(40)
    <3>3. /\ m \in Nat /\ o < m /\ m <= MaxCells /\ x \in o..m /\ x \in 0..MaxCells /\ x # 0
          /\ w \in (m + 1)..(MaxCells + 1) /\ m < e
      BY ONLY <3>2, x \in Nat, SMTT(60)
    <3> QED
      BY <3>1, <3>3, ZenonT(40) DEF Offsets
  <2>9. PICK p : p = SubSeq(log, 1, i - 1)
    BY ZenonT(40)
  <2>10. /\ p \in Seq(Records) /\ Len(p) = i - 1 /\ \A k \in 1..(i - 1) : p[k] = log[k]
         /\ EndOf(p) = o /\ Holds(cache, p)
    <3>1. PICK k : k = i - 1
      BY Zenon
    <3>2. k \in 0..Len(log) /\ k + 1 = i /\ p = SubSeq(log, 1, k)
      BY <2>4, <2>9, <3>1, Zenon
    <3>3. /\ p \in Seq(Records) /\ Len(p) = k /\ \A j \in 1..k : p[j] = log[j]
          /\ EndOf(p) = Starts(log)[k + 1] /\ Holds(cache, p)
      BY <2>1, <3>2, Cut, ZenonT(40)
    <3> QED
      BY <2>3, <3>1, <3>2, <3>3, Zenon
  <2>11. /\ cache' = [y \in Offsets |-> cache'[y]] /\ cache'[x] = c
         /\ \A y \in Offsets : y # x => cache'[y] = cache[y]
    BY <2>1, <2>8, Zenon
  <2>12. Celled(cache')
    BY <2>1, <2>11, Zenon DEF Celled
  <2>13. Holds(cache', p)
    <3>1. \A y \in 1..(EndOf(p) - 1) : cache[y] = cache'[y]
      BY <2>1, <2>5, <2>8, <2>10, <2>11, SMTT(60) DEF Offsets
    <3> QED
      BY <2>10, <3>1, SameHolds, ZenonT(40)
  <2>14. Uncut(cache'[0], m)
    <3>1. cache'[0] = cache[0]
      BY <2>1, <2>8, <2>11 DEF Offsets
    <3> QED
      BY <2>8, <3>1, ZenonT(40) DEF Uncut
  <2>15. (Cuttable(o, m) \/ Refused(o, m))'
    <3>1. BadHead(cache', o) \/ BadMark(cache', o, m) \/ BadByte(cache', o, m)
      BY <2>3, ZenonT(40)
    <3>2. Cuttable(o, m)' <=> \/ BadHead(cache', o) /\ BadHead(media', o)
                              \/ BadMark(cache', o, m) /\ BadMark(media', o, m)
      BY ZenonT(40) DEF Cuttable, BadHead, BadMark
    <3>3. Refused(o, m)' <=> /\ BadByte(cache', o, m) /\ BadByte(media', o, m)
                             /\ \A y \in o..m : y \notin dirty'
      BY ZenonT(40) DEF Refused, BadByte
    <3>4. \A y \in o..m : y \notin dirty'
      BY <2>1, <2>2, <2>5, <2>8, SMTT(30)
    <3> QED
      BY <2>2, <3>1, <3>2, <3>3, <3>4, Zenon
  <2>16. HurtFile(p, m)'
    <3>1. (Celled(cache) /\ Celled(media) /\ Holds(cache, p) /\ Holds(media, p))'
      BY <2>2, <2>12, <2>13, ZenonT(40) DEF Celled, Holds
    <3>2. Uncut(cache[0], m)' /\ Uncut(media[0], m)'
      BY <2>2, <2>14, ZenonT(40) DEF Uncut
    <3>3. dirty' \subseteq Nat /\ exists' /\ \A y \in dirty' : y = 0 \/ y >= o
      <4>1. \A y \in dirty : y = 0 \/ y >= o
        BY <2>1, <2>5, <2>8
      <4> QED
        BY <2>1, <2>2, <4>1, Zenon
    <3> QED
      BY <2>8, <2>10, <2>15, <3>1, <3>2, <3>3, ZenonT(40) DEF HurtFile
  <2>17. HurtLog(p, m)'
    <3>1. ~AtCut(cache[0], EndOf(p))'
      <4>1. ~AtCut(cache'[0], o)
        BY <2>5, <2>8, <2>14, UncutOrCut, Zenon
      <4> QED
        BY <2>10, <4>1, ZenonT(40) DEF AtCut
    <3>2. Len(p) <= Len(log) /\ \A k \in 1..Len(p) : log[k] = p[k]
      BY <2>1, <2>4, <2>10
    <3> QED
      BY <2>1, <2>2, <3>1, <3>2, ZenonT(40) DEF HurtLog
  <2>18. HurtProgram(p, m)'
    <3>1. /\ flags \subseteq {"DIRTY", "WAL_PRESENT"}
          /\ wal.recs \in Seq(Records \cup {BadRecord}) /\ walpos \in Nat \ {0}
          /\ ~wal.there => wal = NoWal
      BY Zenon DEF Laid, ProgramInv
    <3> QED
      BY <2>2, <3>1, ZenonT(40) DEF HurtProgram
  <2> QED
    BY <2>8, <2>10, <2>16, <2>17, <2>18, ZenonT(40) DEF Hurt
\* A record of which a cell is damaged.  A CRC that was empty already is not.
<1>DamagedRecord.
    ASSUME NEW f, NEW h, NEW r \in Records, NEW o \in Nat, NEW x \in Nat, NEW m \in Nat,
           m = o + RecLen(r) - 1, o <= x, x <= m, HasRec(f, o, r), NEW c, c \in Damaged(f[x]),
           h[x] = c, \A y \in o..m : y # x => h[y] = f[y]
    PROVE  /\ c.kind = "rec" => c.plen \in Nat
           /\ c = f[x] \/ BadHead(h, o) \/ BadMark(h, o, m) \/ BadByte(h, o, m)
  <2> USE <1>DamagedRecord
  <2>1. PICK l, t, q : l = Len(r.payload) /\ t = r.type /\ q = r.payload
    BY ZenonT(40)
  <2>2. l \in Nat /\ q \in Seq(Bytes)
    BY <2>1, RecLenNat, Zenon
  <2>3. RecLen(r) = l + 2
    BY <2>1, ZenonT(40) DEF RecLen
  <2>4. m = o + l + 1
    BY <2>2, <2>3
  <2>5. f[o] = R(t, l, q) /\ f[m] = B(MARKER) /\ \A k \in 1..l : f[o + k] = B(q[k])
    BY <2>1, Zenon DEF HasRec, HasBody
  <2>6. o \in o..m /\ m \in o..m
    BY <2>2, <2>4, SMTT(60)
  <2>7. CASE x = o
    <3>1. /\ c.kind = "rec" /\ c.plen \in Nat
          /\ (c.plen # l /\ c.crc = q) \/ c = R(t, l, << >>) \/ c.type = "bad"
      <4>1. c \in Damaged(R(t, l, q))
        BY <2>5, <2>7, Zenon
      <4>2. l \in Nat
        BY <2>2, Zenon
      <4> QED
        BY <4>1, <4>2, <1>DamagedRec
    <3>2. h[o] = c
      BY <2>7, Zenon
    <3>3. CASE c.plen # l /\ c.crc = q
      BY <2>1, <3>1, <3>2, <3>3, ZenonT(40) DEF BadHead
    <3>4. CASE c.type = "bad"
      BY <3>1, <3>2, <3>4, LayoutAssumption, ZenonT(40) DEF BadHead
    <3>5. CASE c = R(t, l, << >>)
      <4>1. c.plen = l /\ c.crc = << >> /\ Len(<< >>) = 0
        BY <3>5 DEF R
      <4>2. l = 0 => c = f[x]
        <5>1. l = 0 => q = << >>
          <6>1. l = 0 => Len(q) = 0
            BY <2>1, Zenon
          <6>2. Len(q) = 0 => q = << >>
            BY ONLY <2>2
          <6> QED
            BY <6>1, <6>2, Zenon
        <5> QED
          BY <2>5, <2>7, <3>5, <5>1, ZenonT(40)
      <4>3. l # 0 => BadHead(h, o)
        BY <3>2, <4>1, Zenon DEF BadHead
      <4> QED
        BY <3>1, <4>2, <4>3, ZenonT(40)
    <3> QED
      BY <3>1, <3>3, <3>4, <3>5, ZenonT(40)
  <2>8. CASE x = m
    <3>1. PICK y : c = B(y) /\ y # MARKER
      BY <2>5, <2>8, <1>DamagedByte, SMTT(30)
    <3>2. h[m] = c /\ h[o] = f[o]
      BY <2>2, <2>4, <2>6, <2>8, SMTT(60)
    <3>3. c # B(MARKER) /\ c.kind # "rec"
      BY <3>1, SMTT(30) DEF B
    <3>4. f[o].plen = l
      BY <2>5, SMTT(30) DEF R
    <3>5. BadMark(h, o, m)
      BY <2>2, <2>4, <3>2, <3>3, <3>4, SMTT(30) DEF BadMark
    <3> QED
      BY <3>3, <3>5, ZenonT(40)
  <2>9. CASE x # o /\ x # m
    <3>1. PICK k : k = x - o
      BY Zenon
    <3>2. k \in 1..l /\ x = o + k
      BY <2>2, <2>4, <2>9, <3>1, SMTT(60)
    <3>3. PICK y : c = B(y) /\ y # q[k]
      BY <2>5, <3>2, <1>DamagedByte, SMTT(60)
    <3>4. c.kind = "byte" /\ c.x # q[k]
      BY <3>3 DEF B
    <3>5. h[o] = f[o] /\ h[m] = B(MARKER) /\ h[o + k] = c
      BY <2>5, <2>6, <2>9, <3>2, ZenonT(40)
    <3>6. f[o].kind = "rec" /\ f[o].plen = l /\ f[o].crc = q
      BY <2>5, SMTT(60) DEF R
    <3>7. BadByte(h, o, m)
      BY <2>2, <2>4, <3>2, <3>4, <3>5, <3>6 DEF BadByte
    <3> QED
      BY <3>4, <3>7, ZenonT(40)
  <2> QED
    BY <2>7, <2>8, <2>9, ZenonT(40)
<1> SUFFICES ASSUME Laid, Damage
             PROVE  Laid' \/ Headless' \/ \E p \in Seq(Records), m \in Nat : Hurt(p, m)'
  BY Zenon
<1>1. /\ cache = media /\ exists /\ Celled(cache) /\ DOMAIN cache = Offsets /\ MaxCells \in Nat
      /\ log \in Seq(Records) /\ Len(log) \in Nat /\ Holds(cache, log)
      /\ EndOf(log) \in Nat /\ EndOf(log) <= MaxCells + 1
  BY <1>Undamaged, Zenon
<1>2. /\ media' = cache' /\ pc = "down" /\ pc' = "down" /\ happened' = {"damaged"} /\ exists'
      /\ UNCHANGED <<dirty, exists, flags, wal, walpos, rc, log, durable>>
      /\ cache[0].kind = "hdr"
  BY <1>1, Zenon DEF Damage, db, waldata
<1>3. PICK n \in 0..Len(log), fl \in SUBSET {"DIRTY", "WAL_PRESENT"} :
        cache[0] = H(Starts(log)[n + 1], fl)
  BY <1>Undamaged, Zenon
<1>4. PICK x, c : x \in 0..(cache[0].end - 1) /\ c \in Damaged(cache[x])
                  /\ cache' = [cache EXCEPT ![x] = c]
  BY Zenon DEF Damage
<1>5. cache[0].end = Starts(log)[n + 1] /\ Starts(log)[n + 1] \in Nat
  <2>1. n + 1 \in 1..(Len(log) + 1)
    BY <1>1
  <2> QED
    BY <1>1, <1>3, <2>1, StartsFacts DEF H
<1>6. x \in Nat /\ x < Starts(log)[n + 1]
  BY <1>4, <1>5, SMTT(30)
<1>7. CASE x = 0
  <2>1. c = Junk
    BY <1>2, <1>4, <1>7, <1>DamagedHeader, Zenon
  <2>2. cache'[0] = Junk
    BY <1>1, <1>4, <1>7, <2>1, SMTT(60) DEF Offsets
  <2> QED
    BY <1>2, <2>2, SMTT(60) DEF Headless, Junk
<1>8. CASE x # 0
  <2>1. PICK i \in 1..n : Starts(log)[i] <= x /\ x < Starts(log)[i] + RecLen(log[i])
    BY <1>1, <1>6, <1>8, <1>CellOf, SMTT(60)
  <2>2. PICK o, m : o = Starts(log)[i] /\ m = Starts(log)[i] + RecLen(log[i]) - 1
    BY Zenon
  <2>3. i \in 1..Len(log) /\ i \in 1..(Len(log) + 1) /\ i < Len(log) + 1
        /\ Len(log) + 1 \in 1..(Len(log) + 1)
    BY <1>1, SMTT(60)
  <2>4. log[i] \in Records
    BY <1>1, <2>3, SMTT(60)
  <2>5. RecLen(log[i]) \in Nat /\ RecLen(log[i]) >= 2 /\ o \in Nat \ {0}
    BY <1>1, <2>2, <2>3, <2>4, RecLenNat, StartsFacts, SMTT(60)
  <2>6. o + RecLen(log[i]) <= EndOf(log)
    BY <1>1, <2>2, <2>3, StartsUp, Zenon DEF EndOf
  <2>7. m \in Nat /\ o <= x /\ x <= m /\ m <= MaxCells /\ m = o + RecLen(log[i]) - 1
    <3>1. PICK y, e : y = RecLen(log[i]) /\ e = EndOf(log)
      BY Zenon
    <3>2. /\ y \in Nat /\ y >= 2 /\ o \in Nat /\ o + y <= e /\ e \in Nat /\ e <= MaxCells + 1
          /\ o <= x /\ x < o + y /\ m = o + y - 1 /\ x \in Nat /\ MaxCells \in Nat
      BY <1>1, <1>6, <2>1, <2>2, <2>5, <2>6, <3>1, SMTT(60)
    <3>3. m \in Nat /\ o <= x /\ x <= m /\ m <= MaxCells /\ m = o + y - 1
      BY ONLY <3>2, SMTT(60)
    <3> QED
      BY <3>1, <3>3, Zenon
  <2>8. \A y \in o..m : y \in Offsets
    BY <1>1, <2>5, <2>7, SMTT(60) DEF Offsets
  <2>9. x \in o..m
    BY <1>6, <2>5, <2>7, SMTT(60)
  <2>10. cache'[x] = c /\ \A y \in o..m : y # x => cache'[y] = cache[y]
    BY <1>1, <1>4, <2>8, <2>9, Zenon
  <2>11. HasRec(cache, o, log[i])
    BY <1>1, <2>2, <2>3, Zenon DEF Holds
  <2>12. /\ c.kind = "rec" => c.plen \in Nat
         /\ c = cache[x] \/ BadHead(cache', o) \/ BadMark(cache', o, m) \/ BadByte(cache', o, m)
    <3>1. PICK r, h : r = log[i] /\ h = cache'
      BY Zenon
    <3>2. /\ r \in Records /\ o \in Nat /\ x \in Nat /\ m \in Nat /\ m = o + RecLen(r) - 1
          /\ o <= x /\ x <= m /\ HasRec(cache, o, r) /\ c \in Damaged(cache[x])
      BY <1>4, <1>6, <2>4, <2>5, <2>7, <2>11, <3>1, Zenon
    <3>3. h[x] = c /\ \A y \in o..m : y # x => h[y] = cache[y]
      BY <2>10, <3>1, ZenonT(40)
    <3>4. /\ c.kind = "rec" => c.plen \in Nat
          /\ c = cache[x] \/ BadHead(h, o) \/ BadMark(h, o, m) \/ BadByte(h, o, m)
      BY ONLY <3>2, <3>3, <1>DamagedRecord, SMTT(60)
    <3> QED
      BY <3>1, <3>4, ZenonT(40)
  <2>13. CASE BadHead(cache', o) \/ BadMark(cache', o, m) \/ BadByte(cache', o, m)
    <3>1. LET a == Starts(log)[i]
              z == Starts(log)[i] + RecLen(log[i]) - 1 IN
          BadHead(cache', a) \/ BadMark(cache', a, z) \/ BadByte(cache', a, z)
      BY <2>2, <2>13, Zenon
    <3>2. x \in Nat /\ cache' = [cache EXCEPT ![x] = c] /\ (c.kind = "rec" => c.plen \in Nat)
      BY <1>4, <1>6, <2>12, Zenon
    <3> QED
      BY <1>3, <2>1, <3>1, <3>2, <1>DamageHurts, Zenon
  <2>14. CASE c = cache[x]
    <3>1. cache' = cache
      BY <1>1, <1>4, <2>14, Zenon DEF Celled
    <3>2. UNCHANGED <<file, log, durable>> /\ ~Sound'
      BY <1>1, <1>2, <3>1, ZenonT(40) DEF file, Sound
    <3>3. FileInv'
      BY <3>2, FileKept, Zenon DEF Laid
    <3>4. Appending'
      BY <1>2, NotAppending, Zenon
    <3>5. ProgramInv'
      BY <1>2, <3>2, <3>4, ZenonT(40) DEF Laid, ProgramInv
    <3> QED
      BY <3>3, <3>5, Zenon DEF Laid
  <2> QED
    BY <2>12, <2>13, <2>14, ZenonT(40)
<1> QED
  BY <1>7, <1>8, Zenon

-----------------------------------------------------------------------------
(* Every handle reads the log back *)

\* Only damage to the media is remembered as such.
LEMMA OnlyDamage ==
  ASSUME Next, ~Damage
  PROVE  happened' \subseteq happened \cup {"unfinished", "torn", "cut", "walcut", "walkept", "walunread"}
<1>1. CASE OpenNew \/ OpenOld \/ replay_wal \/ WalUnread \/ DeleteWal
  BY <1>1, ZenonT(40) DEF OpenNew, OpenOld, replay_wal, WalUnread, DeleteWal, history
<1>2. CASE TruncateTail \/ validate_log \/ ReplayLog \/ OpenFails \/ qdb_close
  BY <1>2, ZenonT(40) DEF TruncateTail, validate_log, ReplayLog, OpenFails, qdb_close, history
<1>3. CASE (\E r \in Records : AppendRecord(r)) \/ WriteBody \/ SyncBody \/ WriteMarker \/ SyncMarker
  BY <1>3, Zenon DEF AppendRecord, WriteBody, SyncBody, WriteMarker, SyncMarker, history
<1>4. CASE WriteHeader \/ SyncHeader \/ Kill \/ PowerLoss \/ WalAppears
  BY <1>4, Zenon DEF WriteHeader, SyncHeader, Kill, PowerLoss, WalAppears, Stops, Left, history
<1> QED
  BY <1>1, <1>2, <1>3, <1>4, Zenon DEF Next

\* A stuttering step changes nothing of a damaged file.
LEMMA StutterKeepsHurt ==
  ASSUME UNCHANGED vars
  PROVE  /\ Headless => Headless'
         /\ \A p, m : Hurt(p, m) => Hurt(p, m)'
<1>1. /\ UNCHANGED <<cache, media, dirty, exists, pc, for, end, flags, rec, wal, walpos, rc>>
      /\ UNCHANGED <<log, durable, happened>>
  BY Zenon DEF vars, file, db, waldata, history
<1>2. Headless => Headless'
  BY <1>1, Zenon DEF Headless
<1>3. ASSUME NEW p, NEW m, Hurt(p, m) PROVE Hurt(p, m)'
  <2>1. HurtFile(p, m)'
    BY <1>1, <1>3, Zenon DEF Hurt, HurtFile, Cuttable, Refused
  <2>2. HurtLog(p, m)'
    BY <1>1, <1>3, Zenon DEF Hurt, HurtLog, IsCut
  <2>3. HurtProgram(p, m)'
    BY <1>1, <1>3, ZenonT(40) DEF Hurt, HurtProgram, Where, IsCut, Cuttable
  <2> QED
    BY <2>1, <2>2, <2>3, Zenon DEF Hurt
<1> QED
  BY <1>2, <1>3, Zenon

\* Every step keeps what is known of a damaged file.
LEMMA StepKeepsDamage ==
  ASSUME LInv, DInv, [Next]_vars
  PROVE  DInv'
<1> SUFFICES ASSUME "damaged" \in happened', "walcut" \notin happened'
             PROVE  Laid' \/ Headless' \/ \E p \in Seq(Records), m \in Nat : Hurt(p, m)'
  BY Zenon DEF DInv
<1>1. CASE UNCHANGED vars
  <2>1. happened' = happened
    BY <1>1, Zenon DEF vars, history
  <2>2. Laid \/ Headless \/ \E p \in Seq(Records), m \in Nat : Hurt(p, m)
    BY <2>1, Zenon DEF DInv
  <2> QED
    BY <1>1, <2>2, StutterKeepsLaid, StutterKeepsHurt, Zenon
<1>2. CASE Next /\ ~Damage
  <2>1. "damaged" \in happened /\ "walcut" \notin happened
    BY <1>2, OnlyDamage, Remembers, Zenon
  <2>2. Laid \/ Headless \/ \E p \in Seq(Records), m \in Nat : Hurt(p, m)
    BY <2>1, Zenon DEF DInv
  <2>3. CASE Laid
    BY <1>2, <2>3, StepKeepsLaid, Zenon
  <2>4. CASE Headless
    BY <1>2, <2>4, HeadlessStep, Zenon
  <2>5. ASSUME NEW p \in Seq(Records), NEW m \in Nat, Hurt(p, m)
        PROVE  Hurt(p, m)' \/ Laid'
    BY <1>2, <2>5, HurtStep, Zenon
  <2> QED
    BY <2>2, <2>3, <2>4, <2>5, Zenon
<1>3. CASE Damage
  <2>1. Laid
    BY <1>3, Zenon DEF Damage, LInv
  <2> QED
    BY <1>3, <2>1, DamageStep, Zenon
<1> QED
  BY <1>1, <1>2, <1>3, Zenon

\* An open handle reads back exactly the records of the log, whatever calls
\* failed and whatever crashes and damage to the media came before: what
\* scan_record does not accept is refused by qdb_open or cut off by
\* validate_log before the handle is open.  The exception is a WAL file whose
\* records replay_wal appended behind a record that is cut off later.
THEOREM EveryOpenReadsBack == Spec => []ReadsBack
<1>1. Init => LInv /\ DInv
  BY InitLaid, ZenonT(40) DEF LInv, DInv, Init
<1>2. LInv /\ DInv /\ [Next]_vars => LInv' /\ DInv'
  BY StepKeepsLog, StepKeepsDamage, Zenon
<1>3. LInv /\ DInv => ReadsBack
  <2> SUFFICES ASSUME LInv, DInv, pc = "idle", "walcut" \notin happened
               PROVE  Scan(cache, end).rc = "END" /\ Scan(cache, end).recs = log
    BY Zenon DEF ReadsBack
  <2>1. Laid
    <3>1. CASE "damaged" \notin happened
      BY <3>1, Zenon DEF LInv
    <3>2. CASE "damaged" \in happened
      <4>1. ~Headless
        BY Zenon DEF Headless
      <4>2. \A p, m : ~Hurt(p, m)
        BY Zenon DEF Hurt, HurtProgram
      <4> QED
        BY <3>2, <4>1, <4>2, Zenon DEF DInv
    <3> QED
      BY <3>1, <3>2, Zenon
  <2>2. FileInv /\ end = EndOf(log)
    BY <2>1, OpenHandle, Zenon
  <2> QED
    BY <2>2, LogReadsBack
<1> QED
  BY <1>1, <1>2, <1>3, PTL DEF Spec
=============================================================================







