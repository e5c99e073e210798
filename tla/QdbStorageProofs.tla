-------------------------- MODULE QdbStorageProofs --------------------------
(***************************************************************************)
(* What a file holds while its media is not damaged: the records appended, *)
(* in order and without a gap, on the media as in the cache, under headers *)
(* that end where a record ends.  From this follow, for every file size,   *)
(* every set of payloads and every number of faults and power losses: the  *)
(* records a header update promised survive, an open handle reads back     *)
(* what was appended, and qdb_open neither refuses nor cuts a log without  *)
(* cause.  The proofs about the scan are inductions over the offsets of    *)
(* the file; a step of the induction is a member of a set of naturals.     *)
(***************************************************************************)
EXTENDS QdbStorage, WellFoundedInduction, TLAPS

\* The first offset behind the records s.
EndOf(s) == Starts(s)[Len(s) + 1]

\* The file f holds the record r at offset o, without its marker and with it.
HasBody(f, o, r) ==
  /\ f[o] = R(r.type, Len(r.payload), r.payload)
  /\ \A k \in 1..Len(r.payload) : f[o + k] = B(r.payload[k])

HasRec(f, o, r) == HasBody(f, o, r) /\ f[o + RecLen(r) - 1] = B(MARKER)

Holds(f, s) == \A i \in 1..Len(s) : HasRec(f, Starts(s)[i], s[i])

\* A header ends behind one of the records, at or behind the last one promised.
Covering(c) ==
  c.kind = "hdr" =>
    \E n \in durable..Len(log), fl \in SUBSET {"DIRTY", "WAL_PRESENT"} :
      c = H(Starts(log)[n + 1], fl)

\* What the provers need to know of cells: a record header has a length.
Celled(f) ==
  /\ f = [o \in Offsets |-> f[o]]
  /\ \A o \in Offsets : f[o].kind = "rec" => f[o].plen \in Nat

CellsOK(cells, n) == \A i \in 1..n : cells[i].kind = "rec" => cells[i].plen \in Nat

\* The file: both copies hold the log, only cells behind it and the header may
\* differ, and the header on the media is not ahead of the one in the cache.
FileInv ==
  /\ Celled(cache) /\ Celled(media) /\ dirty \subseteq Nat
  /\ log \in Seq(Records) /\ durable \in 0..Len(log) /\ EndOf(log) <= MaxCells + 1
  /\ Holds(cache, log) /\ Holds(media, log)
  /\ \A o \in dirty : o = 0 \/ o >= EndOf(log)
  /\ Covering(cache[0]) /\ Covering(media[0])
  /\ cache[0].kind = "hdr" /\ media[0].kind = "hdr" => media[0].end <= cache[0].end
  /\ IF exists THEN Sound => cache[0].kind = "hdr" /\ media[0].kind = "hdr"
     ELSE cache = Blank /\ media = Blank

\* The program: where it is in an append or a header update, as much of the
\* record or of the header is in the cache and on the media.
Cells == end..(end + Len(rec.payload))

Appending ==
  /\ pc \in {"body", "sync body", "marker", "sync marker"} =>
       rec \in Records /\ end + RecLen(rec) <= MaxCells + 1
  /\ pc = "sync body" => HasBody(cache, end, rec) /\ Cells \subseteq dirty
  /\ pc \in {"marker", "sync marker"} => HasBody(cache, end, rec) /\ HasBody(media, end, rec)
  /\ pc = "sync marker" =>
       cache[end + RecLen(rec) - 1] = B(MARKER) /\ end + RecLen(rec) - 1 \in dirty
  /\ pc = "sync header" => cache[0] = H(end, flags) /\ 0 \in dirty

ProgramInv ==
  /\ pc # "down" => exists /\ end = EndOf(log)
  /\ flags \subseteq {"DIRTY", "WAL_PRESENT"}
  /\ Appending
  /\ wal.recs \in Seq(Records \cup {BadRecord}) /\ walpos \in Nat \ {0}
  /\ ~wal.there => wal = NoWal
  /\ rc = "CORRUPT" => pc = "down" /\ (~Sound \/ BadRecord \in Range(wal.recs))

\* The invariant of a file whose media is not damaged.
Laid == FileInv /\ ProgramInv

LInv == "damaged" \notin happened => Laid /\ "cut" \notin happened

-----------------------------------------------------------------------------
(* Induction and recursion over offsets *)

\* A set of naturals that is not empty has a least member.
LEMMA LeastNat ==
  ASSUME NEW T, T \subseteq Nat, T # {}
  PROVE  \E n \in T : \A k \in T : n <= k
<1>1. \E W : IsWellFoundedOn(W, Nat) /\ W = {ss \in Nat \X Nat : ss[1] < ss[2]}
  BY NatLessThanWellFounded, Zenon DEF OpToRel
<1>2. PICK W : IsWellFoundedOn(W, Nat) /\ W = {ss \in Nat \X Nat : ss[1] < ss[2]}
  BY <1>1, Zenon
<1>3. \E x \in T : \A y \in T : ~ (<<y, x>> \in W)
  BY <1>2, WFMin, Zenon
<1>4. \A x, y \in Nat : <<y, x>> \in W <=> y < x
  BY <1>2, Zenon
<1>5. PICK x \in T : \A y \in T : ~ (<<y, x>> \in W)
  BY <1>3, Zenon
<1>6. \A y \in T : x <= y
  <2> TAKE y \in T
  <2>1. ~ (y < x)
    BY <1>4, <1>5, Zenon
  <2> QED
    BY <2>1
<1> QED
  BY <1>6, Zenon

\* A set that holds 0, and with each natural the next one, holds all of them.
LEMMA Induct ==
  ASSUME NEW S, 0 \in S, \A n \in Nat : n \in S => n + 1 \in S
  PROVE  Nat \subseteq S
<1> SUFFICES ASSUME Nat \ S # {} PROVE FALSE
  BY Zenon
<1> DEFINE T == Nat \ S
<1>1. PICK n \in T : \A k \in T : n <= k
  BY LeastNat, Zenon
<1> QED
  BY <1>1

\* A record takes two cells and its payload.
LEMMA RecLenNat ==
  ASSUME NEW r \in Records
  PROVE  r.payload \in Seq(Bytes) /\ Len(r.payload) \in Nat /\ RecLen(r) \in Nat /\ RecLen(r) >= 2
<1>1. r.payload \in Seq(Bytes)
  BY LayoutAssumption, Zenon DEF Records
<1>2. Len(r.payload) \in Nat
  BY <1>1
<1> QED
  BY <1>1, <1>2 DEF RecLen

\* The first record starts behind the file header, each one behind the one
\* before.
LEMMA StartsFacts ==
  ASSUME NEW s \in Seq(Records)
  PROVE  /\ Starts(s)[1] = 1
         /\ \A i \in 1..Len(s) : Starts(s)[i + 1] = Starts(s)[i] + RecLen(s[i])
         /\ \A i \in 1..(Len(s) + 1) : Starts(s)[i] \in Nat \ {0}
\* The offsets of Starts are the ones its recursion says.
<1>StartsDef.
    ASSUME Len(s) \in Nat
    PROVE  Starts(s) = [i \in 1..(Len(s) + 1) |->
                          IF i = 1 THEN 1 ELSE Starts(s)[i - 1] + RecLen(s[i - 1])]
  <2> USE <1>StartsDef
  <2> DEFINE Def(n, g) == g = [i \in 1..n |-> IF i = 1 THEN 1 ELSE g[i - 1] + RecLen(s[i - 1])]
             S == {n \in Nat : \E g : Def(n, g)}
  <2>1. 0 \in S
    <3>1. Def(0, [i \in 1..0 |-> 1])
      OBVIOUS
    <3> QED
      BY <3>1, Zenon
  <2>2. ASSUME NEW n \in Nat, n \in S PROVE n + 1 \in S
    <3>1. PICK g : Def(n, g)
      BY <2>2, Zenon
    <3> DEFINE a == IF n + 1 = 1 THEN 1 ELSE g[n] + RecLen(s[n])
               h == [i \in 1..(n + 1) |-> IF i = n + 1 THEN a ELSE g[i]]
    <3> HIDE DEF a
    <3>2. \A i \in 1..n : g[i] = IF i = 1 THEN 1 ELSE g[i - 1] + RecLen(s[i - 1])
      BY <3>1, Zenon
    <3>3. \A i \in 1..n : h[i] = g[i]
      OBVIOUS
    <3>4. h[n + 1] = a
      OBVIOUS
    <3> HIDE DEF h
    <3>5. \A i \in 1..(n + 1) : h[i] = IF i = 1 THEN 1 ELSE h[i - 1] + RecLen(s[i - 1])
      <4> TAKE i \in 1..(n + 1)
      <4>1. CASE i = n + 1
        <5>1. n # 0 => h[n] = g[n]
          BY <3>3
        <5> QED
          BY <4>1, <5>1, <3>4 DEF a
      <4>2. CASE i # n + 1
        <5>1. i \in 1..n /\ (i # 1 => i - 1 \in 1..n)
          BY <4>2
        <5> QED
          BY <5>1, <3>2, <3>3, Zenon
      <4> QED
        BY <4>1, <4>2, Zenon
    <3>6. h = [i \in 1..(n + 1) |-> h[i]]
      BY Zenon DEF h
    <3>7. Def(n + 1, h)
      BY <3>5, <3>6, Zenon
    <3> QED
      BY <3>7
  <2> HIDE DEF S
  <2>3. Nat \subseteq S
    BY <2>1, <2>2, Induct, Zenon
  <2>4. \E g : Def(Len(s) + 1, g)
    <3> HIDE DEF Def
    <3>1. Len(s) + 1 \in S
      BY <2>3
    <3> QED
      BY <3>1, Zenon DEF S
  <2>5. Starts(s) = CHOOSE g : Def(Len(s) + 1, g)
    BY Zenon DEF Starts
  <2>6. Def(Len(s) + 1, CHOOSE g : Def(Len(s) + 1, g))
    <3> HIDE DEF Def
    <3> QED
      BY <2>4, Zenon
  <2> QED
    BY <2>5, <2>6, Zenon
<1> DEFINE st == Starts(s)
           S == {n \in Nat : n + 1 \in 1..(Len(s) + 1) => st[n + 1] \in Nat \ {0}}
<1>1. Len(s) \in Nat /\ \A i \in 1..Len(s) : s[i] \in Records
  OBVIOUS
<1>2. st = [i \in 1..(Len(s) + 1) |-> IF i = 1 THEN 1 ELSE st[i - 1] + RecLen(s[i - 1])]
  BY <1>1, <1>StartsDef, Zenon
<1> HIDE DEF st
<1>3. \A i \in 1..(Len(s) + 1) : st[i] = IF i = 1 THEN 1 ELSE st[i - 1] + RecLen(s[i - 1])
  BY <1>2, Zenon
<1>4. st[1] = 1
  BY <1>1, <1>3
<1>5. \A i \in 1..Len(s) : st[i + 1] = st[i] + RecLen(s[i])
  <2> TAKE i \in 1..Len(s)
  <2>1. i + 1 \in 1..(Len(s) + 1) /\ i + 1 # 1 /\ (i + 1) - 1 = i
    BY <1>1
  <2> QED
    BY <2>1, <1>3, Zenon
<1>6. 0 \in S
  BY <1>4
<1>7. ASSUME NEW n \in Nat, n \in S PROVE n + 1 \in S
  <2> SUFFICES ASSUME (n + 1) + 1 \in 1..(Len(s) + 1) PROVE st[(n + 1) + 1] \in Nat \ {0}
    OBVIOUS
  <2>1. n + 1 \in 1..Len(s)
    BY <1>1
  <2>2. st[n + 1] \in Nat \ {0}
    BY <1>1, <1>7, <2>1
  <2>3. RecLen(s[n + 1]) \in Nat
    BY <1>1, <2>1, RecLenNat, Zenon
  <2> QED
    BY <1>5, <2>1, <2>2, <2>3
<1> HIDE DEF S
<1>8. Nat \subseteq S
  BY <1>6, <1>7, Induct, Zenon
<1>9. ASSUME NEW i \in 1..(Len(s) + 1) PROVE st[i] \in Nat \ {0}
  <2>1. i - 1 \in S /\ (i - 1) + 1 = i
    BY <1>1, <1>8
  <2> QED
    BY <2>1, Zenon DEF S
<1> QED
  BY <1>4, <1>5, <1>9, Zenon DEF st

\* A later record starts behind the end of an earlier one.
LEMMA StartsUp ==
  ASSUME NEW s \in Seq(Records), NEW i \in 1..Len(s), NEW j \in 1..(Len(s) + 1), i < j
  PROVE  Starts(s)[i] + RecLen(s[i]) <= Starts(s)[j]
<1> DEFINE st == Starts(s)
           S == {n \in Nat : i + 1 + n \in 1..(Len(s) + 1) => st[i] + RecLen(s[i]) <= st[i + 1 + n]}
<1>1. Len(s) \in Nat /\ \A k \in 1..Len(s) : s[k] \in Records
  OBVIOUS
<1>2. /\ \A k \in 1..Len(s) : st[k + 1] = st[k] + RecLen(s[k])
      /\ \A k \in 1..(Len(s) + 1) : st[k] \in Nat
  BY StartsFacts, Zenon
<1>3. \A k \in 1..Len(s) : RecLen(s[k]) \in Nat
  BY <1>1, RecLenNat, Zenon
<1> HIDE DEF st
<1>4. 0 \in S
  <2>1. i + 1 + 0 = i + 1 /\ st[i + 1] = st[i] + RecLen(s[i])
    BY <1>1, <1>2
  <2>2. st[i] \in Nat /\ RecLen(s[i]) \in Nat
    BY <1>1, <1>2, <1>3
  <2>3. st[i] + RecLen(s[i]) <= st[i + 1 + 0]
    BY <2>1, <2>2
  <2> QED
    BY <2>3, Zenon
<1>5. ASSUME NEW n \in Nat, n \in S PROVE n + 1 \in S
  <2> SUFFICES ASSUME i + 1 + (n + 1) \in 1..(Len(s) + 1)
               PROVE  st[i] + RecLen(s[i]) <= st[i + 1 + (n + 1)]
    OBVIOUS
  <2> DEFINE k == i + 1 + n
  <2>1. k \in 1..Len(s) /\ k + 1 = i + 1 + (n + 1) /\ k \in 1..(Len(s) + 1) /\ i \in 1..(Len(s) + 1)
    BY <1>1
  <2>2. st[i] + RecLen(s[i]) <= st[k]
    BY <1>5, <2>1, Zenon
  <2> HIDE DEF k
  <2>3. st[k + 1] = st[k] + RecLen(s[k]) /\ st[k] \in Nat /\ st[i] \in Nat
    BY <1>2, <2>1, Zenon
  <2>4. RecLen(s[i]) \in Nat /\ RecLen(s[k]) \in Nat
    BY <1>3, <2>1, Zenon
  <2>5. st[i] + RecLen(s[i]) <= st[k + 1]
    BY <2>2, <2>3, <2>4, SMTT(30)
  <2> QED
    BY <2>1, <2>5, Zenon
<1> HIDE DEF S
<1>6. Nat \subseteq S
  BY <1>4, <1>5, Induct, Zenon
<1>7. j - i - 1 \in S /\ i + 1 + (j - i - 1) = j
  BY <1>1, <1>6
<1>8. st[i] + RecLen(s[i]) <= st[j]
  BY <1>7, Zenon DEF S
<1> QED
  BY <1>8, Zenon DEF st

\* Sequences that begin alike have their records at the same offsets.
LEMMA StartsAlike ==
  ASSUME NEW s \in Seq(Records), NEW t \in Seq(Records), NEW n \in Nat,
         n <= Len(s), n <= Len(t), \A i \in 1..n : s[i] = t[i]
  PROVE  \A i \in 1..(n + 1) : Starts(s)[i] = Starts(t)[i]
<1> DEFINE S == {k \in Nat : k <= n => Starts(s)[k + 1] = Starts(t)[k + 1]}
<1>1. Len(s) \in Nat /\ Len(t) \in Nat
  OBVIOUS
<1>2. /\ Starts(s)[1] = 1 /\ Starts(t)[1] = 1
      /\ \A i \in 1..Len(s) : Starts(s)[i + 1] = Starts(s)[i] + RecLen(s[i])
      /\ \A i \in 1..Len(t) : Starts(t)[i + 1] = Starts(t)[i] + RecLen(t[i])
  BY StartsFacts, Zenon
<1>3. 0 \in S
  BY <1>2
<1>4. ASSUME NEW k \in Nat, k \in S PROVE k + 1 \in S
  <2> SUFFICES ASSUME k + 1 <= n PROVE Starts(s)[(k + 1) + 1] = Starts(t)[(k + 1) + 1]
    OBVIOUS
  <2>1. k + 1 \in 1..Len(s) /\ k + 1 \in 1..Len(t) /\ k + 1 \in 1..n
    BY <1>1
  <2>2. Starts(s)[k + 1] = Starts(t)[k + 1]
    BY <1>4
  <2> QED
    BY <1>2, <2>1, <2>2, Zenon
<1> HIDE DEF S
<1>5. Nat \subseteq S
  BY <1>3, <1>4, Induct, Zenon
<1>6. ASSUME NEW i \in 1..(n + 1) PROVE Starts(s)[i] = Starts(t)[i]
  <2>1. i - 1 \in S /\ i - 1 <= n /\ (i - 1) + 1 = i
    BY <1>5
  <2> QED
    BY <2>1, Zenon DEF S
<1> QED
  BY <1>6, Zenon

-----------------------------------------------------------------------------
(* The scan *)

\* One turn of the loop, with the results from the offsets behind.
ScanStep(f, limit, g, off) ==
  IF off >= limit THEN [rc |-> "END", at |-> off, recs |-> << >>]
  ELSE LET s == scan_record(f, off, limit) IN
       IF s.rc # "OK" THEN [rc |-> s.rc, at |-> off, recs |-> << >>]
       ELSE LET rest == g[s.next] IN [rest EXCEPT !.recs = <<s.rec>> \o @]

\* The results of ScanFrom are the ones its recursion says.
LEMMA ScanDef ==
  ASSUME NEW f, Celled(f), NEW limit \in 1..(MaxCells + 1)
  PROVE  ScanFrom(f, limit) =
           [off \in 1..(MaxCells + 1) |-> ScanStep(f, limit, ScanFrom(f, limit), off)]
\* A record that is accepted ends behind its start and not behind the limit.
<1>ScanAdvances.
    ASSUME NEW off \in 1..(MaxCells + 1),
           off < limit, scan_record(f, off, limit).rc = "OK"
    PROVE  scan_record(f, off, limit).next \in (off + 1)..(MaxCells + 1)
  <2> USE <1>ScanAdvances
  <2> DEFINE c == f[off]
             m == off + 1 + c.plen
  <2>1. MaxCells \in Nat
    BY LayoutAssumption, Zenon
  <2>2. off \in Offsets
    BY <2>1 DEF Offsets
  <2>3. c.kind = "rec" => c.plen \in Nat
    BY <2>2, Zenon DEF Celled
  <2> HIDE DEF c
  <2>4. c.kind = "rec" /\ ~(m >= limit)
        /\ scan_record(f, off, limit) = [rc |-> "OK", next |-> m + 1, rec |-> [type |-> c.type, payload |-> c.crc]]
    BY Zenon DEF scan_record, c
  <2>5. scan_record(f, off, limit).next = m + 1
    BY <2>4
  <2>6. c.plen \in Nat
    BY <2>3, <2>4, Zenon
  <2>7. m + 1 \in (off + 1)..(MaxCells + 1)
    BY <2>1, <2>4, <2>6
  <2> QED
    BY <2>5, <2>7, Zenon
\* The loop looks only at results from offsets behind.
<1>ScanLocal.
    ASSUME NEW off \in 1..(MaxCells + 1),
           NEW g, NEW h, \A o \in (off + 1)..(MaxCells + 1) : g[o] = h[o]
    PROVE  ScanStep(f, limit, g, off) = ScanStep(f, limit, h, off)
  <2> USE <1>ScanLocal
  <2> DEFINE s == scan_record(f, off, limit)
  <2>1. CASE off >= limit
    BY <2>1, Zenon DEF ScanStep
  <2>2. CASE off < limit /\ s.rc # "OK"
    BY <2>2, Zenon DEF ScanStep
  <2>3. CASE off < limit /\ s.rc = "OK"
    <3>1. g[s.next] = h[s.next]
      BY <2>3, <1>ScanAdvances, Zenon
    <3> HIDE DEF s
    <3> QED
      BY <2>3, <3>1, Zenon DEF ScanStep, s
  <2>4. MaxCells \in Nat
    BY LayoutAssumption, Zenon
  <2> QED
    BY <2>1, <2>2, <2>3, <2>4
<1> DEFINE K == MaxCells + 1
           Def(n, g) == g = [off \in (K + 1 - n)..K |-> ScanStep(f, limit, g, off)]
           S == {n \in Nat : n <= K => \E g : Def(n, g)}
<1>0. K \in Nat
  BY LayoutAssumption
<1> HIDE DEF K
<1>1. 0 \in S
  <2>1. (K + 1 - 0)..K = {}
    BY <1>0
  <2>2. Def(0, [off \in (K + 1 - 0)..K |-> 1])
    BY <2>1, Zenon
  <2> QED
    BY <2>2, Zenon
<1>2. ASSUME NEW n \in Nat, n \in S PROVE n + 1 \in S
  <2> SUFFICES ASSUME n + 1 <= K PROVE \E g : Def(n + 1, g)
    OBVIOUS
  <2>1. PICK g : Def(n, g)
    BY <1>0, <1>2
  <2> DEFINE b == K - n
             a == ScanStep(f, limit, g, b)
             h == [off \in b..K |-> IF off = b THEN a ELSE g[off]]
  <2>2. b \in 1..K /\ K + 1 - n = b + 1 /\ K + 1 - (n + 1) = b
    BY <1>0
  <2> HIDE DEF b
  <2>3. \A off \in (b + 1)..K : g[off] = ScanStep(f, limit, g, off)
    BY <2>1, <2>2, Zenon
  <2> HIDE DEF a
  <2>4. \A off \in (b + 1)..K : h[off] = g[off]
    BY <1>0, <2>2
  <2>5. h[b] = a
    BY <1>0, <2>2
  <2>6. h = [off \in b..K |-> h[off]]
    BY Zenon
  <2> HIDE DEF h
  <2>7. \A off \in b..K : h[off] = ScanStep(f, limit, h, off)
    <3> TAKE off \in b..K
    <3>1. off \in 1..(MaxCells + 1) /\ \A o \in (off + 1)..(MaxCells + 1) : g[o] = h[o]
      BY <1>0, <2>2, <2>4 DEF K
    <3>2. ScanStep(f, limit, g, off) = ScanStep(f, limit, h, off)
      BY <3>1, <1>ScanLocal, Zenon
    <3>3. CASE off = b
      BY <3>2, <3>3, <2>5, Zenon DEF a
    <3>4. CASE off # b
      <4>1. off \in (b + 1)..K
        BY <3>4, <1>0, <2>2
      <4> QED
        BY <4>1, <3>2, <2>3, <2>4, Zenon
    <3> QED
      BY <3>3, <3>4, Zenon
  <2>8. h = [off \in b..K |-> ScanStep(f, limit, h, off)]
    BY <2>6, <2>7, Zenon
  <2> QED
    BY <2>2, <2>8, Zenon
<1> HIDE DEF S
<1>3. Nat \subseteq S
  BY <1>1, <1>2, Induct, Zenon
<1>4. \E g : Def(K, g)
  <2> HIDE DEF Def
  <2>1. K \in S /\ K <= K
    BY <1>0, <1>3
  <2> QED
    BY <2>1, Zenon DEF S
<1>5. K + 1 - K = 1
  BY <1>0
<1>6. ScanFrom(f, limit) = CHOOSE g : g = [off \in 1..K |-> ScanStep(f, limit, g, off)]
  BY Zenon DEF ScanFrom, ScanStep, K
<1>7. ScanFrom(f, limit) = CHOOSE g : Def(K, g)
  BY <1>5, <1>6, Zenon
<1>8. Def(K, CHOOSE g : Def(K, g))
  <2> HIDE DEF Def
  <2> QED
    BY <1>4, Zenon
<1>9. Def(K, ScanFrom(f, limit))
  <2> HIDE DEF Def
  <2> QED
    BY <1>7, <1>8, Zenon
<1> QED
  BY <1>5, <1>9, Zenon DEF K

\* qdb__scan_record accepts a record that is there and reads it back.
LEMMA ScanRecord ==
  ASSUME NEW f, NEW r \in Records, NEW o \in Nat, NEW limit \in Nat,
         o + RecLen(r) <= limit, HasRec(f, o, r)
  PROVE  scan_record(f, o, limit) = [rc |-> "OK", next |-> o + RecLen(r), rec |-> r]
<1> DEFINE c == f[o]
           m == o + 1 + c.plen
           n == Len(r.payload)
<1>1. r.payload \in Seq(Bytes) /\ n \in Nat /\ RecLen(r) = n + 2
  BY RecLenNat, Zenon DEF RecLen
<1>2. c.kind = "rec" /\ c.plen = n /\ c.type = r.type /\ c.crc = r.payload
  BY DEF HasRec, HasBody, R
<1>3. m = o + RecLen(r) - 1 /\ m + 1 = o + RecLen(r)
  <2>1. PICK k, z, l : k = n /\ z = RecLen(r) /\ l = m
    BY Zenon
  <2>2. k \in Nat /\ z = k + 2 /\ l = o + 1 + k
    BY <1>1, <1>2, <2>1, Zenon
  <2>3. l = o + z - 1 /\ l + 1 = o + z
    BY ONLY <2>2, o \in Nat
  <2> QED
    BY <2>1, <2>3, Zenon
<1>4. f[m] = B(MARKER)
  BY <1>3, Zenon DEF HasRec
<1>5. Contents(f, o, c.plen) = c.crc
  <2>1. \A i \in 1..n : f[o + i] = B(r.payload[i])
    BY Zenon DEF HasRec, HasBody
  <2> DEFINE x(i) == IF f[o + i].kind = "byte" THEN f[o + i].x ELSE 0
  <2>2. Contents(f, o, n) = [i \in 1..n |-> r.payload[i]]
    <3>1. ASSUME NEW i \in 1..n PROVE x(i) = r.payload[i]
      <4>1. PICK b : b = f[o + i]
        BY Zenon
      <4>2. b = B(r.payload[i])
        BY <2>1, <4>1, Zenon
      <4>3. b.kind = "byte" /\ b.x = r.payload[i]
        BY <4>2, Zenon DEF B
      <4> QED
        BY <4>1, <4>3, Zenon
    <3>2. Contents(f, o, n) = [i \in 1..n |-> x(i)]
      BY Zenon DEF Contents
    <3> HIDE DEF x
    <3> QED
      BY <3>1, <3>2, Zenon
  <2>3. r.payload = [i \in 1..n |-> r.payload[i]]
    BY <1>1
  <2> QED
    BY <1>2, <2>2, <2>3, Zenon
<1>6. ~(limit - o < 2) /\ ~(m >= limit)
  BY <1>1, <1>3
<1>7. r.type \in Types /\ r = [type |-> r.type, payload |-> r.payload]
  BY Zenon DEF Records
<1> HIDE DEF c, m, n
<1>8. scan_record(f, o, limit) = [rc |-> "OK", next |-> m + 1, rec |-> [type |-> c.type, payload |-> c.crc]]
  BY <1>2, <1>4, <1>5, <1>6, <1>7, Zenon DEF scan_record, c, m
<1> QED
  BY <1>2, <1>3, <1>7, <1>8, Zenon

\* The scan of a file that holds the records s reads them, up to their end.
LEMMA ScanHolds ==
  ASSUME NEW f, Celled(f), NEW s \in Seq(Records), Holds(f, s), EndOf(s) <= MaxCells + 1
  PROVE  Scan(f, EndOf(s)) = [rc |-> "END", at |-> EndOf(s), recs |-> s]
<1> DEFINE st == Starts(s)
           L == Len(s)
           e == EndOf(s)
           g == ScanFrom(f, e)
           Rest(k) == [i \in 1..k |-> s[L - k + i]]
           S == {k \in Nat : k <= L => g[st[L + 1 - k]] = [rc |-> "END", at |-> e, recs |-> Rest(k)]}
<1>0. MaxCells \in Nat /\ L \in Nat
  BY LayoutAssumption
<1>1. /\ st[1] = 1
      /\ \A i \in 1..L : st[i + 1] = st[i] + RecLen(s[i])
      /\ \A i \in 1..(L + 1) : st[i] \in Nat \ {0}
  BY StartsFacts, Zenon
<1>2. e = st[L + 1]
  BY Zenon DEF EndOf
<1>3. e \in 1..(MaxCells + 1)
  BY <1>0, <1>1, <1>2
<1>4. \A i \in 1..L : st[i] + RecLen(s[i]) <= e /\ s[i] \in Records
  <2> TAKE i \in 1..L
  <2>1. L + 1 \in 1..(L + 1) /\ i < L + 1
    BY <1>0
  <2> QED
    BY <1>2, <2>1, StartsUp
<1>5. g = [off \in 1..(MaxCells + 1) |-> ScanStep(f, e, g, off)]
  BY <1>3, ScanDef, Zenon
<1> HIDE DEF st, e, g
<1>6. 0 \in S
  <2>1. e \in 1..(MaxCells + 1) /\ e >= e
    BY <1>3
  <2>2. g[e] = [rc |-> "END", at |-> e, recs |-> << >>]
    BY <2>1, <1>5, Zenon DEF ScanStep
  <2>3. Rest(0) = << >>
    OBVIOUS
  <2>4. L + 1 - 0 = L + 1
    BY <1>0
  <2> HIDE DEF L
  <2> QED
    BY <1>2, <2>2, <2>3, <2>4, Zenon
<1>7. ASSUME NEW k \in Nat, k \in S PROVE k + 1 \in S
  <2> SUFFICES ASSUME k + 1 <= L
               PROVE  g[st[L + 1 - (k + 1)]] = [rc |-> "END", at |-> e, recs |-> Rest(k + 1)]
    OBVIOUS
  <2> DEFINE i == L - k
             o == st[i]
             r == s[i]
  <2>1. i \in 1..L /\ L + 1 - (k + 1) = i /\ L + 1 - k = i + 1 /\ i \in 1..(L + 1)
    BY <1>0
  <2>2. g[st[i + 1]] = [rc |-> "END", at |-> e, recs |-> Rest(k)]
    BY <1>0, <1>7, <2>1
  <2> HIDE DEF i
  <2>3. o \in Nat \ {0} /\ r \in Records /\ o + RecLen(r) <= e /\ st[i + 1] = o + RecLen(r)
    BY <1>1, <1>4, <2>1, Zenon
  <2>4. HasRec(f, o, r)
    BY <2>1, Zenon DEF Holds, st
  <2>5. RecLen(r) \in Nat /\ RecLen(r) >= 2
    BY <2>3, RecLenNat, Zenon
  <2>6. o \in 1..(MaxCells + 1) /\ o < e /\ e \in Nat
    BY <1>0, <1>3, <2>3, <2>5, SMTT(30)
  <2>7. scan_record(f, o, e) = [rc |-> "OK", next |-> o + RecLen(r), rec |-> r]
    BY <2>3, <2>4, <2>6, ScanRecord
  <2> HIDE DEF o, r
  <2>8. g[o] = ScanStep(f, e, g, o)
    BY <1>5, <2>6, Zenon
  <2>9. ScanStep(f, e, g, o) = [g[o + RecLen(r)] EXCEPT !.recs = <<r>> \o @]
    BY <2>6, <2>7 DEF ScanStep
  <2>10. ScanStep(f, e, g, o) = [rc |-> "END", at |-> e, recs |-> <<r>> \o Rest(k)]
    <3> HIDE DEF Rest
    <3>1. g[o + RecLen(r)] = [rc |-> "END", at |-> e, recs |-> Rest(k)]
      BY <2>2, <2>3, Zenon
    <3> DEFINE y == [rc |-> "END", at |-> e, recs |-> Rest(k)]
    <3>2. [y EXCEPT !.recs = <<r>> \o @] = [y EXCEPT !.recs = <<r>> \o Rest(k)]
      BY Zenon
    <3>3. \A z : [y EXCEPT !.recs = z] = [rc |-> "END", at |-> e, recs |-> z]
      OBVIOUS
    <3> HIDE DEF y
    <3>4. ScanStep(f, e, g, o) = [y EXCEPT !.recs = <<r>> \o @]
      BY <2>9, <3>1, Zenon DEF y
    <3> QED
      BY <3>2, <3>3, <3>4, Zenon
  <2>11. <<r>> \o Rest(k) = Rest(k + 1)
    <3>1. Rest(k) \in Seq(Records) /\ <<r>> \in Seq(Records) /\ Rest(k + 1) \in Seq(Records)
      <4>1. \A n \in 1..k : L - k + n \in 1..L
        BY <1>0
      <4>2. \A n \in 1..(k + 1) : L - (k + 1) + n \in 1..L
        BY <1>0
      <4>3. \A n \in 1..L : s[n] \in Records
        OBVIOUS
      <4> HIDE DEF L
      <4> QED
        BY <2>3, <4>1, <4>2, <4>3, SMTT(60)
    <3>2. Len(<<r>> \o Rest(k)) = k + 1 /\ Len(Rest(k + 1)) = k + 1 /\ Len(Rest(k)) = k
      BY <3>1
    <3>3. ASSUME NEW n \in 1..(k + 1) PROVE (<<r>> \o Rest(k))[n] = Rest(k + 1)[n]
      <4>1. (<<r>> \o Rest(k))[n] = IF n <= 1 THEN <<r>>[n] ELSE Rest(k)[n - 1]
        <5>1. Len(<<r>>) = 1
          BY Zenon
        <5> HIDE DEF Rest
        <5> QED
          BY <3>1, <3>2, <5>1
      <4>2. CASE n = 1
        <5>1. L - (k + 1) + 1 = i
          BY <1>0 DEF i
        <5> QED
          BY <4>1, <4>2, <5>1 DEF r
      <4>3. CASE n # 1
        <5>1. n - 1 \in 1..k /\ L - k + (n - 1) = L - (k + 1) + n /\ ~(n <= 1)
          BY <4>3, <1>0
        <5> QED
          BY <4>1, <5>1, Zenon
      <4> QED
        BY <4>2, <4>3, Zenon
    <3>4. /\ <<r>> \o Rest(k) \in Seq(Records)
          /\ Rest(k + 1) \in Seq(Records)
      <4> HIDE DEF Rest
      <4> QED
        BY <3>1
    <3> HIDE DEF Rest
    <3> DEFINE u == <<r>> \o Rest(k)
               v == Rest(k + 1)
    <3>5. u \in Seq(Records) /\ v \in Seq(Records) /\ Len(u) = Len(v) /\ \A n \in 1..Len(u) : u[n] = v[n]
      BY <3>2, <3>3, <3>4, Zenon
    <3> HIDE DEF u, v
    <3>6. u = v
      BY <3>5
    <3> QED
      BY <3>6, Zenon DEF u, v
  <2> HIDE DEF Rest, L
  <2> QED
    BY <2>1, <2>8, <2>10, <2>11, Zenon DEF o
<1> HIDE DEF S
<1>8. Nat \subseteq S
  BY <1>6, <1>7, Induct, Zenon
<1>9. g[st[1]] = [rc |-> "END", at |-> e, recs |-> Rest(L)]
  <2>1. L \in S /\ L <= L /\ L + 1 - L = 1
    BY <1>0, <1>8
  <2> HIDE DEF L, Rest
  <2> QED
    BY <2>1, Zenon DEF S
<1>10. Rest(L) = s
  <2>1. \A i \in 1..L : L - L + i = i
    BY <1>0
  <2>2. Rest(L) = [i \in 1..L |-> s[i]]
    BY <2>1, Zenon
  <2>3. s = [i \in 1..L |-> s[i]]
    OBVIOUS
  <2> QED
    BY <2>2, <2>3, Zenon
<1> HIDE DEF Rest, L
<1> QED
  BY <1>1, <1>9, <1>10, Zenon DEF Scan, g, e

-----------------------------------------------------------------------------
(* What changes of the log and of a file do to the records *)

\* The first n records of s: where they start and end.
LEMMA Cut ==
  ASSUME NEW s \in Seq(Records), NEW n \in 0..Len(s)
  PROVE  LET t == SubSeq(s, 1, n) IN
         /\ t \in Seq(Records) /\ Len(t) = n /\ \A i \in 1..n : t[i] = s[i]
         /\ \A i \in 1..(n + 1) : Starts(t)[i] = Starts(s)[i]
         /\ EndOf(t) = Starts(s)[n + 1] /\ EndOf(t) \in Nat \ {0} /\ EndOf(t) <= EndOf(s)
         /\ \A f : Holds(f, s) => Holds(f, t)
<1> DEFINE t == SubSeq(s, 1, n)
<1>1. Len(s) \in Nat /\ n \in Nat /\ n <= Len(s)
  OBVIOUS
<1>2. t \in Seq(Records) /\ Len(t) = n /\ \A i \in 1..n : t[i] = s[i]
  <2>1. \A i \in 1..n : s[i] \in Records
    BY <1>1
  <2>2. /\ SubSeq(s, 1, n) \in Seq(Records)
        /\ Len(SubSeq(s, 1, n)) = IF 1 <= n THEN n - 1 + 1 ELSE 0
        /\ \A i \in 1..(n - 1 + 1) : SubSeq(s, 1, n)[i] = s[1 + i - 1]
    BY <1>1, <2>1
  <2>3. n - 1 + 1 = n /\ \A i \in 1..n : 1 + i - 1 = i
    BY <1>1
  <2> HIDE DEF t
  <2> QED
    BY <1>1, <2>2, <2>3 DEF t
<1> HIDE DEF t
<1>3. \A i \in 1..(n + 1) : Starts(t)[i] = Starts(s)[i]
  BY <1>1, <1>2, StartsAlike
<1>4. EndOf(t) = Starts(s)[n + 1]
  BY <1>1, <1>2, <1>3 DEF EndOf
<1>5. EndOf(t) \in Nat \ {0} /\ EndOf(s) \in Nat
  BY <1>1, <1>4, StartsFacts DEF EndOf
<1>6. EndOf(t) <= EndOf(s)
  <2>1. CASE n = Len(s)
    BY <2>1, <1>4, <1>5 DEF EndOf
  <2>2. CASE n < Len(s)
    <3>1. n + 1 \in 1..Len(s) /\ Len(s) + 1 \in 1..(Len(s) + 1) /\ n + 1 < Len(s) + 1
      BY <2>2, <1>1
    <3>2. Starts(s)[n + 1] + RecLen(s[n + 1]) <= EndOf(s)
      BY <3>1, StartsUp, Zenon DEF EndOf
    <3>3. s[n + 1] \in Records
      BY <3>1
    <3>4. RecLen(s[n + 1]) \in Nat
      BY <3>3, RecLenNat, Zenon
    <3> QED
      BY <3>2, <3>4, <1>4, <1>5
  <2> QED
    BY <1>1, <2>1, <2>2
<1>7. ASSUME NEW f, Holds(f, s) PROVE Holds(f, t)
  <2> SUFFICES ASSUME NEW i \in 1..n PROVE HasRec(f, Starts(t)[i], t[i])
    BY <1>2, Zenon DEF Holds
  <2>1. i \in 1..Len(s) /\ i \in 1..(n + 1)
    BY <1>1
  <2>2. HasRec(f, Starts(s)[i], s[i])
    BY <1>7, <2>1, Zenon DEF Holds
  <2> QED
    BY <1>2, <1>3, <2>1, <2>2, Zenon
<1> QED
  BY <1>2, <1>3, <1>4, <1>5, <1>6, <1>7, Zenon DEF t

\* The records up to an offset are the first ones, and no other ends there.
LEMMA UptoCut ==
  ASSUME NEW s \in Seq(Records), NEW e \in Nat
  PROVE  \E n \in 0..Len(s) : /\ Upto(s, e) = SubSeq(s, 1, n)
                              /\ \A i \in 1..Len(s) : i <= n <=> Starts(s)[i + 1] <= e
<1> DEFINE st == Starts(s)
           Fits(n) == \A i \in 1..Len(s) : i <= n <=> st[i + 1] <= e
           T == {j \in 1..(Len(s) + 1) : j = Len(s) + 1 \/ ~(st[j + 1] <= e)}
<1>1. Len(s) \in Nat
  OBVIOUS
<1>2. \A i \in 1..(Len(s) + 1) : st[i] \in Nat
  BY StartsFacts, Zenon
<1>3. PICK m \in T : \A j \in T : m <= j
  <2>1. T \subseteq Nat /\ Len(s) + 1 \in T
    BY <1>1
  <2> QED
    BY <2>1, LeastNat, Zenon
<1>4. PICK n : n = m - 1
  BY Zenon
<1>5. n \in 0..Len(s) /\ m \in 1..(Len(s) + 1) /\ n < m
  BY <1>1, <1>4
<1>6. ASSUME NEW i \in 1..Len(s) PROVE i <= n <=> st[i + 1] <= e
  <2>1. i \in 1..(Len(s) + 1) /\ i # Len(s) + 1 /\ i + 1 \in 1..(Len(s) + 1)
    BY <1>1
  <2>2. CASE i <= n
    <3>1. ~(m <= i)
      BY <1>4, <1>5, <2>2
    <3>2. i \notin T
      BY <1>3, <3>1, Zenon
    <3> QED
      BY <2>1, <2>2, <3>2, Zenon
  <2>3. CASE ~(i <= n)
    <3>1. m <= i /\ m \in 1..Len(s) /\ m + 1 \in 1..(Len(s) + 1)
      BY <1>1, <1>4, <1>5, <2>3
    <3>2. ~(st[m + 1] <= e)
      BY <1>1, <3>1
    <3>3. st[m + 1] <= st[i + 1]
      <4>1. CASE m = i
        BY <1>2, <3>1, <4>1
      <4>2. CASE m # i
        <5>1. m + 1 \in 1..Len(s) /\ m + 1 < i + 1
          BY <1>1, <3>1, <4>2
        <5>2. s[m + 1] \in Records
          BY <5>1
        <5>3. st[m + 1] + RecLen(s[m + 1]) <= st[i + 1] /\ RecLen(s[m + 1]) \in Nat
          BY <2>1, <5>1, <5>2, StartsUp, RecLenNat, Zenon
        <5>4. st[m + 1] \in Nat /\ st[i + 1] \in Nat
          BY <1>2, <2>1, <3>1, Zenon
        <5> QED
          BY <5>3, <5>4
      <4> QED
        BY <4>1, <4>2, Zenon
    <3>4. st[m + 1] \in Nat /\ st[i + 1] \in Nat
      BY <1>2, <2>1, <3>1, Zenon
    <3> QED
      BY <2>3, <3>2, <3>3, <3>4
  <2> QED
    BY <2>2, <2>3, Zenon
<1> HIDE DEF T
<1>7. Fits(n)
  BY <1>6, Zenon
<1>8. PICK k : k = CHOOSE j \in 0..Len(s) : Fits(j)
  BY Zenon
<1> HIDE DEF Fits
<1>9. k \in 0..Len(s) /\ Fits(k)
  BY <1>5, <1>7, <1>8, Zenon
<1>10. Upto(s, e) = SubSeq(s, 1, k)
  BY <1>8, Zenon DEF Upto, Fits
<1> QED
  BY <1>9, <1>10, Zenon DEF Fits

\* Where a record ends, exactly the records up to it end at or before.
LEMMA UptoEnd ==
  ASSUME NEW s \in Seq(Records), NEW n \in 0..Len(s)
  PROVE  Upto(s, Starts(s)[n + 1]) = SubSeq(s, 1, n)
<1> DEFINE st == Starts(s)
<1>1. Len(s) \in Nat /\ n \in Nat /\ n <= Len(s) /\ DOMAIN s = 1..Len(s)
  OBVIOUS
<1>2. \A i \in 1..(Len(s) + 1) : st[i] \in Nat
  BY StartsFacts, Zenon
<1>3. ASSUME NEW i \in 1..Len(s) PROVE st[i + 1] <= st[n + 1] <=> i <= n
  <2>0. i + 1 \in 1..(Len(s) + 1) /\ n + 1 \in 1..(Len(s) + 1)
    BY <1>1
  <2>00. st[i + 1] \in Nat /\ st[n + 1] \in Nat
    BY <1>2, <2>0, Zenon
  <2>1. CASE i = n
    BY <2>1, <2>00
  <2>2. CASE i < n
    <3>1. i + 1 \in 1..Len(s) /\ i + 1 < n + 1
      BY <2>2, <1>1
    <3>2. s[i + 1] \in Records
      BY <3>1
    <3>3. st[i + 1] + RecLen(s[i + 1]) <= st[n + 1] /\ RecLen(s[i + 1]) \in Nat
      BY <2>0, <3>1, <3>2, StartsUp, RecLenNat, Zenon
    <3> QED
      BY <3>3, <2>2, <2>00, <1>1
  <2>3. CASE i > n
    <3>1. n + 1 \in 1..Len(s) /\ n + 1 < i + 1
      BY <2>3, <1>1
    <3>2. s[n + 1] \in Records
      BY <3>1
    <3>3. st[n + 1] + RecLen(s[n + 1]) <= st[i + 1] /\ RecLen(s[n + 1]) \in Nat /\ RecLen(s[n + 1]) >= 2
      BY <2>0, <3>1, <3>2, StartsUp, RecLenNat, Zenon
    <3> QED
      BY <3>3, <2>3, <2>00, <1>1, SMTT(30)
  <2> QED
    BY <1>1, <2>1, <2>2, <2>3
<1> HIDE DEF st
<1>4. PICK k \in 0..Len(s) : /\ Upto(s, st[n + 1]) = SubSeq(s, 1, k)
                             /\ \A i \in 1..Len(s) : i <= k <=> st[i + 1] <= st[n + 1]
  <2>1. st[n + 1] \in Nat
    BY <1>1, <1>2
  <2> QED
    BY <2>1, UptoCut, Zenon DEF st
<1>5. \A i \in 1..Len(s) : i <= k <=> i <= n
  BY <1>3, <1>4, Zenon
<1>6. k = n
  BY <1>1, <1>5
<1> QED
  BY <1>4, <1>6, Zenon DEF st

\* The records of a log are found in every file with the same cells below its end.
LEMMA SameHolds ==
  ASSUME NEW s \in Seq(Records), NEW f, NEW h, Holds(f, s),
         \A x \in 1..(EndOf(s) - 1) : f[x] = h[x]
  PROVE  Holds(h, s)
\* A record is found in every file that has the same cells there.
<1>SameRec.
    ASSUME NEW r \in Records, NEW o \in Nat,
           \A x \in o..(o + RecLen(r) - 1) : f[x] = h[x], HasRec(f, o, r)
    PROVE  HasRec(h, o, r)
  <2> USE <1>SameRec
  <2>1. Len(r.payload) \in Nat /\ RecLen(r) = Len(r.payload) + 2
    BY RecLenNat, Zenon DEF RecLen
  <2>2. o \in o..(o + RecLen(r) - 1) /\ o + RecLen(r) - 1 \in o..(o + RecLen(r) - 1)
        /\ \A k \in 1..Len(r.payload) : o + k \in o..(o + RecLen(r) - 1)
    BY <2>1, SMTT(60)
  <2>3. h[o] = f[o] /\ h[o + RecLen(r) - 1] = f[o + RecLen(r) - 1]
        /\ \A k \in 1..Len(r.payload) : h[o + k] = f[o + k]
    BY <2>2, Zenon
  <2> QED
    BY <2>3, Zenon DEF HasRec, HasBody
<1> SUFFICES ASSUME NEW i \in 1..Len(s) PROVE HasRec(h, Starts(s)[i], s[i])
  BY Zenon DEF Holds
<1>0. PICK o, r : o = Starts(s)[i] /\ r = s[i]
  BY Zenon
<1>1. Len(s) \in Nat /\ r \in Records
  BY <1>0
<1>2. i \in 1..(Len(s) + 1) /\ Len(s) + 1 \in 1..(Len(s) + 1) /\ i < Len(s) + 1
  BY <1>1
<1>3. o \in Nat \ {0} /\ EndOf(s) \in Nat /\ o + RecLen(r) <= EndOf(s)
  BY <1>0, <1>2, StartsFacts, StartsUp, Zenon DEF EndOf
<1>4. RecLen(r) \in Nat
  BY <1>1, RecLenNat, Zenon
<1>5. \A x \in o..(o + RecLen(r) - 1) : x \in 1..(EndOf(s) - 1)
  BY <1>3, <1>4
<1>6. HasRec(f, o, r)
  BY <1>0, Zenon DEF Holds
<1> QED
  BY <1>0, <1>1, <1>3, <1>5, <1>6, <1>SameRec, Zenon

-----------------------------------------------------------------------------
(* A log and a file that stay as they are *)

\* The end of the log is an offset of the file, or the one behind it.
LEMMA LogEnd ==
  ASSUME FileInv
  PROVE  EndOf(log) \in 1..(MaxCells + 1) /\ Len(log) \in Nat /\ MaxCells \in Nat
<1>1. log \in Seq(Records) /\ EndOf(log) <= MaxCells + 1
  BY Zenon DEF FileInv
<1>2. Len(log) \in Nat /\ MaxCells \in Nat
  BY <1>1, LayoutAssumption
<1>3. EndOf(log) \in Nat \ {0}
  BY <1>1, <1>2, StartsFacts, SMTT(60) DEF EndOf
<1> QED
  BY <1>1, <1>2, <1>3

\* A file that is not touched.
LEMMA FileKept ==
  ASSUME FileInv, UNCHANGED <<file, log, durable>>, Sound' => Sound
  PROVE  FileInv'
<1>1. UNCHANGED <<cache, media, dirty, exists, log, durable>>
  BY Zenon DEF file
<1>2. Covering(cache[0])' /\ Covering(media[0])'
  BY <1>1, ZenonT(40) DEF FileInv, Covering
<1> QED
  BY <1>1, <1>2, Zenon DEF FileInv, Celled, Holds

\* The cells that a step may put in the place of the header.
LEMMA SameCover ==
  ASSUME NEW c, Covering(c), UNCHANGED <<log, durable>>
  PROVE  Covering(c)'
BY Zenon DEF Covering

-----------------------------------------------------------------------------
(* The actions *)

\* A step of the program that leaves the WAL file and refuses nothing.
LEMMA ProgramStep ==
  ASSUME ProgramInv, pc' # "down" => exists' /\ end' = EndOf(log'),
         flags' \subseteq {"DIRTY", "WAL_PRESENT"}, Appending',
         UNCHANGED wal, walpos' \in Nat \ {0}, rc' # "CORRUPT"
  PROVE  ProgramInv'
BY Zenon DEF ProgramInv

\* Nothing is said of a program that is neither appending nor updating the header.
LEMMA NotAppending ==
  ASSUME pc' \notin {"body", "sync body", "marker", "sync marker", "sync header"}
  PROVE  Appending'
BY Zenon DEF Appending

\* An open handle was not refused.
LEMMA OpenHandle ==
  ASSUME Laid, pc # "down"
  PROVE  /\ FileInv /\ exists /\ end = EndOf(log) /\ rc # "CORRUPT"
         /\ flags \subseteq {"DIRTY", "WAL_PRESENT"} /\ walpos \in Nat \ {0} /\ ProgramInv
         /\ end \in 1..(MaxCells + 1) /\ MaxCells \in Nat
<1>1. FileInv /\ end = EndOf(log)
  BY Zenon DEF Laid, ProgramInv
<1>2. EndOf(log) \in 1..(MaxCells + 1) /\ MaxCells \in Nat
  BY <1>1, LogEnd, Zenon
<1> QED
  BY <1>1, <1>2, Zenon DEF Laid, ProgramInv

\* The cells of the body of a record: its header and the bytes of its payload.
LEMMA BodyCells ==
  ASSUME NEW r \in Records
  PROVE  /\ Len(Body(r)) = Len(r.payload) + 1 /\ Len(r.payload) \in Nat
         /\ Body(r)[1] = R(r.type, Len(r.payload), r.payload)
         /\ \A k \in 1..Len(r.payload) : Body(r)[k + 1] = B(r.payload[k])
<1>1. r.payload \in Seq(Bytes) /\ Len(r.payload) \in Nat /\ DOMAIN r.payload = 1..Len(r.payload)
  BY RecLenNat
<1>2. PICK n \in Nat : n = Len(r.payload)
  BY <1>1, Zenon
<1>3. PICK c : c = R(r.type, Len(r.payload), r.payload)
  BY Zenon
<1> DEFINE b == [i \in 1..n |-> B(r.payload[i])]
           S == {c} \cup {B(r.payload[i]) : i \in 1..n}
<1>4. Body(r) = <<c>> \o b
  BY <1>1, <1>2, <1>3, Zenon DEF Body
<1>5. <<c>> \in Seq(S) /\ b \in Seq(S) /\ Len(b) = n /\ Len(<<c>>) = 1
  <2>1. b \in [1..n -> S]
    BY Zenon
  <2>2. b \in Seq(S) /\ Len(b) = n
    BY <2>1
  <2> QED
    BY <2>2
<1>6. \A i \in 1..n : b[i] = B(r.payload[i])
  BY Zenon
<1> HIDE DEF b, S
<1>7. PICK x : x = <<c>> \o b
  BY Zenon
<1>8. Len(x) = 1 + n /\ \A i \in 1..(1 + n) : x[i] = IF i <= 1 THEN <<c>>[i] ELSE b[i - 1]
  BY <1>5, <1>7
<1>9. x[1] = c
  BY <1>8
<1>10. ASSUME NEW k \in 1..n PROVE x[k + 1] = B(r.payload[k])
  <2>1. k + 1 \in 1..(1 + n) /\ ~(k + 1 <= 1) /\ (k + 1) - 1 = k
    OBVIOUS
  <2> QED
    BY <1>6, <1>8, <2>1, Zenon
<1> QED
  BY <1>2, <1>3, <1>4, <1>7, <1>8, <1>9, <1>10, SMTT(60)

\* Steps of qdb_open and qdb_close that change neither the file nor the log.
LEMMA QuietKeeps ==
  ASSUME Laid, pc # "down", UNCHANGED <<file, end, log, durable, walpos, wal>>,
         happened' = happened, rc' # "CORRUPT", flags' \subseteq {"DIRTY", "WAL_PRESENT"},
         pc' \in {"idle", "truncate", "write header", "validate", "replay", "down"}
         \/ (pc' = "body" /\ rec' \in Records /\ end + RecLen(rec') <= MaxCells + 1)
  PROVE  Laid'
<1>1. /\ FileInv /\ exists /\ end = EndOf(log)
      /\ walpos \in Nat \ {0} /\ ProgramInv
  BY OpenHandle, Zenon
<1>2. FileInv'
  BY <1>1, FileKept, Zenon DEF Sound
<1>3. exists' /\ end' = EndOf(log')
  BY <1>1, Zenon DEF file
<1>4. Appending'
  <2>1. CASE pc' = "body"
    BY <2>1, Zenon DEF Appending
  <2>2. CASE pc' # "body"
    BY <2>2, NotAppending, Zenon
  <2> QED
    BY <2>1, <2>2, Zenon
<1>5. ProgramInv'
  BY <1>1, <1>3, <1>4, ProgramStep, ZenonT(40)
<1> QED
  BY <1>2, <1>5, Zenon DEF Laid

\* What an undamaged file reads back: the log, whole.
LEMMA LogReadsBack ==
  ASSUME FileInv
  PROVE  Scan(cache, EndOf(log)) = [rc |-> "END", at |-> EndOf(log), recs |-> log]
BY ScanHolds, Zenon DEF FileInv

\* validate_log finds nothing to refuse and nothing to cut.
LEMMA ValidateKeeps ==
  ASSUME Laid, validate_log
  PROVE  Laid' /\ happened' = happened
<1>0. /\ FileInv /\ exists /\ end = EndOf(log) /\ rc # "CORRUPT"
      /\ walpos \in Nat \ {0} /\ ProgramInv /\ flags \subseteq {"DIRTY", "WAL_PRESENT"}
  BY OpenHandle, Zenon DEF validate_log
<1>1. Scan(cache, end).rc = "END"
  BY <1>0, LogReadsBack, SMTT(60)
<1>2. /\ pc = "validate" /\ pc' = "replay" /\ UNCHANGED <<file, end, log, durable, happened, rc>>
      /\ UNCHANGED <<flags, wal, walpos>>
  BY <1>1, Zenon DEF validate_log, history, waldata
<1> QED
  BY <1>0, <1>2, QuietKeeps, Zenon

\* What happened is not forgotten, except for what a header update mends.
LEMMA Remembers ==
  ASSUME Next, ~Damage
  PROVE  happened \subseteq happened' \cup {"unfinished", "torn"}
<1>1. CASE OpenNew \/ OpenOld \/ replay_wal \/ WalUnread \/ DeleteWal
  BY <1>1, ZenonT(40) DEF OpenNew, OpenOld, replay_wal, WalUnread, DeleteWal, history
<1>2. CASE TruncateTail \/ validate_log \/ ReplayLog \/ OpenFails \/ qdb_close
  BY <1>2, ZenonT(40) DEF TruncateTail, validate_log, ReplayLog, OpenFails, qdb_close, history
<1>3. CASE (\E r \in Records : AppendRecord(r)) \/ WriteBody \/ SyncBody \/ WriteMarker \/ SyncMarker
  BY <1>3, Zenon DEF AppendRecord, WriteBody, SyncBody, WriteMarker, SyncMarker, history
<1>4. CASE WriteHeader \/ SyncHeader \/ Kill \/ PowerLoss \/ WalAppears
  BY <1>4, Zenon DEF WriteHeader, SyncHeader, Kill, PowerLoss, WalAppears, history
<1> QED
  BY <1>1, <1>2, <1>3, <1>4, Zenon DEF Next

\* Only validate_log cuts a log.
LEMMA CutByValidation ==
  ASSUME Next, ~Damage, ~validate_log, "cut" \notin happened
  PROVE  "cut" \notin happened'
<1>1. CASE OpenNew \/ OpenOld \/ replay_wal
  <2>1. happened' = happened \/ happened' = happened \cup {"unfinished"}
    BY <1>1, Zenon DEF OpenNew, OpenOld, replay_wal, history
  <2> QED
    BY <2>1
<1>5. CASE WalUnread \/ DeleteWal
  <2>1. \/ happened' = happened \/ happened' = happened \cup {"walunread"}
        \/ happened' = happened \cup {"walkept"}
    BY <1>5, Zenon DEF WalUnread, DeleteWal
  <2> QED
    BY <2>1
<1>2. CASE TruncateTail \/ ReplayLog \/ OpenFails \/ qdb_close
  BY <1>2, ZenonT(40) DEF TruncateTail, ReplayLog, OpenFails, qdb_close, history
<1>3. CASE (\E r \in Records : AppendRecord(r)) \/ WriteBody \/ SyncBody \/ WriteMarker \/ SyncMarker
  BY <1>3, Zenon DEF AppendRecord, WriteBody, SyncBody, WriteMarker, SyncMarker, history
<1>4. CASE WriteHeader \/ SyncHeader \/ WalAppears
  <2>1. \/ happened' = happened \/ happened' = happened \cup {"torn"}
        \/ happened' = happened \ {"unfinished", "torn"}
    BY <1>4, Zenon DEF WriteHeader, SyncHeader, WalAppears, history
  <2> QED
    BY <2>1
<1>6. CASE Kill \/ PowerLoss
  <2>1. happened' \subseteq happened \cup Left \cup {"torn"}
    BY <1>6, Zenon DEF Kill, PowerLoss
  <2>2. "cut" \notin Left
    BY Zenon DEF Left
  <2> QED
    BY <2>1, <2>2, Zenon
<1> QED
  BY <1>1, <1>2, <1>3, <1>4, <1>5, <1>6, Zenon DEF Next

\* Every step but damage leaves the file laid out.
LEMMA StepKeepsLaid == Laid /\ Next /\ ~Damage => Laid'
\* A write or a truncation behind the log.
<1>TailChanged.
    ASSUME FileInv, exists, UNCHANGED <<media, exists, log, durable, happened>>,
           Celled(cache'), \A x \in 0..(EndOf(log) - 1) : cache'[x] = cache[x],
           dirty' \subseteq Nat, \A x \in dirty' : x \in dirty \/ x >= EndOf(log)
    PROVE  FileInv'
  <2> USE <1>TailChanged
  <2>0. EndOf(log) \in 1..(MaxCells + 1) /\ log \in Seq(Records)
    BY LogEnd, Zenon DEF FileInv
  <2>1. cache'[0] = cache[0] /\ \A x \in 1..(EndOf(log) - 1) : cache[x] = cache'[x]
    BY <2>0, LayoutAssumption, SMTT(60)
  <2>2. Holds(cache', log)
    BY <2>0, <2>1, SameHolds, Zenon DEF FileInv
  <2>3. Covering(cache'[0]) /\ Covering(media'[0])
    BY <2>1, Zenon DEF FileInv
  <2>4. Holds(cache, log)' /\ Holds(media, log)'
    BY <2>2, Zenon DEF FileInv, Holds
  <2>5. Celled(cache)' /\ Celled(media)'
    <3>1. Celled(media)
      BY Zenon DEF FileInv
    <3>2. Celled(cache)'
      BY Zenon DEF Celled
    <3> QED
      BY <3>1, <3>2, Zenon DEF Celled
  <2>6. Covering(cache[0])' /\ Covering(media[0])'
    BY <2>3, SameCover, Zenon
  <2>7. (\A o \in dirty : o = 0 \/ o >= EndOf(log))'
    BY Zenon DEF FileInv
  <2>8. /\ (cache[0].kind = "hdr" /\ media[0].kind = "hdr" => media[0].end <= cache[0].end)'
        /\ (Sound => cache[0].kind = "hdr" /\ media[0].kind = "hdr")'
    BY <2>1, Zenon DEF FileInv, Sound
  <2>9. (log \in Seq(Records) /\ durable \in 0..Len(log) /\ EndOf(log) <= MaxCells + 1)'
    BY Zenon DEF FileInv
  <2> QED
    BY <2>4, <2>5, <2>6, <2>7, <2>8, <2>9, Zenon DEF FileInv
\* A sync, or a part of one, and what a program reads afterwards.  The header
\* is the cached one or the one that was on the media.
<1>MediaChanged.
    ASSUME FileInv, exists, UNCHANGED <<log, durable>>, Sound' => Sound,
           exists' \/ (exists' = FALSE /\ cache' = Blank /\ media' = Blank),
           Celled(media'), \A x \in 1..(EndOf(log) - 1) : media'[x] = media[x],
           media'[0] \in {cache[0], media[0]} \/ (~Sound' /\ media'[0].kind # "hdr"),
           cache' = cache \/ cache' = media', dirty' = {}
    PROVE  FileInv'
  <2> USE <1>MediaChanged
  <2>0. EndOf(log) \in 1..(MaxCells + 1) /\ log \in Seq(Records)
    BY LogEnd, Zenon DEF FileInv
  <2>1. Holds(media', log)
    BY <2>0, SameHolds, Zenon DEF FileInv
  <2>2. Holds(cache', log)
    BY <2>1, Zenon DEF FileInv
  <2>3. Holds(cache, log)' /\ Holds(media, log)'
    BY <2>1, <2>2, Zenon DEF Holds
  <2>4. Celled(cache)' /\ Celled(media)'
    BY Zenon DEF FileInv, Celled
  <2>5. Covering(cache[0]) /\ Covering(media[0])
    BY Zenon DEF FileInv
  <2>6. media'[0].kind # "hdr" => Covering(media'[0])
    BY Zenon DEF Covering
  <2>7. Covering(media'[0])
    BY <2>5, <2>6, Zenon
  <2>8. Covering(cache'[0])
    BY <2>5, <2>7, Zenon
  <2>9. Covering(cache[0])' /\ Covering(media[0])'
    BY <2>7, <2>8, SameCover, Zenon
  <2>10. (IF exists THEN Sound => cache[0].kind = "hdr" /\ media[0].kind = "hdr"
          ELSE cache = Blank /\ media = Blank)'
    <3>1. Sound => cache[0].kind = "hdr" /\ media[0].kind = "hdr"
      BY Zenon DEF FileInv
    <3> QED
      BY <3>1, Zenon
  <2>11. (cache[0].kind = "hdr" /\ media[0].kind = "hdr" => media[0].end <= cache[0].end)'
    <3>1. cache[0].kind = "hdr" /\ media[0].kind = "hdr" => media[0].end <= cache[0].end
      BY Zenon DEF FileInv
    <3>2. media'[0].kind = "hdr" => media'[0].end \in Nat
      <4>1. SUFFICES ASSUME media'[0].kind = "hdr" PROVE media'[0].end \in Nat
        BY Zenon
      <4>2. PICK n \in durable..Len(log), fl \in SUBSET {"DIRTY", "WAL_PRESENT"} : media'[0] = H(Starts(log)[n + 1], fl)
        BY <2>7, <4>1, Zenon DEF Covering
      <4>3. durable \in Nat /\ Len(log) \in Nat
        BY LogEnd, SMTT(60) DEF FileInv
      <4>4. n + 1 \in 1..(Len(log) + 1)
        BY <4>3
      <4> QED
        BY <2>0, <4>2, <4>4, StartsFacts, SMTT(60) DEF H
    <3>3. CASE cache'[0] = media'[0]
      BY <3>2, <3>3, SMTT(60)
    <3>4. CASE cache' = cache /\ media'[0] = media[0]
      BY <3>1, <3>4, Zenon
    <3>5. CASE media'[0].kind # "hdr"
      BY <3>5, Zenon
    <3>6. CASE cache' = cache /\ media'[0] = cache[0]
      BY <3>3, <3>6, Zenon
    <3> QED
      BY <3>3, <3>4, <3>5, <3>6, Zenon
  <2>12. (dirty \subseteq Nat /\ \A o \in dirty : o = 0 \/ o >= EndOf(log))'
    BY Zenon
  <2>13. (log \in Seq(Records) /\ durable \in 0..Len(log) /\ EndOf(log) <= MaxCells + 1)'
    BY Zenon DEF FileInv
  <2> QED
    BY <2>3, <2>4, <2>9, <2>10, <2>11, <2>12, <2>13, Zenon DEF FileInv
\* qdb__pwrite behind the log.
<1>WriteKeeps.
    ASSUME FileInv, exists, UNCHANGED <<log, durable, happened>>,
           NEW off \in Nat, NEW n \in Nat, NEW cells, off >= EndOf(log), Write(off, cells, n),
           CellsOK(cells, n)
    PROVE  FileInv'
  <2> USE <1>WriteKeeps
  <2>0. EndOf(log) \in 1..(MaxCells + 1) /\ MaxCells \in Nat
    BY LogEnd, Zenon
  <2>1. /\ cache' = [o \in Offsets |-> IF o \in off..(off + n - 1) THEN cells[o - off + 1] ELSE cache[o]]
        /\ dirty' = dirty \cup (off..(off + n - 1)) /\ UNCHANGED <<media, exists>>
    BY Zenon DEF Write
  <2>2. \A o \in Offsets : cache'[o] = IF o \in off..(off + n - 1) THEN cells[o - off + 1] ELSE cache[o]
    BY <2>1, Zenon
  <2>3. Celled(cache')
    <3>1. cache' = [o \in Offsets |-> cache'[o]]
      BY <2>1, Zenon
    <3>2. ASSUME NEW o \in Offsets, cache'[o].kind = "rec" PROVE cache'[o].plen \in Nat
      <4>1. CASE o \in off..(off + n - 1)
        <5>1. o - off + 1 \in 1..n
          BY <4>1, SMTT(60)
        <5> QED
          BY <2>2, <3>2, <4>1, <5>1, Zenon DEF CellsOK
      <4>2. CASE o \notin off..(off + n - 1)
        BY <2>2, <3>2, <4>2, Zenon DEF FileInv, Celled
      <4> QED
        BY <4>1, <4>2, Zenon
    <3> QED
      BY <3>1, <3>2, Zenon DEF Celled
  <2>4. ASSUME NEW x \in 0..(EndOf(log) - 1) PROVE cache'[x] = cache[x]
    <3>1. x \in Offsets /\ x \notin off..(off + n - 1)
      BY <2>0, SMTT(60) DEF Offsets
    <3> QED
      BY <2>2, <3>1, Zenon
  <2>5. dirty' \subseteq Nat /\ \A x \in dirty' : x \in dirty \/ x >= EndOf(log)
    BY <2>0, <2>1, SMTT(60) DEF FileInv
  <2> QED
    BY <2>1, <2>3, <2>4, <2>5, <1>TailChanged, Zenon
\* Whatever part of the dirty cells reaches the media, the log is on it.
<1>ReachingKeeps.
    ASSUME FileInv, NEW some \in SUBSET dirty
    PROVE  /\ Celled(Reaching(some))
           /\ \A x \in 1..(EndOf(log) - 1) : Reaching(some)[x] = media[x]
           /\ Reaching(some)[0] = IF 0 \in some THEN cache[0] ELSE media[0]
  <2> USE <1>ReachingKeeps
  <2>0. EndOf(log) \in 1..(MaxCells + 1) /\ MaxCells \in Nat
    BY LogEnd, Zenon
  <2>1. \A o \in Offsets : Reaching(some)[o] = IF o \in some THEN cache[o] ELSE media[o]
    BY Zenon DEF Reaching
  <2>2. Reaching(some) = [o \in Offsets |-> Reaching(some)[o]]
    BY Zenon DEF Reaching
  <2>3. /\ \A o \in Offsets : cache[o].kind = "rec" => cache[o].plen \in Nat
        /\ \A o \in Offsets : media[o].kind = "rec" => media[o].plen \in Nat
    BY Zenon DEF FileInv, Celled
  <2>4. Celled(Reaching(some))
    BY <2>1, <2>2, <2>3, Zenon DEF Celled
  <2>5. ASSUME NEW x \in 1..(EndOf(log) - 1) PROVE Reaching(some)[x] = media[x]
    <3>1. x \in Offsets /\ x # 0 /\ ~(x >= EndOf(log))
      BY <2>0, SMTT(60) DEF Offsets
    <3>2. x \notin some
      BY <3>1, Zenon DEF FileInv
    <3> QED
      BY <2>1, <3>1, <3>2, Zenon
  <2>6. 0 \in Offsets
    BY <2>0, SMTT(60) DEF Offsets
  <2> QED
    BY <2>1, <2>4, <2>5, <2>6, Zenon
\* qdb__file_sync, and one that fails.
<1>SyncKeeps.
    ASSUME FileInv, exists, UNCHANGED <<log, durable>>, Sound' => Sound, Sync \/ SyncFails
    PROVE  FileInv' /\ dirty' = {} /\ exists'
  <2> USE <1>SyncKeeps
  <2>1. \E some \in SUBSET dirty : media' = Reaching(some)
    BY Zenon DEF Sync, SyncFails
  <2>2. PICK some \in SUBSET dirty : media' = Reaching(some)
    BY <2>1, Zenon
  <2>3. exists' /\ dirty' = {} /\ (cache' = cache \/ cache' = media')
    BY ZenonT(40) DEF Sync, SyncFails
  <2>4. /\ Celled(media') /\ \A x \in 1..(EndOf(log) - 1) : media'[x] = media[x]
        /\ media'[0] \in {cache[0], media[0]}
    BY <2>2, <1>ReachingKeeps, Zenon
  <2> QED
    BY <2>3, <2>4, <1>MediaChanged, Zenon
\* qdb_open: creation.
<1>OpenNewKeeps.
    ASSUME Laid, OpenNew
    PROVE  Laid'
  \* A file that is not there has no log.
  <2> USE <1>OpenNewKeeps
  <2>NoLog.
      ASSUME FileInv, ~exists
      PROVE  log = << >> /\ EndOf(log) = 1
    <3> USE <2>NoLog
    <3>0. EndOf(log) \in 1..(MaxCells + 1) /\ MaxCells \in Nat /\ log \in Seq(Records) /\ Len(log) \in Nat
      BY LogEnd, Zenon DEF FileInv
    <3>1. Len(log) = 0
      <4> SUFFICES ASSUME Len(log) # 0 PROVE FALSE
        BY Zenon
      <4>1. 1 \in 1..Len(log) /\ Len(log) + 1 \in 1..(Len(log) + 1) /\ 1 < Len(log) + 1
        BY <3>0, SMTT(60)
      <4>2. Starts(log)[1] = 1 /\ Starts(log)[1] + RecLen(log[1]) <= EndOf(log)
        BY <3>0, <4>1, StartsFacts, StartsUp, Zenon DEF EndOf
      <4>3. log[1] \in Records
        BY <3>0, <4>1
      <4>4. RecLen(log[1]) \in Nat /\ RecLen(log[1]) >= 2
        BY <4>3, RecLenNat, Zenon
      <4>5. 1 \in Offsets
        BY <3>0, <4>2, <4>4 DEF Offsets
      <4>6. cache[1] = None
        BY <4>5, Zenon DEF FileInv, Blank
      <4>7. HasRec(cache, 1, log[1])
        BY <4>1, <4>2, Zenon DEF FileInv, Holds
      <4> QED
        BY <4>6, <4>7, SMTT(60) DEF HasRec, HasBody, R, None
    <3>2. EndOf(log) = 1
      <4>1. PICK k : k = Len(log) + 1
        BY Zenon
      <4>2. k = 1
        BY <3>0, <3>1, <4>1
      <4>4. Starts(log)[1] = 1
        BY <3>0, StartsFacts, Zenon
      <4>3. EndOf(log) = Starts(log)[k]
        BY <4>1, Zenon DEF EndOf
      <4> QED
        BY <4>2, <4>3, <4>4, Zenon
    <3>3. log = << >>
      BY <3>0, <3>1
    <3> QED
      BY <3>2, <3>3, Zenon
  \* A file that is created.
  <2>NewKeeps.
      ASSUME FileInv, OpenNew
      PROVE  FileInv' /\ EndOf(log') = 1 /\ exists'
    <3> USE <2>NewKeeps
    <3>1. UNCHANGED <<cache, media, dirty, log, durable>> /\ exists' = TRUE /\ ~exists
          /\ "unfinished" \in happened'
      BY Zenon DEF OpenNew
    <3>2. ~Sound'
      BY <3>1, Zenon DEF Sound
    <3>3. (Celled(cache) /\ Celled(media) /\ Holds(cache, log) /\ Holds(media, log))'
      BY <3>1, Zenon DEF FileInv, Celled, Holds
    <3>4. (Covering(cache[0]) /\ Covering(media[0]))'
      BY <3>1, Zenon DEF FileInv, Covering
    <3>5. FileInv'
      BY <3>1, <3>2, <3>3, <3>4, Zenon DEF FileInv
    <3> QED
      BY <3>1, <3>5, <2>NoLog, Zenon
  <2>1. FileInv /\ ProgramInv
    BY Zenon DEF Laid
  <2>2. FileInv' /\ EndOf(log') = 1 /\ exists'
    BY <2>1, <2>NewKeeps, Zenon
  <2>3. /\ pc' = "write header" /\ end' = 1 /\ flags' = {"DIRTY"} /\ rc' = "none"
        /\ happened' = happened \cup {"unfinished"} /\ UNCHANGED <<wal, walpos>>
    BY Zenon DEF OpenNew, waldata
  <2>4. Appending'
    BY <2>3, NotAppending, Zenon
  <2>5. walpos \in Nat \ {0}
    BY <2>1, Zenon DEF ProgramInv
  <2>6. ProgramInv'
    BY <2>1, <2>2, <2>3, <2>4, <2>5, ProgramStep, Zenon
  <2> QED
    BY <2>2, <2>6, Zenon DEF Laid
\* qdb_open: a header that is refused, and one that is read.
<1>OpenOldKeeps.
    ASSUME Laid, OpenOld
    PROVE  Laid'
  \* qdb_open takes the log up to the end that the cached header names.
  <2> USE <1>OpenOldKeeps
  <2>OpenKeeps.
      ASSUME FileInv, exists, cache[0].kind = "hdr",
             log' = Upto(log, cache[0].end), UNCHANGED <<file, durable, happened>>
      PROVE  /\ FileInv' /\ EndOf(log') = cache[0].end
             /\ cache[0].flags \subseteq {"DIRTY", "WAL_PRESENT"}
    <3> USE <2>OpenKeeps
    <3>0. EndOf(log) \in 1..(MaxCells + 1) /\ log \in Seq(Records) /\ Len(log) \in Nat
          /\ durable \in 0..Len(log) /\ EndOf(log) <= MaxCells + 1 /\ MaxCells \in Nat
      BY LogEnd, Zenon DEF FileInv
    <3>1. UNCHANGED <<cache, media, dirty, exists>>
      BY Zenon DEF file
    <3>2. PICK n \in durable..Len(log), fl \in SUBSET {"DIRTY", "WAL_PRESENT"} :
             cache[0] = H(Starts(log)[n + 1], fl)
      BY ZenonT(40) DEF FileInv, Covering
    <3>3. n \in 0..Len(log) /\ cache[0].end = Starts(log)[n + 1] /\ cache[0].flags = fl
      BY <3>0, <3>2 DEF H
    <3>4. PICK t : t = SubSeq(log, 1, n)
      BY Zenon
    <3>5. /\ t \in Seq(Records) /\ Len(t) = n
          /\ \A i \in 1..(n + 1) : Starts(t)[i] = Starts(log)[i]
          /\ EndOf(t) = Starts(log)[n + 1] /\ EndOf(t) \in Nat \ {0} /\ EndOf(t) <= EndOf(log)
          /\ \A f : Holds(f, log) => Holds(f, t)
      BY <3>0, <3>3, <3>4, Cut, SMTT(60)
    <3>6. log' = t
      BY <3>0, <3>3, <3>4, UptoEnd, Zenon
    <3>7. ASSUME NEW c, Covering(c), c.kind = "hdr", c.end <= Starts(log)[n + 1]
          PROVE  c.kind = "hdr" => \E m \in durable..Len(t), x \in SUBSET {"DIRTY", "WAL_PRESENT"} :
                                      c = H(Starts(t)[m + 1], x)
      <4>1. PICK m \in durable..Len(log), x \in SUBSET {"DIRTY", "WAL_PRESENT"} :
               c = H(Starts(log)[m + 1], x)
        BY <3>7, Zenon DEF Covering
      <4>2. m \in 0..Len(log) /\ c.end = Starts(log)[m + 1]
        BY <3>0, <4>1, SMTT(60) DEF H
      <4>3. m <= n
        <5> SUFFICES ASSUME m > n PROVE FALSE
          BY <3>3, <4>2, SMTT(60)
        <5>1. n + 1 \in 1..Len(log) /\ m + 1 \in 1..(Len(log) + 1) /\ n + 1 < m + 1
          BY <3>0, <3>3, <4>2, SMTT(60)
        <5>2. Starts(log)[n + 1] + RecLen(log[n + 1]) <= Starts(log)[m + 1]
          BY <3>0, <5>1, StartsUp, Zenon
        <5>3. log[n + 1] \in Records
          BY <3>0, <5>1, SMTT(60)
        <5>4. RecLen(log[n + 1]) \in Nat /\ RecLen(log[n + 1]) >= 2
          BY <5>3, RecLenNat, Zenon
        <5>5. Starts(log)[n + 1] \in Nat /\ Starts(log)[m + 1] \in Nat
          BY <3>0, <5>1, StartsFacts, SMTT(60)
        <5> QED
          BY <3>7, <4>2, <5>2, <5>4, <5>5, SMTT(60)
      <4>4. m \in durable..Len(t) /\ m + 1 \in 1..(n + 1)
        BY <3>0, <3>3, <3>5, <4>2, <4>3, SMTT(60)
      <4> QED
        BY <3>5, <4>1, <4>4, ZenonT(40)
    <3>8. Covering(cache[0])' /\ Covering(media[0])'
      <4>1. Covering(cache[0]) /\ Covering(media[0])
        BY Zenon DEF FileInv
      <4>2. Starts(log)[n + 1] <= Starts(log)[n + 1]
        BY <3>5, SMTT(60)
      <4>3. media[0].kind = "hdr" => media[0].end <= Starts(log)[n + 1]
        BY <3>3, Zenon DEF FileInv
      <4>4. cache[0].kind = "hdr" => \E m \in durable..Len(t), x \in SUBSET {"DIRTY", "WAL_PRESENT"} :
                                      cache[0] = H(Starts(t)[m + 1], x)
        BY <3>3, <3>7, <4>1, <4>2, Zenon
      <4>5. media[0].kind = "hdr" => \E m \in durable..Len(t), x \in SUBSET {"DIRTY", "WAL_PRESENT"} :
                                      media[0] = H(Starts(t)[m + 1], x)
        BY <3>7, <4>1, <4>3, ZenonT(40)
      <4> QED
        BY <3>1, <3>6, <4>4, <4>5, ZenonT(40) DEF Covering
    <3>9. Holds(cache, log)' /\ Holds(media, log)'
      <4>1. Holds(cache, t) /\ Holds(media, t)
        BY <3>5, Zenon DEF FileInv
      <4> QED
        BY <3>1, <3>6, <4>1, Zenon
    <3>10. (\A o \in dirty : o = 0 \/ o >= EndOf(log))'
      <4>1. \A o \in dirty : o \in Nat /\ (o = 0 \/ o >= EndOf(log))
        BY Zenon DEF FileInv
      <4> QED
        BY <3>0, <3>1, <3>5, <3>6, <4>1, SMTT(60)
    <3>11. (log \in Seq(Records) /\ durable \in 0..Len(log) /\ EndOf(log) <= MaxCells + 1)'
      BY <3>0, <3>3, <3>5, <3>6, SMTT(60)
    <3>12. (Celled(cache) /\ Celled(media) /\ dirty \subseteq Nat)'
      BY <3>1, Zenon DEF FileInv, Celled
    <3>13. /\ (cache[0].kind = "hdr" /\ media[0].kind = "hdr" => media[0].end <= cache[0].end)'
           /\ (Sound => cache[0].kind = "hdr" /\ media[0].kind = "hdr")' /\ exists'
      BY <3>1, Zenon DEF FileInv, Sound
    <3>14. FileInv'
      BY <3>8, <3>9, <3>10, <3>11, <3>12, <3>13, SMTT(60) DEF FileInv
    <3> QED
      BY <3>3, <3>5, <3>6, <3>14, Zenon
  <2>0. FileInv /\ ProgramInv
    BY Zenon DEF Laid
  <2>1. /\ pc = "down" /\ exists
        /\ UNCHANGED <<file, for, rec, wal, walruns, durable, happened>>
    BY Zenon DEF OpenOld
  <2>2. CASE cache[0].kind # "hdr"
    <3>1. header_read(cache) = Junk
      BY <2>2, Zenon DEF header_read
    <3>2. pc' = "down" /\ rc' = "CORRUPT" /\ UNCHANGED <<end, flags, walpos, log>>
      BY <3>1, Zenon DEF OpenOld, Refuse, db
    <3>3. ~Sound
      BY <2>0, <2>1, <2>2, Zenon DEF FileInv
    <3>4. FileInv'
      BY <2>0, <2>1, <3>2, FileKept, Zenon DEF Sound
    <3>5. Appending'
      BY <3>2, NotAppending, Zenon
    <3>6. ProgramInv'
      BY <2>0, <2>1, <3>2, <3>3, <3>5, Zenon DEF ProgramInv, Sound
    <3> QED
      BY <3>4, <3>6, Zenon DEF Laid
  <2>3. CASE cache[0].kind = "hdr"
    <3>1. header_read(cache) = cache[0] /\ cache[0] # Junk
      BY <2>3, SMTT(60) DEF header_read, Junk
    <3>2. /\ end' = cache[0].end /\ flags' = cache[0].flags /\ walpos' = 1
          /\ log' = Upto(log, cache[0].end) /\ rc' = "none"
          /\ pc' \in {"truncate", "wal"}
      BY <3>1, Zenon DEF OpenOld
    <3>3. FileInv' /\ EndOf(log') = cache[0].end /\ cache[0].flags \subseteq {"DIRTY", "WAL_PRESENT"}
      BY <2>0, <2>1, <2>3, <3>2, <2>OpenKeeps, Zenon
    <3>4. Appending'
      BY <3>2, NotAppending, Zenon
    <3>5. exists'
      BY <2>1, Zenon DEF file
    <3>6. ProgramInv'
      BY <2>0, <2>1, <3>2, <3>3, <3>4, <3>5, ProgramStep, SMTT(60)
    <3> QED
      BY <3>3, <3>6, Zenon DEF Laid
  <2> QED
    BY <2>2, <2>3, Zenon
\* replay_wal: no WAL file, the end of it, a bad record, or the next record.
<1>ReplayWalKeeps.
    ASSUME Laid, replay_wal
    PROVE  Laid'
  <2> USE <1>ReplayWalKeeps
  <2>0. /\ FileInv /\ exists /\ end = EndOf(log) /\ rc # "CORRUPT"
        /\ walpos \in Nat \ {0} /\ ProgramInv /\ flags \subseteq {"DIRTY", "WAL_PRESENT"}
    BY OpenHandle, ZenonT(40) DEF replay_wal
  <2>1. /\ pc = "wal" /\ UNCHANGED <<file, end, wal, walpos, walruns, log, durable, happened>>
    BY Zenon DEF replay_wal, history
  <2>2. CASE ~wal.there \/ walpos > Len(wal.recs)
    <3>1. /\ pc' \in {"truncate", "write header"} /\ UNCHANGED rc
          /\ flags' \in {flags, flags \ {"WAL_PRESENT"}}
      BY <2>2, Zenon DEF replay_wal
    <3> QED
      BY <2>0, <2>1, <3>1, QuietKeeps, ZenonT(40)
  <2>3. CASE wal.there /\ ~(walpos > Len(wal.recs)) /\ wal.recs[walpos] = BadRecord
    <3>1. pc' = "down" /\ rc' = "CORRUPT" /\ UNCHANGED flags
      BY <2>3, Zenon DEF replay_wal, Refuse
    <3>2. wal.recs \in Seq(Records \cup {BadRecord})
      BY <2>0, Zenon DEF ProgramInv
    <3>3. BadRecord \in Range(wal.recs)
      <4>1. walpos \in DOMAIN wal.recs
        BY <2>0, <2>3, <3>2
      <4> QED
        BY <2>3, <4>1, Zenon DEF Range
    <3>4. FileInv'
      BY <2>0, <2>1, FileKept, Zenon DEF Sound
    <3>5. Appending'
      BY <3>1, NotAppending, Zenon
    <3>6. ProgramInv'
      BY <2>0, <2>1, <3>1, <3>3, <3>5, Zenon DEF ProgramInv
    <3> QED
      BY <3>4, <3>6, Zenon DEF Laid
  <2>4. CASE wal.there /\ ~(walpos > Len(wal.recs)) /\ wal.recs[walpos] # BadRecord
    <3>1. /\ pc' = "body" /\ rec' = wal.recs[walpos] /\ UNCHANGED <<rc, flags>>
          /\ end + RecLen(wal.recs[walpos]) <= MaxCells + 1
      BY <2>4, Zenon DEF replay_wal
    <3>2. wal.recs \in Seq(Records \cup {BadRecord})
      BY <2>0, Zenon DEF ProgramInv
    <3>3. rec' \in Records
      <4>1. walpos \in 1..Len(wal.recs)
        BY <2>0, <2>4, <3>2
      <4>2. wal.recs[walpos] \in Records \cup {BadRecord}
        BY <3>2, <4>1
      <4> QED
        BY <2>4, <3>1, <4>2, Zenon
    <3> QED
      BY <2>0, <2>1, <3>1, <3>3, QuietKeeps, Zenon
  <2> QED
    BY <2>2, <2>3, <2>4, Zenon
\* A WAL file that is not read, and the deletion of one that is replayed.
<1>WalGoneKeeps.
    ASSUME Laid, WalUnread \/ DeleteWal
    PROVE  Laid'
  <2> USE <1>WalGoneKeeps
  <2>0. /\ FileInv /\ exists /\ end = EndOf(log) /\ rc # "CORRUPT"
        /\ walpos \in Nat \ {0} /\ ProgramInv /\ flags \subseteq {"DIRTY", "WAL_PRESENT"}
    BY OpenHandle, Zenon DEF WalUnread, DeleteWal
  <2>1. /\ pc' = "truncate" /\ UNCHANGED <<file, end, flags, walpos, rc, log, durable>>
        /\ wal' \in {wal, NoWal}
        /\ happened' \in {happened, happened \cup {"walunread"}, happened \cup {"walkept"}}
    BY Zenon DEF WalUnread, DeleteWal, db
  <2>2. FileInv'
    BY <2>0, <2>1, FileKept, Zenon DEF Sound
  <2>3. exists' /\ end' = EndOf(log') /\ Appending'
    BY <2>0, <2>1, NotAppending, Zenon DEF file
  <2>4. wal'.recs \in Seq(Records \cup {BadRecord}) /\ (~wal'.there => wal' = NoWal)
    <3>1. CASE wal' = wal
      BY <2>0, <3>1, Zenon DEF ProgramInv
    <3>2. CASE wal' = NoWal
      <4>1. NoWal.recs = << >>
        BY Zenon DEF NoWal
      <4> QED
        BY <3>2, <4>1
    <3> QED
      BY <2>1, <3>1, <3>2, Zenon
  <2>5. ProgramInv'
    BY <2>0, <2>1, <2>3, <2>4, Zenon DEF ProgramInv
  <2> QED
    BY <2>2, <2>5, Zenon DEF Laid
\* What lies behind the log is cut off.
<1>TruncateTailKeeps.
    ASSUME Laid, TruncateTail
    PROVE  Laid'
  \* qdb__file_truncate to the end of the log.
  <2> USE <1>TruncateTailKeeps
  <2>TruncateKeeps.
      ASSUME FileInv, exists, UNCHANGED <<log, durable, happened>>, Truncate(EndOf(log))
      PROVE  FileInv'
    <3> USE <2>TruncateKeeps
    <3>0. EndOf(log) \in 1..(MaxCells + 1) /\ MaxCells \in Nat
      BY LogEnd, Zenon
    <3>1. PICK e \in Nat : e = EndOf(log)
      BY <3>0
    <3>2. /\ cache' = [o \in Offsets |-> IF o >= e THEN None ELSE cache[o]]
          /\ dirty' = dirty \cup {o \in Offsets : o >= e /\ cache[o] # None}
          /\ UNCHANGED <<media, exists>>
      BY <3>1, Zenon DEF Truncate
    <3>3. \A o \in Offsets : cache'[o] = IF o >= e THEN None ELSE cache[o]
      BY <3>2, Zenon
    <3>4. Celled(cache')
      <4>1. cache' = [o \in Offsets |-> cache'[o]]
        BY <3>2, Zenon
      <4>2. \A o \in Offsets : cache[o].kind = "rec" => cache[o].plen \in Nat
        BY Zenon DEF FileInv, Celled
      <4>3. None.kind # "rec"
        BY Zenon DEF None
      <4> QED
        BY <3>3, <4>1, <4>2, <4>3, Zenon DEF Celled
    <3>5. ASSUME NEW x \in 0..(EndOf(log) - 1) PROVE cache'[x] = cache[x]
      <4>1. x \in Offsets /\ ~(x >= e)
        BY <3>0, <3>1, SMTT(60) DEF Offsets
      <4> QED
        BY <3>3, <4>1, Zenon
    <3>6. dirty' \subseteq Nat /\ \A x \in dirty' : x \in dirty \/ x >= EndOf(log)
      <4>1. dirty \subseteq Nat /\ Offsets \subseteq Nat
        BY <3>0, SMTT(60) DEF FileInv, Offsets
      <4>2. ASSUME NEW x \in dirty' PROVE x \in Nat /\ (x \in dirty \/ x >= EndOf(log))
        BY <3>1, <3>2, <4>1, <4>2, Zenon
      <4> QED
        BY <4>2, Zenon
    <3>7. UNCHANGED <<media, exists, log, durable, happened>>
      BY <3>2, Zenon
    <3> QED
      BY <3>4, <3>5, <3>6, <3>7, <1>TailChanged, Zenon
  <2>0. /\ FileInv /\ exists /\ end = EndOf(log) /\ rc # "CORRUPT"
        /\ walpos \in Nat \ {0} /\ ProgramInv /\ flags \subseteq {"DIRTY", "WAL_PRESENT"}
    BY OpenHandle, Zenon DEF TruncateTail
  <2>1. /\ pc = "truncate" /\ UNCHANGED <<end, flags, rec, wal, walpos, log, durable, happened>>
    BY Zenon DEF TruncateTail, db, waldata, history
  <2>2. CASE UNCHANGED file
    <3>1. pc' \in {"validate", "down"} /\ rc' \in {rc, "IO"}
      BY Zenon DEF TruncateTail, Refuse
    <3> QED
      BY <2>0, <2>1, <2>2, <3>1, QuietKeeps, Zenon
  <2>3. CASE ~UNCHANGED file
    <3>1. Truncate(end) /\ pc' = "validate" /\ rc' = rc
      BY <2>3, Zenon DEF TruncateTail
    <3>2. FileInv'
      BY <2>0, <2>1, <3>1, <2>TruncateKeeps, Zenon
    <3>3. exists' /\ Appending'
      BY <2>0, <3>1, NotAppending, Zenon DEF Truncate
    <3>4. ProgramInv'
      BY <2>0, <2>1, <3>1, <3>3, ProgramStep, Zenon
    <3> QED
      BY <3>2, <3>4, Zenon DEF Laid
  <2> QED
    BY <2>2, <2>3, Zenon
\* The end of qdb_open, an error in it, and the start of a call.
<1>QuietActions.
    ASSUME Laid, ReplayLog \/ OpenFails \/ qdb_close \/ \E r \in Records : AppendRecord(r)
    PROVE  Laid'
  <2> USE <1>QuietActions
  <2>0. /\ FileInv /\ exists /\ end = EndOf(log) /\ rc # "CORRUPT"
        /\ walpos \in Nat \ {0} /\ ProgramInv /\ flags \subseteq {"DIRTY", "WAL_PRESENT"} /\ pc # "down"
    BY OpenHandle, Zenon DEF ReplayLog, OpenFails, qdb_close, AppendRecord
  <2>1. CASE ReplayLog
    <3>1. /\ pc' = "write header" /\ flags' = flags \cup {"DIRTY"}
          /\ UNCHANGED <<file, end, log, durable, walpos, wal, happened, rc>>
      BY <2>1, Zenon DEF ReplayLog, waldata, history
    <3> QED
      BY <2>0, <3>1, QuietKeeps, ZenonT(40)
  <2>2. CASE OpenFails
    <3>1. /\ pc' = "down" /\ rc' = "IO"
          /\ UNCHANGED <<file, end, flags, log, durable, walpos, wal, happened>>
      BY <2>2, Zenon DEF OpenFails, Refuse, db, waldata, history
    <3> QED
      BY <2>0, <3>1, QuietKeeps, Zenon
  <2>3. CASE qdb_close
    <3>1. /\ pc' = "write header" /\ flags' = {}
          /\ UNCHANGED <<file, end, log, durable, walpos, wal, happened, rc>>
      BY <2>3, ZenonT(40) DEF qdb_close, waldata, history
    <3> QED
      BY <2>0, <3>1, QuietKeeps, Zenon
  <2>4. ASSUME NEW r \in Records, AppendRecord(r) PROVE Laid'
    <3>1. /\ pc' = "body" /\ rec' = r /\ end + RecLen(r) <= MaxCells + 1
          /\ UNCHANGED <<file, end, flags, log, durable, walpos, wal, happened, rc>>
      BY <2>4, Zenon DEF AppendRecord, db, waldata, history
    <3> QED
      BY <2>0, <3>1, QuietKeeps, Zenon
  <2> QED
    BY <2>1, <2>2, <2>3, <2>4, Zenon
\* A failed append or header update, after which the file is as FileInv says.
<1>FailsKeeps.
    ASSUME Laid, pc # "down", Fails, FileInv', exists',
           UNCHANGED <<end, flags, wal, walpos, log>>
    PROVE  Laid'
  <2> USE <1>FailsKeeps
  <2>0. /\ end = EndOf(log) /\ rc # "CORRUPT" /\ walpos \in Nat \ {0} /\ ProgramInv
        /\ flags \subseteq {"DIRTY", "WAL_PRESENT"}
    BY OpenHandle, Zenon
  <2>1. pc' \in {"idle", "down"} /\ rc' \in {rc, "IO"}
    BY Zenon DEF Fails
  <2>2. Appending'
    BY <2>1, NotAppending, Zenon
  <2>3. ProgramInv'
    BY <2>0, <2>1, <2>2, ProgramStep, Zenon
  <2> QED
    BY <2>3, Zenon DEF Laid
\* The body of the record is written behind the log, or a part of it.
<1>WriteBodyKeeps.
    ASSUME Laid, WriteBody
    PROVE  Laid'
  <2> USE <1>WriteBodyKeeps
  <2>0. /\ FileInv /\ exists /\ end = EndOf(log) /\ rc # "CORRUPT"
        /\ walpos \in Nat \ {0} /\ ProgramInv /\ flags \subseteq {"DIRTY", "WAL_PRESENT"} /\ pc # "down"
        /\ end \in 1..(MaxCells + 1) /\ MaxCells \in Nat
    BY OpenHandle, Zenon DEF WriteBody
  <2>1. pc = "body" /\ UNCHANGED <<end, flags, rec, wal, walpos, log, durable, happened>>
    BY ZenonT(40) DEF WriteBody, db, waldata, history
  <2>2. rec \in Records /\ end + RecLen(rec) <= MaxCells + 1
    BY <2>0, <2>1, Zenon DEF ProgramInv, Appending
  <2>3. PICK cells : cells = Body(rec)
    BY Zenon
  <2>4. PICK n \in Nat : n = Len(rec.payload)
    BY <2>2, RecLenNat, Zenon
  <2>5. /\ Len(cells) = n + 1
        /\ cells[1] = R(rec.type, n, rec.payload)
        /\ \A k \in 1..n : cells[k + 1] = B(rec.payload[k])
    BY <2>2, <2>3, <2>4, BodyCells, Zenon
  <2>6. \A i \in 1..(n + 1) : cells[i].kind = "rec" => cells[i].plen \in Nat
    <3> TAKE i \in 1..(n + 1)
    <3>1. CASE i = 1
      BY <2>5, <3>1, SMTT(60) DEF R
    <3>2. CASE i # 1
      <4>1. i - 1 \in 1..n /\ (i - 1) + 1 = i
        BY <3>2, SMTT(60)
      <4>2. cells[i] = B(rec.payload[i - 1])
        BY <2>5, <4>1, Zenon
      <4> QED
        BY <4>2, SMTT(60) DEF B
    <3> QED
      BY <3>1, <3>2, Zenon
  <2>7. ASSUME NEW m \in 0..(n + 1), Write(end, cells, m) PROVE FileInv' /\ exists'
    <3>0. 1..m \subseteq 1..(n + 1)
      OBVIOUS
    <3>1. CellsOK(cells, m)
      BY <2>6, <3>0, Zenon DEF CellsOK
    <3>2. m \in Nat
      OBVIOUS
    <3>4. end \in Nat /\ end >= EndOf(log)
      BY <2>0, SMTT(60)
    <3>5. FileInv /\ exists /\ UNCHANGED <<log, durable, happened>>
      BY <2>0, <2>1, Zenon
    <3>6. FileInv'
      BY <2>7, <3>1, <3>2, <3>4, <3>5, <1>WriteKeeps, Zenon
    <3> QED
      BY <2>0, <2>7, <3>6, Zenon DEF Write
  <2>8. CASE Write(end, cells, Len(cells)) /\ pc' = "sync body" /\ UNCHANGED rc
    <3>1. Write(end, cells, n + 1)
      BY <2>5, <2>8, Zenon
    <3>2. FileInv' /\ exists'
      <4>1. n + 1 \in 0..(n + 1)
        OBVIOUS
      <4> QED
        BY <2>7, <3>1, <4>1, Zenon
    <3>3. end..(end + (n + 1) - 1) = end..(end + n)
      BY <2>0, SMTT(60)
    <3>4. /\ \A o \in Offsets : o \in end..(end + n) => cache'[o] = cells[o - end + 1]
          /\ end..(end + n) \subseteq dirty'
      BY <3>1, <3>3, Zenon DEF Write
    <3>5. RecLen(rec) = n + 2
      BY <2>4, Zenon DEF RecLen
    <3>6. cache'[end] = cells[1]
      <4>1. end \in Offsets /\ end \in end..(end + n) /\ end - end + 1 = 1
        BY <2>0, <2>2, <3>5, SMTT(60) DEF Offsets
      <4> QED
        BY <3>4, <4>1, Zenon
    <3>7. ASSUME NEW k \in 1..n PROVE cache'[end + k] = cells[k + 1]
      <4>1. end + k \in Offsets /\ end + k \in end..(end + n) /\ (end + k) - end + 1 = k + 1
        BY <2>0, <2>2, <3>5, SMTT(60) DEF Offsets
      <4> QED
        BY <3>4, <4>1, Zenon
    <3>8. HasBody(cache', end, rec)
      BY <2>4, <2>5, <3>6, <3>7, Zenon DEF HasBody
    <3>9. Appending'
      <4>1. (rec \in Records /\ end + RecLen(rec) <= MaxCells + 1)'
        BY <2>1, <2>2, Zenon DEF RecLen
      <4>2. (HasBody(cache, end, rec) /\ Cells \subseteq dirty)'
        BY <2>1, <2>4, <3>4, <3>8, Zenon DEF HasBody, Cells
      <4> QED
        BY <2>8, <4>1, <4>2, Zenon DEF Appending
    <3>10. ProgramInv'
      BY <2>0, <2>1, <2>8, <3>2, <3>9, ProgramStep, ZenonT(40)
    <3> QED
      BY <3>2, <3>10, Zenon DEF Laid
  <2>9. CASE Fails /\ \E m \in 0..(Len(cells) - 1) : Write(end, cells, m)
    <3>1. PICK m \in 0..(Len(cells) - 1) : Write(end, cells, m)
      BY <2>9, Zenon
    <3>2. m \in 0..(n + 1)
      BY <2>5
    <3>3. FileInv' /\ exists'
      BY <2>7, <3>1, <3>2, Zenon
    <3> QED
      BY <2>0, <2>1, <2>9, <3>3, <1>FailsKeeps, Zenon
  <2> QED
    BY <2>3, <2>8, <2>9, ZenonT(40) DEF WriteBody
\* The first sync: the body is on the media.
<1>SyncBodyKeeps.
    ASSUME Laid, SyncBody
    PROVE  Laid'
  <2> USE <1>SyncBodyKeeps
  <2>0. /\ FileInv /\ exists /\ end = EndOf(log) /\ rc # "CORRUPT"
        /\ walpos \in Nat \ {0} /\ ProgramInv /\ flags \subseteq {"DIRTY", "WAL_PRESENT"} /\ pc # "down"
        /\ end \in 1..(MaxCells + 1) /\ MaxCells \in Nat
    BY OpenHandle, Zenon DEF SyncBody
  <2>1. pc = "sync body" /\ UNCHANGED <<end, flags, rec, wal, walpos, log, durable, happened>>
    BY ZenonT(40) DEF SyncBody, db, waldata, history
  <2>2. /\ rec \in Records /\ end + RecLen(rec) <= MaxCells + 1
        /\ HasBody(cache, end, rec) /\ Cells \subseteq dirty
    BY <2>0, <2>1, Zenon DEF ProgramInv, Appending
  <2>3. Sync \/ SyncFails
    BY Zenon DEF SyncBody
  <2>4. FileInv' /\ exists'
    BY <2>0, <2>1, <2>3, <1>SyncKeeps, Zenon DEF Sound
  <2>5. CASE Sync /\ pc' = "marker" /\ UNCHANGED rc
    <3>1. media' = Reaching(dirty) /\ UNCHANGED cache
      BY <2>5, Zenon DEF Sync
    <3>2. PICK n \in Nat : n = Len(rec.payload)
      BY <2>2, RecLenNat, Zenon
    <3>3. RecLen(rec) = n + 2
      BY <3>2, Zenon DEF RecLen
    <3>4. end..(end + n) \subseteq dirty /\ end..(end + n) \subseteq Offsets
      BY <2>0, <2>2, <3>2, <3>3, SMTT(30) DEF Cells, Offsets
    <3>5. \A o \in end..(end + n) : media'[o] = cache[o]
      BY <3>1, <3>4, Zenon DEF Reaching
    <3>6. end \in end..(end + n) /\ \A k \in 1..n : end + k \in end..(end + n)
      BY <2>0
    <3>7. media'[end] = cache[end] /\ \A k \in 1..n : media'[end + k] = cache[end + k]
      BY <3>5, <3>6, Zenon
    <3>8. HasBody(media', end, rec) /\ HasBody(cache', end, rec)
      BY <2>2, <3>1, <3>2, <3>7, Zenon DEF HasBody
    <3>9. Appending'
      <4>1. (rec \in Records /\ end + RecLen(rec) <= MaxCells + 1)'
        BY <2>1, <2>2, ZenonT(40) DEF RecLen
      <4>2. (HasBody(cache, end, rec) /\ HasBody(media, end, rec))'
        BY <2>1, <3>8, ZenonT(40) DEF HasBody
      <4> QED
        BY <2>5, <4>1, <4>2, Zenon DEF Appending
    <3>10. ProgramInv'
      BY <2>0, <2>1, <2>4, <2>5, <3>9, ProgramStep, ZenonT(40)
    <3> QED
      BY <2>4, <3>10, Zenon DEF Laid
  <2>6. CASE Fails
    BY <2>0, <2>1, <2>4, <2>6, <1>FailsKeeps, ZenonT(40)
  <2> QED
    BY <2>5, <2>6, Zenon DEF SyncBody
\* The marker is written behind the body.
<1>WriteMarkerKeeps.
    ASSUME Laid, WriteMarker
    PROVE  Laid'
  <2> USE <1>WriteMarkerKeeps
  <2>0. /\ FileInv /\ exists /\ end = EndOf(log) /\ rc # "CORRUPT"
        /\ walpos \in Nat \ {0} /\ ProgramInv /\ flags \subseteq {"DIRTY", "WAL_PRESENT"} /\ pc # "down"
        /\ end \in 1..(MaxCells + 1) /\ MaxCells \in Nat
    BY OpenHandle, ZenonT(40) DEF WriteMarker
  <2>1. pc = "marker" /\ UNCHANGED <<end, flags, rec, wal, walpos, log, durable, happened>>
    BY ZenonT(40) DEF WriteMarker, db, waldata, history
  <2>2. /\ rec \in Records /\ end + RecLen(rec) <= MaxCells + 1
        /\ HasBody(cache, end, rec) /\ HasBody(media, end, rec)
    BY <2>0, <2>1, Zenon DEF ProgramInv, Appending
  <2>3. PICK m : m = end + RecLen(rec) - 1
    BY Zenon
  <2>4. PICK n \in Nat : n = Len(rec.payload)
    BY <2>2, RecLenNat, Zenon
  <2>5. RecLen(rec) = n + 2
    BY <2>4, Zenon DEF RecLen
  <2>6. m = end + n + 1 /\ m \in Offsets /\ m \in Nat /\ m >= EndOf(log)
    BY <2>0, <2>2, <2>3, <2>5, SMTT(60) DEF Offsets
  <2>7. CASE Write(m, <<B(MARKER)>>, 1) /\ pc' = "sync marker" /\ UNCHANGED rc
    <3>1. CellsOK(<<B(MARKER)>>, 1)
      BY DEF CellsOK, B
    <3>2. FileInv'
      BY <2>0, <2>1, <2>6, <2>7, <3>1, <1>WriteKeeps, Zenon
    <3>3. m..(m + 1 - 1) = {m} /\ m - m + 1 = 1
      BY <2>6
    <3>4. /\ \A o \in Offsets : cache'[o] = IF o = m THEN B(MARKER) ELSE cache[o]
          /\ m \in dirty' /\ UNCHANGED <<media, exists>>
      <4>1. /\ cache' = [o \in Offsets |-> IF o \in m..(m + 1 - 1) THEN <<B(MARKER)>>[o - m + 1] ELSE cache[o]]
            /\ dirty' = dirty \cup (m..(m + 1 - 1)) /\ UNCHANGED <<media, exists>>
        BY <2>7, Zenon DEF Write
      <4>2. /\ \A o \in Offsets : cache'[o] = IF o = m THEN <<B(MARKER)>>[o - m + 1] ELSE cache[o]
            /\ m \in dirty'
        BY <3>3, <4>1, Zenon
      <4>3. <<B(MARKER)>>[m - m + 1] = B(MARKER)
        BY <3>3
      <4> QED
        BY <4>1, <4>2, <4>3, Zenon
    <3>5. \A k \in 0..n : end + k \in Offsets /\ end + k # m
      BY <2>0, <2>6, SMTT(60) DEF Offsets
    <3>6. \A k \in 0..n : cache'[end + k] = cache[end + k]
      BY <3>4, <3>5, Zenon
    <3>7. cache'[end] = cache[end] /\ \A k \in 1..n : cache'[end + k] = cache[end + k]
      <4>1. 0 \in 0..n /\ end + 0 = end /\ 1..n \subseteq 0..n
        BY <2>0, SMTT(60)
      <4> QED
        BY <3>6, <4>1, Zenon
    <3>8. HasBody(cache', end, rec) /\ HasBody(media', end, rec)
      BY <2>2, <2>4, <3>4, <3>7, Zenon DEF HasBody
    <3>9. Appending'
      <4>1. (rec \in Records /\ end + RecLen(rec) <= MaxCells + 1)'
        BY <2>1, <2>2, Zenon DEF RecLen
      <4>2. (HasBody(cache, end, rec) /\ HasBody(media, end, rec))'
        BY <2>1, <3>8, Zenon DEF HasBody
      <4>3. (cache[end + RecLen(rec) - 1] = B(MARKER) /\ end + RecLen(rec) - 1 \in dirty)'
        BY <2>1, <2>3, <2>6, <3>4, Zenon DEF RecLen
      <4> QED
        BY <2>7, <4>1, <4>2, <4>3, Zenon DEF Appending
    <3>10. ProgramInv'
      BY <2>0, <2>1, <2>7, <3>4, <3>9, ProgramStep, ZenonT(40)
    <3> QED
      BY <3>2, <3>10, Zenon DEF Laid
  <2>8. CASE Fails /\ UNCHANGED file
    <3>1. FileInv'
      BY <2>0, <2>1, <2>8, FileKept, Zenon DEF Sound
    <3>2. exists'
      BY <2>0, <2>8, Zenon DEF file
    <3> QED
      BY <2>0, <2>1, <2>8, <3>1, <3>2, <1>FailsKeeps, Zenon
  <2> QED
    BY <2>3, <2>7, <2>8, ZenonT(40) DEF WriteMarker
\* The second sync: the record is in the log.
<1>SyncMarkerKeeps.
    ASSUME Laid, SyncMarker
    PROVE  Laid'
  \* A record more: where it starts, and where the log ends now.
  <2> USE <1>SyncMarkerKeeps
  <2>Grow.
      ASSUME NEW s \in Seq(Records), NEW r \in Records
      PROVE  LET t == Append(s, r) IN
             /\ t \in Seq(Records) /\ Len(t) = Len(s) + 1
             /\ \A i \in 1..(Len(s) + 1) : Starts(t)[i] = Starts(s)[i]
             /\ EndOf(t) = EndOf(s) + RecLen(r)
             /\ \A f : Holds(f, s) /\ HasRec(f, EndOf(s), r) => Holds(f, t)
    <3>1. PICK t : t = Append(s, r)
      BY Zenon
    <3>2. t \in Seq(Records) /\ Len(t) = Len(s) + 1 /\ t[Len(s) + 1] = r
          /\ \A i \in 1..Len(s) : t[i] = s[i]
      BY <3>1
    <3>3. Len(s) \in Nat
      OBVIOUS
    <3>4. \A i \in 1..(Len(s) + 1) : Starts(t)[i] = Starts(s)[i]
      BY <3>2, <3>3, StartsAlike, SMTT(60)
    <3>5. Starts(t)[Len(t) + 1] = Starts(t)[Len(t)] + RecLen(t[Len(t)])
      <4>1. Len(t) \in 1..Len(t)
        BY <3>2, <3>3
      <4> QED
        BY <3>2, <4>1, StartsFacts, Zenon
    <3>6. EndOf(t) = EndOf(s) + RecLen(r)
      BY <3>2, <3>3, <3>4, <3>5 DEF EndOf
    <3>7. ASSUME NEW f, Holds(f, s), HasRec(f, EndOf(s), r) PROVE Holds(f, t)
      <4> SUFFICES ASSUME NEW i \in 1..(Len(s) + 1) PROVE HasRec(f, Starts(t)[i], t[i])
        BY <3>2, Zenon DEF Holds
      <4>1. CASE i = Len(s) + 1
        BY <4>1, <3>2, <3>4, <3>7, Zenon DEF EndOf
      <4>2. CASE i # Len(s) + 1
        <5>1. i \in 1..Len(s)
          BY <4>2, <3>3, SMTT(60)
        <5> QED
          BY <5>1, <3>2, <3>4, <3>7, Zenon DEF Holds
      <4> QED
        BY <4>1, <4>2, Zenon
    <3> QED
      BY <3>1, <3>2, <3>4, <3>6, <3>7, Zenon
  \* The sync that follows the marker makes the record a part of the log.
  <2>AppendKeeps.
      ASSUME FileInv, exists, Sync, rec \in Records, EndOf(log) + RecLen(rec) <= MaxCells + 1,
             HasBody(cache, EndOf(log), rec), HasBody(media, EndOf(log), rec),
             cache[EndOf(log) + RecLen(rec) - 1] = B(MARKER), EndOf(log) + RecLen(rec) - 1 \in dirty,
             log' = Append(log, rec), UNCHANGED <<durable, happened>>
      PROVE  FileInv' /\ EndOf(log') = EndOf(log) + RecLen(rec) /\ exists'
    <3> USE <2>AppendKeeps
    <3>0. EndOf(log) \in 1..(MaxCells + 1) /\ log \in Seq(Records) /\ Len(log) \in Nat
          /\ durable \in 0..Len(log) /\ MaxCells \in Nat
      BY LogEnd, Zenon DEF FileInv
    <3>1. media' = Reaching(dirty) /\ dirty' = {} /\ UNCHANGED <<cache, exists>>
      BY Zenon DEF Sync
    <3>2. PICK t : t = Append(log, rec)
      BY Zenon
    <3>3. /\ t \in Seq(Records) /\ Len(t) = Len(log) + 1
          /\ \A i \in 1..(Len(log) + 1) : Starts(t)[i] = Starts(log)[i]
          /\ EndOf(t) = EndOf(log) + RecLen(rec)
          /\ \A f : Holds(f, log) /\ HasRec(f, EndOf(log), rec) => Holds(f, t)
      BY <3>0, <3>2, <2>Grow, Zenon
    <3>4. /\ Celled(Reaching(dirty)) /\ \A x \in 1..(EndOf(log) - 1) : media[x] = Reaching(dirty)[x]
          /\ Reaching(dirty)[0] = IF 0 \in dirty THEN cache[0] ELSE media[0]
      BY <1>ReachingKeeps, Zenon
    <3>5. Holds(media', log)
      BY <3>0, <3>1, <3>4, SameHolds, Zenon DEF FileInv
    <3>6. PICK e \in Nat : e = EndOf(log)
      BY <3>0, SMTT(60)
    <3>7. HasRec(media', e, rec)
      <4>1. Len(rec.payload) \in Nat /\ RecLen(rec) = Len(rec.payload) + 2
        BY RecLenNat, Zenon DEF RecLen
      <4>2. e \in Offsets /\ e + RecLen(rec) - 1 \in Offsets /\ \A k \in 1..Len(rec.payload) : e + k \in Offsets
        <5>1. PICK n \in Nat : n = Len(rec.payload)
          BY <4>1, Zenon
        <5>2. RecLen(rec) = n + 2 /\ e + (n + 2) <= MaxCells + 1
          BY <3>6, <4>1, <5>1, Zenon
        <5>3. e \in Offsets /\ e + (n + 2) - 1 \in Offsets /\ \A k \in 1..n : e + k \in Offsets
          BY <3>0, <5>2, SMTT(60) DEF Offsets
        <5> QED
          BY <5>1, <5>2, <5>3, Zenon
      <4>3. \A o \in Offsets : media'[o] = IF o \in dirty THEN cache[o] ELSE media[o]
        BY <3>1, Zenon DEF Reaching
      <4>4. media'[e + RecLen(rec) - 1] = B(MARKER)
        BY <3>6, <4>2, <4>3, Zenon
      <4>5. media'[e] = R(rec.type, Len(rec.payload), rec.payload)
        BY <3>6, <4>2, <4>3, Zenon DEF HasBody
      <4>6. ASSUME NEW k \in 1..Len(rec.payload) PROVE media'[e + k] = B(rec.payload[k])
        <5>1. cache[e + k] = B(rec.payload[k]) /\ media[e + k] = B(rec.payload[k])
          BY <3>6, Zenon DEF HasBody
        <5> QED
          BY <4>2, <4>3, <5>1, Zenon
      <4> QED
        BY <4>4, <4>5, <4>6, ZenonT(40) DEF HasRec, HasBody
    <3>8. HasRec(cache', e, rec)
      BY <3>1, <3>6, Zenon DEF HasRec
    <3>9. Holds(cache, log)' /\ Holds(media, log)'
      <4>1. Holds(cache', t) /\ Holds(media', t)
        BY <3>1, <3>3, <3>5, <3>6, <3>7, <3>8, ZenonT(40) DEF FileInv
      <4> QED
        BY <3>2, <4>1, Zenon
    <3>10. Covering(cache[0])' /\ Covering(media[0])'
      <4>1. ASSUME NEW c, Covering(c)
            PROVE  c.kind = "hdr" => \E m \in durable..Len(t), x \in SUBSET {"DIRTY", "WAL_PRESENT"} :
                                       c = H(Starts(t)[m + 1], x)
        <5> SUFFICES ASSUME c.kind = "hdr"
                     PROVE  \E m \in durable..Len(t), x \in SUBSET {"DIRTY", "WAL_PRESENT"} :
                              c = H(Starts(t)[m + 1], x)
          BY Zenon
        <5>1. PICK m \in durable..Len(log), x \in SUBSET {"DIRTY", "WAL_PRESENT"} :
                 c = H(Starts(log)[m + 1], x)
          BY <4>1, Zenon DEF Covering
        <5>2. m \in durable..Len(t) /\ m + 1 \in 1..(Len(log) + 1)
          BY <3>0, <3>3, SMTT(60)
        <5> QED
          BY <3>3, <5>1, <5>2, Zenon
      <4>2. Covering(cache'[0]) /\ Covering(media'[0])
        BY <3>1, <3>4, Zenon DEF FileInv
      <4>3. cache'[0].kind = "hdr" => \E m \in durable..Len(t), x \in SUBSET {"DIRTY", "WAL_PRESENT"} :
                                        cache'[0] = H(Starts(t)[m + 1], x)
        BY <4>1, <4>2, Zenon
      <4>4. media'[0].kind = "hdr" => \E m \in durable..Len(t), x \in SUBSET {"DIRTY", "WAL_PRESENT"} :
                                        media'[0] = H(Starts(t)[m + 1], x)
        BY <4>1, <4>2, ZenonT(40)
      <4> QED
        BY <3>2, <4>3, <4>4, ZenonT(40) DEF Covering
    <3>11. (cache[0].kind = "hdr" /\ media[0].kind = "hdr" => media[0].end <= cache[0].end)'
      <4>1. cache[0].kind = "hdr" => cache[0].end \in Nat
        <5>1. SUFFICES ASSUME cache[0].kind = "hdr" PROVE cache[0].end \in Nat
          BY Zenon
        <5>2. PICK n \in durable..Len(log), fl \in SUBSET {"DIRTY", "WAL_PRESENT"} : cache[0] = H(Starts(log)[n + 1], fl)
          BY <5>1, Zenon DEF FileInv, Covering
        <5>3. n + 1 \in 1..(Len(log) + 1)
          BY <3>0, SMTT(60)
        <5> QED
          BY <3>0, <5>2, <5>3, StartsFacts, SMTT(60) DEF H
      <4> QED
        BY <3>1, <3>4, <4>1, SMTT(30) DEF FileInv
    <3>12. (Sound => cache[0].kind = "hdr" /\ media[0].kind = "hdr")'
      BY <3>1, <3>4, Zenon DEF FileInv, Sound
    <3>13. (log \in Seq(Records) /\ durable \in 0..Len(log) /\ EndOf(log) <= MaxCells + 1)'
      BY <3>0, <3>2, <3>3, SMTT(60)
    <3>14. (Celled(cache) /\ Celled(media))'
      <4>1. Celled(cache)
        BY Zenon DEF FileInv
      <4> QED
        BY <3>1, <3>4, <4>1, Zenon DEF Celled
    <3>15. (dirty \subseteq Nat /\ \A o \in dirty : o = 0 \/ o >= EndOf(log))' /\ exists'
      BY <3>1, Zenon
    <3>16. FileInv'
      BY <3>9, <3>10, <3>11, <3>12, <3>13, <3>14, <3>15, ZenonT(40) DEF FileInv
    <3> QED
      BY <3>2, <3>3, <3>15, <3>16, Zenon
  <2>0. /\ FileInv /\ exists /\ end = EndOf(log) /\ rc # "CORRUPT"
        /\ walpos \in Nat \ {0} /\ ProgramInv /\ flags \subseteq {"DIRTY", "WAL_PRESENT"} /\ pc # "down"
    BY OpenHandle, Zenon DEF SyncMarker
  <2>1. pc = "sync marker" /\ UNCHANGED <<flags, rec, wal, durable, happened>>
    BY ZenonT(40) DEF SyncMarker
  <2>2. /\ rec \in Records /\ end + RecLen(rec) <= MaxCells + 1
        /\ HasBody(cache, end, rec) /\ HasBody(media, end, rec)
        /\ cache[end + RecLen(rec) - 1] = B(MARKER) /\ end + RecLen(rec) - 1 \in dirty
    BY <2>0, <2>1, Zenon DEF ProgramInv, Appending
  <2>3. CASE /\ Sync /\ end' = end + RecLen(rec) /\ log' = Append(log, rec)
             /\ pc' = (IF for = "wal" THEN "wal" ELSE "write header")
             /\ walpos' = (IF for = "wal" THEN walpos + 1 ELSE walpos)
             /\ UNCHANGED rc
    <3>1. pc' \in {"wal", "write header"}
      BY <2>3, ZenonT(40)
    <3>2. FileInv' /\ EndOf(log') = EndOf(log) + RecLen(rec) /\ exists'
      BY <2>0, <2>1, <2>2, <2>3, <2>AppendKeeps, Zenon
    <3>3. Appending'
      BY <3>1, NotAppending, Zenon
    <3>4. walpos' \in Nat \ {0}
      <4>1. walpos \in Nat \ {0}
        BY <2>0, Zenon
      <4>2. walpos' = walpos + 1 \/ walpos' = walpos
        BY <2>3, Zenon
      <4> QED
        BY <4>1, <4>2
    <3>5. ProgramInv'
      BY <2>0, <2>1, <2>3, <3>1, <3>2, <3>3, <3>4, ProgramStep, ZenonT(40)
    <3> QED
      BY <3>2, <3>5, Zenon DEF Laid
  <2>4. CASE SyncFails /\ Fails /\ UNCHANGED <<end, log, walpos>>
    <3>1. FileInv' /\ exists'
      BY <2>0, <2>1, <2>4, <1>SyncKeeps, ZenonT(40) DEF Sound
    <3> QED
      BY <2>0, <2>1, <2>4, <3>1, <1>FailsKeeps, ZenonT(40)
  <2> QED
    BY <2>3, <2>4, Zenon DEF SyncMarker
\* The header in the cache: whole, in part, or as it was.
<1>WriteHeaderKeeps.
    ASSUME Laid, WriteHeader
    PROVE  Laid'
  \* A header update in the cache: the whole header, or a part of it.
  <2> USE <1>WriteHeaderKeeps
  <2>HeaderKeeps.
      ASSUME FileInv, exists, UNCHANGED <<log, durable>>, NEW c, Write(0, <<c>>, 1),
             NEW fl \in SUBSET {"DIRTY", "WAL_PRESENT"},
             \/ c = H(EndOf(log), fl) /\ happened' = happened
             \/ c = Junk /\ happened' = happened \cup {"torn"}
      PROVE  FileInv' /\ cache'[0] = c /\ dirty' = dirty \cup {0} /\ UNCHANGED <<media, exists>>
    <3> USE <2>HeaderKeeps
    <3>0. EndOf(log) \in 1..(MaxCells + 1) /\ MaxCells \in Nat /\ log \in Seq(Records) /\ Len(log) \in Nat
      BY LogEnd, ZenonT(40) DEF FileInv
    <3>1. /\ cache' = [o \in Offsets |-> IF o \in 0..(0 + 1 - 1) THEN <<c>>[o - 0 + 1] ELSE cache[o]]
          /\ dirty' = dirty \cup (0..(0 + 1 - 1)) /\ UNCHANGED <<media, exists>>
      BY Zenon DEF Write
    <3>2. 0..(0 + 1 - 1) = {0} /\ 0 - 0 + 1 = 1
      OBVIOUS
    <3>3. \A o \in Offsets : cache'[o] = IF o = 0 THEN c ELSE cache[o]
      BY <3>1, <3>2, SMTT(60)
    <3>4. cache'[0] = c /\ dirty' = dirty \cup {0}
      BY <3>0, <3>1, <3>2, <3>3, SMTT(60) DEF Offsets
    <3>5. c.kind # "rec" /\ (c.kind = "hdr" => c = H(EndOf(log), fl) /\ happened' = happened)
      BY SMTT(60) DEF H, Junk
    <3>6. Celled(cache)' /\ Celled(media)'
      <4>1. cache' = [o \in Offsets |-> cache'[o]]
        BY <3>1, Zenon
      <4>2. \A o \in Offsets : cache[o].kind = "rec" => cache[o].plen \in Nat
        BY Zenon DEF FileInv, Celled
      <4>3. \A o \in Offsets : cache'[o].kind = "rec" => cache'[o].plen \in Nat
        BY <3>3, <3>5, <4>2, Zenon
      <4>4. Celled(media)
        BY Zenon DEF FileInv
      <4> QED
        BY <3>1, <4>1, <4>3, <4>4, Zenon DEF Celled
    <3>7. Holds(cache, log)' /\ Holds(media, log)'
      <4>1. \A x \in 1..(EndOf(log) - 1) : cache[x] = cache'[x]
        BY <3>0, <3>3, SMTT(60) DEF Offsets
      <4>2. Holds(cache', log)
        BY <3>0, <4>1, SameHolds, Zenon DEF FileInv
      <4> QED
        BY <3>1, <4>2, Zenon DEF FileInv, Holds
    <3>8. Covering(cache[0])' /\ Covering(media[0])'
      <4>1. durable \in 0..Len(log)
        BY Zenon DEF FileInv
      <4>2. Len(log) \in durable..Len(log) /\ EndOf(log) = Starts(log)[Len(log) + 1]
        BY <3>0, <4>1 DEF EndOf
      <4>3. Covering(c)
        BY <3>5, <4>2, Zenon DEF Covering
      <4>4. Covering(cache'[0]) /\ Covering(media'[0])
        BY <3>1, <3>4, <4>3, Zenon DEF FileInv
      <4> QED
        BY <4>4, SameCover, ZenonT(40)
    <3>9. (cache[0].kind = "hdr" /\ media[0].kind = "hdr" => media[0].end <= cache[0].end)'
      <4> SUFFICES ASSUME c.kind = "hdr", media[0].kind = "hdr" PROVE media[0].end <= c.end
        BY <3>1, <3>4, Zenon
      <4>1. PICK n \in durable..Len(log), x \in SUBSET {"DIRTY", "WAL_PRESENT"} : media[0] = H(Starts(log)[n + 1], x)
        BY Zenon DEF FileInv, Covering
      <4>2. n \in 0..Len(log)
        BY <3>0, SMTT(60) DEF FileInv
      <4>3. Starts(log)[n + 1] <= EndOf(log)
        <5>1. /\ EndOf(SubSeq(log, 1, n)) = Starts(log)[n + 1]
              /\ EndOf(SubSeq(log, 1, n)) <= EndOf(log)
          BY <3>0, <4>2, Cut, Zenon
        <5> QED
          BY <5>1, Zenon
      <4> QED
        BY <3>5, <4>1, <4>3, SMTT(60) DEF H
    <3>10. (Sound => cache[0].kind = "hdr" /\ media[0].kind = "hdr")'
      <4>1. Sound => media[0].kind = "hdr"
        BY Zenon DEF FileInv
      <4>2. CASE c = Junk /\ happened' = happened \cup {"torn"}
        BY <4>2, Zenon DEF Sound
      <4>3. CASE c = H(EndOf(log), fl) /\ happened' = happened
        BY <3>1, <3>4, <4>1, <4>3, SMTT(60) DEF Sound, H
      <4> QED
        BY <4>2, <4>3, Zenon
    <3>11. (dirty \subseteq Nat /\ \A o \in dirty : o = 0 \/ o >= EndOf(log))'
      BY <3>4, SMTT(60) DEF FileInv
    <3>12. (log \in Seq(Records) /\ durable \in 0..Len(log) /\ EndOf(log) <= MaxCells + 1)'
      BY Zenon DEF FileInv
    <3>13. FileInv'
      BY <3>1, <3>6, <3>7, <3>8, <3>9, <3>10, <3>11, <3>12, ZenonT(40) DEF FileInv
    <3> QED
      BY <3>1, <3>4, <3>13, Zenon
  <2>0. /\ FileInv /\ exists /\ end = EndOf(log) /\ rc # "CORRUPT"
        /\ walpos \in Nat \ {0} /\ ProgramInv /\ flags \subseteq {"DIRTY", "WAL_PRESENT"} /\ pc # "down"
    BY OpenHandle, Zenon DEF WriteHeader
  <2>1. pc = "write header" /\ UNCHANGED <<end, flags, rec, wal, walpos, log, durable>>
    BY Zenon DEF WriteHeader, db, waldata
  <2>2. CASE Write(0, <<H(end, flags)>>, 1) /\ pc' = "sync header" /\ UNCHANGED <<rc, happened>>
    <3>1. FileInv' /\ cache'[0] = H(end, flags) /\ dirty' = dirty \cup {0} /\ exists'
      BY <2>0, <2>1, <2>2, <2>HeaderKeeps, ZenonT(40)
    <3>2. Appending'
      BY <2>1, <2>2, <3>1, ZenonT(40) DEF Appending
    <3>3. ProgramInv'
      BY <2>0, <2>1, <2>2, <3>1, <3>2, ProgramStep, ZenonT(40)
    <3> QED
      BY <3>1, <3>3, Zenon DEF Laid
  <2>3. CASE Fails /\ UNCHANGED <<file, happened>>
    <3>1. FileInv'
      BY <2>0, <2>1, <2>3, FileKept, Zenon DEF Sound
    <3>2. exists'
      BY <2>0, <2>3, Zenon DEF file
    <3> QED
      BY <2>0, <2>1, <2>3, <3>1, <3>2, <1>FailsKeeps, ZenonT(40)
  <2>4. CASE Fails /\ Write(0, <<Junk>>, 1) /\ happened' = happened \cup {"torn"}
    <3>1. FileInv' /\ exists'
      BY <2>0, <2>1, <2>4, <2>HeaderKeeps, ZenonT(40)
    <3> QED
      BY <2>0, <2>1, <2>4, <3>1, <1>FailsKeeps, ZenonT(40)
  <2> QED
    BY <2>2, <2>3, <2>4, ZenonT(40) DEF WriteHeader
\* The header on the media.
<1>SyncHeaderKeeps.
    ASSUME Laid, SyncHeader
    PROVE  Laid'
  \* The sync that follows the header promises every record of the log.
  <2> USE <1>SyncHeaderKeeps
  <2>PromiseKeeps.
      ASSUME FileInv, exists, Sync, cache[0] = H(EndOf(log), flags), 0 \in dirty,
             flags \subseteq {"DIRTY", "WAL_PRESENT"},
             durable' = Len(log), UNCHANGED log
      PROVE  FileInv' /\ exists'
    <3> USE <2>PromiseKeeps
    <3>0. EndOf(log) \in 1..(MaxCells + 1) /\ log \in Seq(Records) /\ Len(log) \in Nat
      BY LogEnd, Zenon DEF FileInv
    <3>1. media' = Reaching(dirty) /\ dirty' = {} /\ UNCHANGED <<cache, exists>>
      BY Zenon DEF Sync
    <3>2. /\ Celled(media') /\ \A x \in 1..(EndOf(log) - 1) : media[x] = media'[x]
          /\ media'[0] = cache[0]
      BY <3>1, <1>ReachingKeeps, Zenon
    <3>3. Holds(media', log)
      BY <3>0, <3>2, SameHolds, Zenon DEF FileInv
    <3>4. (Holds(cache, log) /\ Holds(media, log))'
      BY <3>1, <3>3, Zenon DEF FileInv, Holds
    <3>5. (Celled(cache) /\ Celled(media))'
      <4>1. Celled(cache)
        BY Zenon DEF FileInv
      <4> QED
        BY <3>1, <3>2, <4>1, Zenon DEF Celled
    <3>6. (Covering(cache[0]) /\ Covering(media[0]))'
      <4>1. Len(log) \in Len(log)..Len(log) /\ EndOf(log) = Starts(log)[Len(log) + 1]
        BY <3>0, SMTT(60) DEF EndOf
      <4>2. cache'[0] = H(EndOf(log), flags) /\ media'[0] = H(EndOf(log), flags)
        BY <3>1, <3>2, Zenon
      <4> QED
        BY <4>1, <4>2, Zenon DEF Covering
    <3>7. cache'[0].kind = "hdr" /\ media'[0].kind = "hdr" /\ media'[0].end <= cache'[0].end
      BY <3>0, <3>1, <3>2, SMTT(60) DEF H
    <3>8. (log \in Seq(Records) /\ durable \in 0..Len(log) /\ EndOf(log) <= MaxCells + 1)'
      BY <3>0
    <3>9. (dirty \subseteq Nat /\ \A o \in dirty : o = 0 \/ o >= EndOf(log))' /\ exists'
      BY <3>1, Zenon
    <3> QED
      BY <3>4, <3>5, <3>6, <3>7, <3>8, <3>9, ZenonT(40) DEF FileInv
  <2>0. /\ FileInv /\ exists /\ end = EndOf(log) /\ rc # "CORRUPT"
        /\ walpos \in Nat \ {0} /\ ProgramInv /\ flags \subseteq {"DIRTY", "WAL_PRESENT"} /\ pc # "down"
    BY OpenHandle, Zenon DEF SyncHeader
  <2>1. pc = "sync header" /\ UNCHANGED <<end, flags, rec, wal, walpos, log>>
    BY ZenonT(40) DEF SyncHeader, db
  <2>2. cache[0] = H(end, flags) /\ 0 \in dirty
    BY <2>0, <2>1, Zenon DEF ProgramInv, Appending
  <2>3. CASE /\ Sync /\ pc' = After /\ durable' = Len(log)
             /\ rc' = (IF for \in {"create", "ready"} THEN "OK" ELSE rc)
             /\ happened' = happened \ {"unfinished", "torn"}
    <3>1. rc' # "CORRUPT"
      BY <2>0, <2>3, Zenon
    <3>2. FileInv' /\ exists'
      BY <2>0, <2>1, <2>2, <2>3, <2>PromiseKeeps, Zenon
    <3>3. pc' \in {"delete wal", "replay", "down", "idle"}
      BY <2>3, Zenon DEF After
    <3>4. Appending'
      BY <3>3, NotAppending, Zenon
    <3>5. ProgramInv'
      BY <2>0, <2>1, <3>1, <3>2, <3>4, ProgramStep, ZenonT(40)
    <3> QED
      BY <3>2, <3>5, Zenon DEF Laid
  <2>4. CASE SyncFails /\ Fails /\ UNCHANGED <<durable, happened>>
    <3>1. FileInv' /\ exists'
      BY <2>0, <2>1, <2>4, <1>SyncKeeps, Zenon DEF Sound
    <3> QED
      BY <2>0, <2>1, <2>4, <3>1, <1>FailsKeeps, ZenonT(40)
  <2> QED
    BY <2>3, <2>4, ZenonT(40) DEF SyncHeader
\* The process or the machine dies.
<1>StopKeeps.
    ASSUME Laid, Kill \/ PowerLoss
    PROVE  Laid'
  \* A power loss: the cells that are lost or torn are behind the log.
  <2> USE <1>StopKeeps
  <2>PowerKeeps.
      ASSUME FileInv, PowerLoss
      PROVE  FileInv'
    <3> USE <2>PowerKeeps
    <3>1. PICK some \in SUBSET dirty :
            \E torn \in SUBSET {o \in some : cache[o].kind \in {"rec", "hdr"}} :
              /\ media' = [o \in Offsets |-> IF o \in torn THEN Junk ELSE Reaching(some)[o]]
              /\ happened' = happened \cup Left \cup (IF 0 \in torn THEN {"torn"} ELSE {})
      BY Zenon DEF PowerLoss
    <3>2. PICK torn \in SUBSET {o \in some : cache[o].kind \in {"rec", "hdr"}} :
              /\ media' = [o \in Offsets |-> IF o \in torn THEN Junk ELSE Reaching(some)[o]]
              /\ happened' = happened \cup Left \cup (IF 0 \in torn THEN {"torn"} ELSE {})
      BY <3>1, Zenon
    <3>3. exists /\ cache' = media' /\ dirty' = {} /\ UNCHANGED <<log, durable>>
          /\ (exists' = TRUE \/ (exists' = FALSE /\ media' = Blank))
      BY Zenon DEF PowerLoss, Stops
    <3>4. /\ Celled(Reaching(some))
          /\ \A x \in 1..(EndOf(log) - 1) : Reaching(some)[x] = media[x]
          /\ Reaching(some)[0] = IF 0 \in some THEN cache[0] ELSE media[0]
      BY <1>ReachingKeeps, Zenon
    <3>5. \A o \in Offsets : media'[o] = IF o \in torn THEN Junk ELSE Reaching(some)[o]
      BY <3>2, Zenon
    <3>6. EndOf(log) \in 1..(MaxCells + 1) /\ MaxCells \in Nat
      BY LogEnd, Zenon
    <3>7. Celled(media')
      <4>1. media' = [o \in Offsets |-> media'[o]]
        BY <3>2, Zenon
      <4>2. Junk.kind # "rec"
        BY Zenon DEF Junk
      <4>3. \A o \in Offsets : Reaching(some)[o].kind = "rec" => Reaching(some)[o].plen \in Nat
        BY <3>4, Zenon DEF Celled
      <4>4. \A o \in Offsets : media'[o].kind = "rec" => media'[o].plen \in Nat
        BY <3>5, <4>2, <4>3, Zenon
      <4> QED
        BY <4>1, <4>4, Zenon DEF Celled
    <3>8. ASSUME NEW x \in 1..(EndOf(log) - 1) PROVE media'[x] = media[x]
      <4>1. x \in Offsets /\ x # 0 /\ ~(x >= EndOf(log))
        BY <3>6, SMTT(60) DEF Offsets
      <4>2. x \notin torn
        BY <4>1, Zenon DEF FileInv
      <4> QED
        BY <3>4, <3>5, <4>1, <4>2, Zenon
    <3>9. 0 \in Offsets
      BY <3>6, SMTT(60) DEF Offsets
    <3>10. media'[0] \in {cache[0], media[0]} \/ (~Sound' /\ media'[0].kind # "hdr")
      <4>1. CASE 0 \in torn
        <5>1. "torn" \in happened'
          BY <3>2, <4>1, Zenon
        <5>2. ~Sound'
          BY <5>1, Zenon DEF Sound
        <5> QED
          BY <3>5, <3>9, <4>1, <5>2, SMTT(60) DEF Junk
      <4>2. CASE 0 \notin torn
        BY <3>4, <3>5, <3>9, <4>2, Zenon
      <4> QED
        BY <4>1, <4>2, Zenon
    <3>11. Sound' => Sound
      BY <3>2, Zenon DEF Sound
    <3> QED
      BY <3>3, <3>7, <3>8, <3>10, <3>11, <1>MediaChanged, ZenonT(40)
  <2>0. FileInv /\ ProgramInv
    BY Zenon DEF Laid
  <2>1. pc' = "down" /\ UNCHANGED <<flags, wal, walpos, rc>>
    BY Zenon DEF Kill, PowerLoss, Stops, db, waldata
  <2>2. FileInv'
    <3>1. CASE Kill
      <4>1. UNCHANGED <<file, log, durable>> /\ (Sound' => Sound)
        BY <3>1, Zenon DEF Kill, Stops, Sound
      <4> QED
        BY <2>0, <4>1, FileKept, Zenon
    <3>2. CASE PowerLoss
      BY <2>0, <3>2, <2>PowerKeeps, Zenon
    <3> QED
      BY <3>1, <3>2, Zenon
  <2>3. happened \subseteq happened'
    BY Zenon DEF Kill, PowerLoss
  <2>4. ~Sound => ~Sound'
    BY <2>3, Zenon DEF Sound
  <2>5. Appending'
    BY <2>1, NotAppending, Zenon
  <2>6. ProgramInv'
    BY <2>0, <2>1, <2>3, <2>4, <2>5, Zenon DEF ProgramInv
  <2> QED
    BY <2>2, <2>6, Zenon DEF Laid
\* A WAL file that another writer leaves.
<1>WalAppearsKeeps.
    ASSUME Laid, WalAppears
    PROVE  Laid'
  \* A writer that leaves a WAL file changes the flags in the header.
  <2> USE <1>WalAppearsKeeps
  <2>WalKeeps.
      ASSUME FileInv, WalAppears
      PROVE  FileInv'
    <3> USE <2>WalKeeps
    <3>1. /\ cache[0].kind = "hdr" /\ cache[0] = media[0]
          /\ UNCHANGED <<dirty, exists, log, durable, happened>>
      BY Zenon DEF WalAppears, history
    <3>2. PICK fl \in {{"WAL_PRESENT"}, {"DIRTY"}} :
            /\ cache' = [cache EXCEPT ![0].flags = @ \cup fl]
            /\ media' = [media EXCEPT ![0].flags = @ \cup fl]
      BY Zenon DEF WalAppears
    <3>3. PICK n \in durable..Len(log), fm \in SUBSET {"DIRTY", "WAL_PRESENT"} :
             cache[0] = H(Starts(log)[n + 1], fm)
      BY <3>1, Zenon DEF FileInv, Covering
    <3>4. PICK c : c = H(Starts(log)[n + 1], fm \cup fl)
      BY Zenon
    <3>5. cache' = [cache EXCEPT ![0] = c] /\ media' = [media EXCEPT ![0] = c]
      <4>1. [cache[0] EXCEPT !.flags = @ \cup fl] = c
        <5>1. PICK e : e = Starts(log)[n + 1]
          BY Zenon
        <5> DEFINE y == H(e, fm)
        <5>2. y.flags = fm /\ \A z : [y EXCEPT !.flags = z] = H(e, z)
          BY DEF H
        <5> HIDE DEF y
        <5>3. [y EXCEPT !.flags = @ \cup fl] = [y EXCEPT !.flags = y.flags \cup fl]
          BY Zenon
        <5>4. [y EXCEPT !.flags = @ \cup fl] = H(e, fm \cup fl)
          BY <5>2, <5>3, Zenon
        <5> QED
          BY <3>3, <3>4, <5>1, <5>4, Zenon DEF y
      <4>2. /\ cache' = [cache EXCEPT ![0] = [cache[0] EXCEPT !.flags = @ \cup fl]]
            /\ media' = [media EXCEPT ![0] = [media[0] EXCEPT !.flags = @ \cup fl]]
        BY <3>2, Zenon
      <4> QED
        BY <3>1, <4>1, <4>2, Zenon
    <3>6. /\ c.kind = "hdr" /\ c.end = cache[0].end
          /\ \E m \in durable..Len(log), x \in SUBSET {"DIRTY", "WAL_PRESENT"} :
               c = H(Starts(log)[m + 1], x)
      BY <3>3, <3>4, SMTT(60) DEF H
    <3>7. Covering(c)
      BY <3>6, Zenon DEF Covering
    <3>8. EndOf(log) \in 1..(MaxCells + 1) /\ MaxCells \in Nat /\ log \in Seq(Records)
      BY LogEnd, Zenon DEF FileInv
    <3>9. ASSUME NEW f, NEW h, Celled(f), Holds(f, log), h = [f EXCEPT ![0] = c]
          PROVE  Celled(h) /\ Holds(h, log) /\ h[0] = c
      <4>1. f = [o \in Offsets |-> f[o]] /\ 0 \in Offsets
            /\ \A o \in Offsets : f[o].kind = "rec" => f[o].plen \in Nat
        BY <3>8, <3>9 DEF Celled, Offsets
      <4>2. h = [o \in Offsets |-> h[o]] /\ \A o \in Offsets : h[o] = IF o = 0 THEN c ELSE f[o]
        BY <3>9, <4>1, Zenon
      <4>3. Celled(h)
        BY <3>6, <4>1, <4>2, Zenon DEF Celled
      <4>4. \A x \in 1..(EndOf(log) - 1) : f[x] = h[x]
        BY <3>8, <4>2 DEF Offsets
      <4>5. Holds(h, log)
        BY <3>8, <3>9, <4>4, SameHolds, Zenon
      <4> QED
        BY <4>1, <4>2, <4>3, <4>5, Zenon
    <3>10. /\ Celled(cache') /\ Holds(cache', log) /\ cache'[0] = c
           /\ Celled(media') /\ Holds(media', log) /\ media'[0] = c
      BY <3>5, <3>9, ZenonT(40) DEF FileInv
    <3>11. (Covering(cache[0]) /\ Covering(media[0]))'
      BY <3>1, <3>7, <3>10, SameCover, Zenon
    <3>12. (Celled(cache) /\ Celled(media) /\ Holds(cache, log) /\ Holds(media, log))'
      BY <3>1, <3>10, Zenon DEF Celled
    <3>13. c.end <= c.end
      <4>1. n + 1 \in 1..(Len(log) + 1)
        BY <3>8, SMTT(60) DEF FileInv
      <4> QED
        BY <3>4, <3>8, <4>1, StartsFacts, SMTT(60) DEF H
    <3>14. /\ cache'[0].kind = "hdr" /\ media'[0].kind = "hdr" /\ media'[0].end <= cache'[0].end
      BY <3>6, <3>10, <3>13, Zenon
    <3>15. exists
      <4>1. Blank[0].kind # "hdr"
        BY <3>8, SMTT(60) DEF Blank, None, Offsets
      <4> QED
        BY <3>1, <4>1, Zenon DEF FileInv
    <3>16. (log \in Seq(Records) /\ durable \in 0..Len(log) /\ EndOf(log) <= MaxCells + 1)'
      BY <3>1, Zenon DEF FileInv
    <3>17. (dirty \subseteq Nat /\ \A o \in dirty : o = 0 \/ o >= EndOf(log))' /\ exists'
      BY <3>1, <3>15, Zenon DEF FileInv
    <3> QED
      BY <3>11, <3>12, <3>14, <3>16, <3>17, Zenon DEF FileInv
  <2>0. FileInv /\ ProgramInv
    BY Zenon DEF Laid
  <2>1. /\ pc = "down" /\ ~wal.there
        /\ UNCHANGED <<exists, pc, end, flags, rec, walpos, rc, log, durable, happened>>
    BY Zenon DEF WalAppears, db, history
  <2>2. PICK w \in WalFiles : wal' = [there |-> TRUE, recs |-> w]
    BY ZenonT(40) DEF WalAppears
  <2>3. FileInv'
    BY <2>0, <2>WalKeeps, Zenon
  <2>4. wal = NoWal
    BY <2>0, <2>1, Zenon DEF ProgramInv
  <2>5. rc = "CORRUPT" => ~Sound
    <3>1. wal.recs = << >>
      BY <2>4, Zenon DEF NoWal
    <3>2. BadRecord \notin Range(wal.recs)
      BY <3>1 DEF Range
    <3> QED
      BY <2>0, <3>2, Zenon DEF ProgramInv
  <2>6. wal'.recs \in Seq(Records \cup {BadRecord}) /\ wal'.there
    BY <2>2, LayoutAssumption, Zenon
  <2>7. Appending'
    BY <2>1, NotAppending, Zenon
  <2>8. ProgramInv'
    BY <2>0, <2>1, <2>5, <2>6, <2>7, Zenon DEF ProgramInv, Sound
  <2> QED
    BY <2>3, <2>8, Zenon DEF Laid
<1> QED
  BY <1>OpenNewKeeps, <1>OpenOldKeeps, <1>ReplayWalKeeps, <1>WalGoneKeeps, <1>TruncateTailKeeps,
     ValidateKeeps, <1>QuietActions, <1>WriteBodyKeeps, <1>SyncBodyKeeps, <1>WriteMarkerKeeps,
     <1>SyncMarkerKeeps, <1>WriteHeaderKeeps, <1>SyncHeaderKeeps, <1>StopKeeps, <1>WalAppearsKeeps, Zenon DEF Next

\* A stuttering step does, too.
LEMMA StutterKeepsLaid ==
  ASSUME Laid, UNCHANGED vars
  PROVE  Laid'
<1>1. /\ UNCHANGED <<cache, media, dirty, exists, pc, end, flags, rec, wal, walpos, rc>>
      /\ UNCHANGED <<log, durable, happened>>
  BY Zenon DEF vars, file, db, waldata, history
<1>2. FileInv /\ ProgramInv
  BY Zenon DEF Laid
<1>3. FileInv'
  BY <1>1, <1>2, FileKept, Zenon DEF file, Sound
<1>4. Appending'
  BY <1>1, <1>2, ZenonT(40) DEF ProgramInv, Appending, HasBody, Cells, RecLen
<1>5. ProgramInv'
  BY <1>1, <1>2, <1>4, Zenon DEF ProgramInv, Sound
<1> QED
  BY <1>3, <1>5, Zenon DEF Laid

\* As long as nothing is damaged.
LEMMA StepKeepsLog ==
  ASSUME LInv, [Next]_vars
  PROVE  LInv'
<1> SUFFICES ASSUME "damaged" \notin happened' PROVE Laid' /\ "cut" \notin happened'
  BY Zenon DEF LInv
<1>1. CASE UNCHANGED vars
  <2>1. happened' = happened
    BY <1>1, Zenon DEF vars, history
  <2> QED
    BY <1>1, <2>1, StutterKeepsLaid, Zenon DEF LInv
<1>2. CASE Next /\ ~Damage
  <2>1. "damaged" \notin happened /\ Laid /\ "cut" \notin happened
    BY <1>2, Remembers, Zenon DEF LInv
  <2>2. Laid'
    BY <1>2, <2>1, StepKeepsLaid, Zenon
  <2> QED
    BY <1>2, <2>1, <2>2, ValidateKeeps, CutByValidation, Zenon
<1>3. CASE Damage
  BY <1>3, Zenon DEF Damage
<1> QED
  BY <1>1, <1>2, <1>3, Zenon

\* There is no file at first.
LEMMA InitLaid ==
  ASSUME Init
  PROVE  Laid
<1>0. MaxCells \in Nat
  BY LayoutAssumption, Zenon
<1>1. /\ cache = Blank /\ media = Blank /\ dirty = {} /\ exists = FALSE /\ pc = "down" /\ flags = {}
      /\ wal = NoWal /\ walpos = 1 /\ rc = "none" /\ log = << >> /\ durable = 0 /\ happened = {}
  BY Zenon DEF Init
<1>2. \A o \in Offsets : Blank[o] = None
  BY Zenon DEF Blank
<1>3. Celled(Blank)
  <2>1. Blank = [o \in Offsets |-> Blank[o]]
    BY Zenon DEF Blank
  <2>2. None.kind # "rec"
    BY Zenon DEF None
  <2> QED
    BY <1>2, <2>1, <2>2, Zenon DEF Celled
<1>4. log \in Seq(Records) /\ Len(log) = 0
  BY <1>1
<1>5. PICK k : k = Len(log) + 1
  BY Zenon
<1>6. k = 1 /\ EndOf(log) = Starts(log)[k]
  BY <1>4, <1>5 DEF EndOf
<1>7. Starts(log)[1] = 1
  BY <1>4, StartsFacts, Zenon
<1>8. EndOf(log) = 1
  BY <1>6, <1>7, Zenon
<1>9. \A f : Holds(f, log)
  BY <1>4 DEF Holds
<1>10. Covering(Blank[0])
  <2>1. 0 \in Offsets
    BY <1>0 DEF Offsets
  <2> QED
    BY <1>2, <2>1, SMTT(60) DEF Covering, None
<1>11. Blank[0].kind # "hdr"
  <2>1. 0 \in Offsets
    BY <1>0, SMTT(60) DEF Offsets
  <2> QED
    BY <1>2, <2>1 DEF None
<1>12. FileInv
  BY <1>0, <1>1, <1>3, <1>4, <1>8, <1>9, <1>10, <1>11, SMTT(60) DEF FileInv
<1>13. wal.recs = << >> /\ wal = NoWal
  BY <1>1, Zenon DEF NoWal
<1>14. wal.recs \in Seq(Records \cup {BadRecord})
  BY <1>13, SMTT(60)
<1>15. ProgramInv
  BY <1>1, <1>14, SMTT(60) DEF ProgramInv, Appending
<1> QED
  BY <1>12, <1>15, Zenon DEF Laid

\* As long as the media is not damaged, both copies of the file hold the
\* records appended, in order and without a gap, and each header ends behind
\* one of them, at or behind the last one that a header update promised.
THEOREM LogLaidOut == Spec => []LInv
<1>1. Init => LInv
  BY InitLaid, ZenonT(40) DEF LInv, Init
<1>2. LInv /\ [Next]_vars => LInv'
  BY StepKeepsLog, Zenon
<1> QED
  BY <1>1, <1>2, PTL DEF Spec

\* What the header on the media covers are records of the log, in order, at
\* least those a successful header update promised: qdb__append_record and
\* qdb__header_update sync in the order that this needs, and a call that goes
\* on after a failed write or sync does not break it.
THEOREM PromisesKept == Spec => []PromisedDurable
<1>1. LInv => PromisedDurable
  <2> SUFFICES ASSUME LInv, exists, Sound
               PROVE  /\ media[0].kind = "hdr"
                      /\ LET s == Scan(media, media[0].end) IN
                         /\ s.rc = "END" /\ Len(s.recs) \in durable..Len(log)
                         /\ s.recs = SubSeq(log, 1, Len(s.recs))
    BY Zenon DEF PromisedDurable
  <2>1. "damaged" \notin happened
    BY Zenon DEF Sound
  <2>2. FileInv
    BY <2>1, Zenon DEF LInv, Laid
  <2>3. media[0].kind = "hdr" /\ log \in Seq(Records) /\ durable \in 0..Len(log) /\ Len(log) \in Nat
        /\ Celled(media) /\ Holds(media, log) /\ EndOf(log) \in 1..(MaxCells + 1) /\ MaxCells \in Nat
    BY <2>2, LogEnd, ZenonT(40) DEF FileInv
  <2>4. PICK n \in durable..Len(log), fl \in SUBSET {"DIRTY", "WAL_PRESENT"} : media[0] = H(Starts(log)[n + 1], fl)
    BY <2>2, <2>3, ZenonT(40) DEF FileInv, Covering
  <2>5. n \in 0..Len(log) /\ n >= durable /\ media[0].end = Starts(log)[n + 1]
    BY <2>3, <2>4, SMTT(60) DEF H
  <2>6. PICK t : t = SubSeq(log, 1, n)
    BY ZenonT(40)
  <2>7. /\ t \in Seq(Records) /\ Len(t) = n /\ EndOf(t) = Starts(log)[n + 1]
        /\ \A i \in 1..n : t[i] = log[i]
        /\ EndOf(t) \in Nat \ {0} /\ EndOf(t) <= EndOf(log) /\ Holds(media, t)
    BY <2>3, <2>5, <2>6, Cut, SMTT(60)
  <2>8. EndOf(t) <= MaxCells + 1
    BY <2>3, <2>7, SMTT(60)
  <2>9. Scan(media, media[0].end) = [rc |-> "END", at |-> EndOf(t), recs |-> t]
    BY <2>3, <2>5, <2>7, <2>8, ScanHolds, ZenonT(40)
  <2>10. Len(t) \in durable..Len(log) /\ t = SubSeq(log, 1, Len(t))
    BY <2>3, <2>5, <2>6, <2>7, Zenon
  <2> QED
    BY <2>3, <2>5, <2>7, <2>9, <2>10, SMTT(60)
<1> QED
  BY <1>1, LogLaidOut, PTL

\* qdb_open refuses a database only for damage, a torn header, an unfinished
\* creation or a damaged WAL file.
THEOREM NeverRefusedWithoutCause == Spec => []RefusedForCause
<1>1. LInv => RefusedForCause
  BY Zenon DEF LInv, Laid, ProgramInv, RefusedForCause, Sound
<1> QED
  BY <1>1, LogLaidOut, PTL

\* validate_log cuts off a record only after damage.
THEOREM NothingCutUndamaged == Spec => []CutOnlyDamage
<1>1. LInv => CutOnlyDamage
  BY Zenon DEF LInv, Laid, ProgramInv, CutOnlyDamage
<1> QED
  BY <1>1, LogLaidOut, PTL

-----------------------------------------------------------------------------
(* The WAL file *)

\* A WAL file whose records a header covers is about to be deleted, or was
\* left behind; while one is replayed, it is there.
WalInv ==
  /\ walruns \in Nat
  /\ walruns > 1 => "walkept" \in happened
  /\ walruns >= 1 /\ wal.there => pc = "delete wal" \/ "walkept" \in happened
  /\ pc = "delete wal" => walruns >= 1
  /\ pc \in {"body", "sync body", "marker", "sync marker", "write header", "sync header"}
       /\ for = "wal" => wal.there

\* What WalOnce says of a step.
WalStep ==
  /\ wal.there /\ ~wal'.there => walruns' = 1 \/ happened' \cap {"walkept", "walunread"} # {}
  /\ walruns' > 1 => "walkept" \in happened

\* Every step keeps WalInv and is one that WalOnce allows.
LEMMA StepKeepsWal ==
  ASSUME WalInv, [Next]_vars
  PROVE  WalInv' /\ WalStep
<1>0. /\ walruns \in Nat
      /\ walruns > 1 => "walkept" \in happened
      /\ walruns >= 1 /\ wal.there => pc = "delete wal" \/ "walkept" \in happened
      /\ pc = "delete wal" => walruns >= 1
      /\ pc \in {"body", "sync body", "marker", "sync marker", "write header", "sync header"}
           /\ for = "wal" => wal.there
  BY ZenonT(40) DEF WalInv
<1>1. CASE UNCHANGED vars
  BY <1>0, <1>1, ZenonT(40) DEF vars, waldata, history, WalInv, WalStep
<1>2. CASE OpenNew \/ OpenOld
  BY <1>0, <1>2, ZenonT(40) DEF OpenNew, OpenOld, Refuse, waldata, WalInv, WalStep
<1>3. CASE replay_wal
  BY <1>0, <1>3, ZenonT(40) DEF replay_wal, Refuse, history, WalInv, WalStep
<1>4. CASE WalUnread
  BY <1>0, <1>4, Zenon DEF WalUnread, NoWal, WalInv, WalStep
<1>5. CASE DeleteWal
  <2>1. /\ pc = "delete wal" /\ pc' = "truncate" /\ UNCHANGED walruns
        /\ (wal' = NoWal /\ happened' = happened) \/ (happened' = happened \cup {"walkept"} /\ wal' = wal)
    BY <1>5, Zenon DEF DeleteWal
  <2>2. walruns = 1 \/ walruns > 1
    <3>1. walruns \in Nat /\ walruns >= 1
      BY <1>0, <2>1, Zenon
    <3> QED
      BY <3>1
  <2>3. NoWal.there = FALSE
    BY Zenon DEF NoWal
  <2> QED
    BY <1>0, <2>1, <2>2, <2>3, ZenonT(40) DEF WalInv, WalStep
<1>6. CASE TruncateTail
  BY <1>0, <1>6, ZenonT(40) DEF TruncateTail, Refuse, waldata, history, WalInv, WalStep
<1>7. CASE validate_log
  <2>1. UNCHANGED waldata /\ happened \subseteq happened'
    BY <1>7, Zenon DEF validate_log, history
  <2>2. (pc' = "write header" /\ for' = "cut") \/ pc' = "replay" \/ pc' = "down"
    BY <1>7, Zenon DEF validate_log, Refuse
  <2>3. UNCHANGED <<wal, walruns>> /\ pc = "validate"
    BY <1>7, <2>1, Zenon DEF validate_log, waldata
  <2>4. WalInv'
    BY <1>0, <2>1, <2>2, <2>3, ZenonT(40) DEF WalInv
  <2> QED
    BY <1>0, <2>1, <2>3, <2>4, Zenon DEF WalStep
<1>8. CASE ReplayLog \/ OpenFails \/ qdb_close \/ \E r \in Records : AppendRecord(r)
  BY <1>0, <1>8, ZenonT(40) DEF ReplayLog, OpenFails, qdb_close, AppendRecord, Refuse, waldata, history, WalInv, WalStep
<1>9. CASE WriteBody
  BY <1>0, <1>9, ZenonT(40) DEF WriteBody, Fails, waldata, history, WalInv, WalStep
<1>10. CASE SyncBody
  BY <1>0, <1>10, ZenonT(40) DEF SyncBody, Fails, waldata, history, WalInv, WalStep
<1>11. CASE WriteMarker
  BY <1>0, <1>11, ZenonT(40) DEF WriteMarker, Fails, waldata, history, WalInv, WalStep
<1>12. CASE SyncMarker
  BY <1>0, <1>12, ZenonT(40) DEF SyncMarker, Fails, waldata, history, WalInv, WalStep
<1>13. CASE WriteHeader
  BY <1>0, <1>13, ZenonT(40) DEF WriteHeader, Fails, waldata, history, WalInv, WalStep
<1>14. CASE SyncHeader
  <2>1. pc = "sync header" /\ UNCHANGED <<for, wal>>
    BY <1>14, Zenon DEF SyncHeader
  <2>2. CASE /\ pc' = After /\ happened' = happened \ {"unfinished", "torn"}
             /\ walruns' = (IF for = "wal" THEN walruns + 1 ELSE walruns)
    <3>1. CASE for = "wal"
      <4>1. pc' = "delete wal" /\ walruns' = walruns + 1 /\ wal.there
        BY <1>0, <2>1, <2>2, <3>1, Zenon DEF After
      <4>2. walruns \in Nat /\ (walruns >= 1 => "walkept" \in happened)
        BY <1>0, <2>1, <4>1, Zenon
      <4>3. walruns' \in Nat /\ walruns' >= 1 /\ (walruns' > 1 => "walkept" \in happened)
        <5>1. walruns' = walruns + 1
          BY <4>1, Zenon
        <5>2. walruns' \in Nat /\ walruns' >= 1 /\ (walruns' > 1 => walruns >= 1)
          BY <4>2, <5>1, SMTT(60)
        <5> QED
          BY <4>2, <5>2, Zenon
      <4> QED
        BY <2>1, <2>2, <4>1, <4>3, Zenon DEF WalInv, WalStep
    <3>2. CASE for # "wal"
      <4>1. pc' \notin {"delete wal", "body", "sync body", "marker", "sync marker", "write header", "sync header"}
        BY <2>2, <3>2, Zenon DEF After
      <4> QED
        BY <1>0, <2>1, <2>2, <3>2, <4>1, Zenon DEF WalInv, WalStep
    <3> QED
      BY <3>1, <3>2, Zenon
  <2>3. CASE Fails /\ UNCHANGED <<happened, walruns>>
    BY <1>0, <2>1, <2>3, ZenonT(40) DEF Fails, WalInv, WalStep
  <2> QED
    BY <1>14, <2>2, <2>3, ZenonT(40) DEF SyncHeader
<1>15. CASE Kill
  BY <1>0, <1>15, ZenonT(40) DEF Kill, Stops, Left, waldata, history, WalInv, WalStep
<1>16. CASE PowerLoss
  <2>1. UNCHANGED waldata /\ pc' = "down" /\ happened \cup Left \subseteq happened'
    BY <1>16, Zenon DEF PowerLoss, Stops
  <2> QED
    BY <1>0, <2>1, ZenonT(40) DEF Left, waldata, WalInv, WalStep
<1>17. CASE WalAppears
  BY <1>0, <1>17, SMTT(60) DEF WalAppears, waldata, history, WalInv, WalStep
<1>18. CASE Damage
  BY <1>0, <1>18, Zenon DEF Damage, waldata, history, WalInv, WalStep
<1> QED
  BY <1>1, <1>2, <1>3, <1>4, <1>5, <1>6, <1>7, <1>8, <1>9, <1>10, <1>11, <1>12, <1>13, <1>14,
     <1>15, <1>16, <1>17, <1>18, SMTT(60) DEF Next

\* replay_wal brings the records of a WAL file into the log once, and the file
\* is deleted only after a synced header covers them, unless it stays behind
\* or could not be read.
THEOREM WalReplayedOnce == Spec => WalOnce
<1>1. Init => WalInv
  BY SMTT(60) DEF Init, WalInv, NoWal
<1>2. WalInv /\ [Next]_vars => WalInv'
  BY StepKeepsWal, Zenon
<1>3. WalInv /\ [Next]_vars => [WalStep]_vars
  BY StepKeepsWal, Zenon
<1>4. Spec => [][WalStep]_vars
  BY <1>1, <1>2, <1>3, PTL DEF Spec
<1> QED
  BY <1>4, Zenon DEF WalOnce, WalStep
=============================================================================












