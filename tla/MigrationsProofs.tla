-------------------------- MODULE MigrationsProofs --------------------------
(* Theorems about Migrations for every value of its constants.              *)
EXTENDS Migrations, SequenceTheorems, TLAPS

-----------------------------------------------------------------------------
(* The inductive invariant                                                   *)

\* A build is at work.
Working == pc \in {"snapshot", "prune", "migrate", "running"}

\* A build only works on a whole database it knows; a restore knows what it copies,
\* and copies it next to no log.
Steady ==
    /\ Working => main # Torn /\ View.ver <= image
    /\ pc \in {"unlink", "copy"} => source \in Content
    /\ pc = "copy" => wal = None

Honest(f) == f \notin {None, Torn} => f.schema = 1..f.ver

AllHonest ==
    /\ Honest(main) /\ Honest(wal) /\ Honest(aside) /\ Honest(source)
    /\ \A v \in Versions : Honest(snap[v])
    /\ \A i \in 1..Len(backups) : Honest(backups[i])

\* The i-th last snapshot, when no later one is of its version.
Latest(i) == \A j \in 1..i - 1 : taken[j].of # taken[i].of

\* It is among the i newest files and the sidecars, as it was taken; and among
\* the newest of all while the boot that took it prunes.
Held(i) ==
    /\ snap[taken[i].of] = taken[i].file
    /\ \E k \in 1..Len(order) :
          k <= i + beside /\ order[k] = taken[i].of /\ (pc = "prune" /\ i = 1 => k = 1)

InOrder == \A i \in 1..Len(taken) : (i = 1 \/ i + beside <= Kept) /\ Latest(i) => Held(i)

Inv == TypeOK /\ Steady /\ AllHonest /\ InOrder

LEMMA HonestMeans == AllHonest <=> VersionTellsSchema
BY DEF AllHonest, Honest, VersionTellsSchema

-----------------------------------------------------------------------------
(* Sequences                                                                 *)

\* One more at the front moves the others up by one.
LEMMA Fronted ==
    ASSUME NEW S, NEW x \in S, NEW s \in Seq(S)
    PROVE  /\ <<x>> \o s \in Seq(S) /\ Len(<<x>> \o s) = Len(s) + 1
           /\ (<<x>> \o s)[1] = x
           /\ \A i \in 1..Len(s) : (<<x>> \o s)[i + 1] = s[i]
OBVIOUS

\* The front of a sequence.
LEMMA Front ==
    ASSUME NEW S, NEW s \in Seq(S), NEW n \in 0..Len(s)
    PROVE  /\ SubSeq(s, 1, n) \in Seq(S) /\ Len(SubSeq(s, 1, n)) = n
           /\ \A i \in 1..n : SubSeq(s, 1, n)[i] = s[i]
OBVIOUS

\* A backup is added and no more than Keep stay.
LEMMA NewerBackups ==
    ASSUME TypeOK, AllHonest, NEW f \in Content \cup {Torn}, Honest(f)
    PROVE  /\ Newer(f) \in Seq(Content \cup {Torn}) /\ Len(Newer(f)) <= Keep
           /\ <<f>> \o backups \in Seq(Content \cup {Torn})
           /\ Len(<<f>> \o backups) = Len(backups) + 1
           /\ \A i \in 1..Len(Newer(f)) : Honest(Newer(f)[i])
           /\ \A i \in 1..Len(<<f>> \o backups) : Honest((<<f>> \o backups)[i])
<1> DEFINE s == <<f>> \o backups
           n == IF Len(backups) < Keep THEN Len(backups) + 1 ELSE Keep
<1>1. /\ s \in Seq(Content \cup {Torn}) /\ Len(s) = Len(backups) + 1 /\ s[1] = f
      /\ \A i \in 1..Len(backups) : s[i + 1] = backups[i]
  BY Fronted DEF TypeOK
<1>2. n \in 0..Len(s) /\ n <= Keep
  BY <1>1, MigrationAssumption DEF TypeOK
<1>3. \A i \in 1..Len(s) : Honest(s[i])
  <2> TAKE i \in 1..Len(s)
  <2>1. CASE i = 1 BY <2>1, <1>1
  <2>2. CASE i # 1
    <3>1. i - 1 \in 1..Len(backups) /\ s[i] = backups[i - 1]
      BY <2>2, <1>1 DEF TypeOK
    <3> QED BY <3>1 DEF AllHonest
  <2> QED BY <2>1, <2>2
<1>4. /\ SubSeq(s, 1, n) \in Seq(Content \cup {Torn}) /\ Len(SubSeq(s, 1, n)) = n
      /\ \A i \in 1..n : SubSeq(s, 1, n)[i] = s[i]
  <2> HIDE DEF s, n
  <2> QED BY <1>1, <1>2, Front
<1>5. Newer(f) = SubSeq(s, 1, n)
  BY DEF Newer
<1>6. s = <<f>> \o backups
  OBVIOUS
<1> HIDE DEF s, n
<1> QED BY <1>1, <1>2, <1>3, <1>4, <1>5, <1>6

-----------------------------------------------------------------------------
(* The initial states, and what a reader sees                                *)

\* The states the program can start from satisfy the invariant.
LEMMA InitInv == Init => Inv
<1> SUFFICES ASSUME Init PROVE Inv
  OBVIOUS
<1>1. Empty \in Content
  BY MigrationAssumption DEF Empty, Content, Versions
<1>2. TypeOK
  BY <1>1, MigrationAssumption, FileAssumption DEF Init, TypeOK, File, Versions, PCs
<1>3. Steady
  BY DEF Init, Steady, Working
<1>4. AllHonest
  <2>1. Honest(Empty)
    BY DEF Honest, Empty
  <2>2. Honest(None)
    BY DEF Honest
  <2> QED BY <2>1, <2>2 DEF Init, AllHonest
<1>5. InOrder
  BY DEF Init, InOrder
<1> QED BY <1>2, <1>3, <1>4, <1>5 DEF Inv

\* A whole database has whole content, of a known version and honest.
LEMMA ViewIsWhole ==
    ASSUME Inv, main # Torn
    PROVE  View \in Content /\ Honest(View)
BY DEF Inv, TypeOK, AllHonest, View, File

\* Snapshots that nothing is done to stay, while the boot is not at pruning.
LEMMA StillInOrder ==
    ASSUME Inv, UNCHANGED <<snap, order, beside, taken>>, pc' # "prune"
    PROVE  InOrder'
BY DEF Inv, InOrder, Latest, Held

\* One fault more leaves room for one backup more.
LEMMA RoomForBackups ==
    ASSUME Inv, faults' \in 0..MaxFaults, faults <= faults'
    PROVE  Len(backups) <= Keep + faults'
<1>1. Len(backups) \in Nat /\ Keep \in Nat /\ faults \in Nat /\ MaxFaults \in Nat
  BY MigrationAssumption DEF Inv, TypeOK
<1>2. Len(backups) <= Keep + faults
  BY DEF Inv, TypeOK
<1> QED BY <1>1, <1>2

-----------------------------------------------------------------------------
(* Boot                                                                      *)

LEMMA BootInv == Inv /\ Boot => Inv'
<1> SUFFICES ASSUME Inv, Boot PROVE Inv'
  OBVIOUS
<1>1. View \in Content /\ View.ver \in Versions
  BY ViewIsWhole DEF Boot, Content
<1>2. View' = View
  BY DEF Boot, View, files
<1>3. TypeOK'
  BY <1>1 DEF Inv, TypeOK, Boot, files, snaps, script, NoFault, spent, PCs, File
<1>4. Steady'
  <2>1. View.ver <= image
    BY <1>1 DEF Inv, TypeOK, Boot, TooNew, Versions
  <2> QED BY <2>1, <1>2 DEF Steady, Boot, files, Working
<1>5. AllHonest'
  BY DEF Inv, AllHonest, Honest, Boot, files, snaps, script
<1>6. InOrder'
  BY StillInOrder DEF Boot, snaps
<1> QED BY <1>3, <1>4, <1>5, <1>6 DEF Inv

\* A snapshot, whole or torn, moves the earlier ones up, and a journal moves them
\* by one place more.
LEMMA SnapshotKept ==
    ASSUME Inv, NEW f \in Content \cup {Torn}, NEW there \in CutShort, Snapshot(f, there),
           pc' = "prune" => there = <<from>>
    PROVE  /\ snap' \in [Versions -> File]
           /\ order' \in Seq(Versions \cup {Sidecar}) /\ beside' \in Nat
           /\ taken' \in Seq([of : Versions, file : Content \cup {Torn}])
           /\ InOrder'
<1> USE DEF Inv
<1>0. from \in Versions
  BY DEF TypeOK
<1> DEFINE n == Len(there)
           P == Versions \cup {Sidecar}
<1>a. /\ there \in Seq(P) /\ n \in 1..2
      /\ \E k \in 1..n : there[k] = from /\ (pc' = "prune" => k = 1)
  <2>1. CASE there = <<from>>
    BY <1>0, <2>1
  <2>2. CASE there = <<from, Sidecar>>
    BY <1>0, <2>2
  <2>3. CASE there = <<Sidecar, from>>
    <3>1. there # <<from>>
      BY <2>3
    <3> QED BY <1>0, <2>3, <3>1
  <2> QED BY <2>1, <2>2, <2>3 DEF CutShort
<1>1. /\ order' \in Seq(P) /\ Len(order') = Len(order) + n
      /\ \A i \in 1..n : order'[i] = there[i]
      /\ \A i \in 1..Len(order) : order'[i + n] = order[i]
  <2>1. order' = there \o order /\ order \in Seq(P)
    BY DEF TypeOK, Snapshot
  <2> HIDE DEF P
  <2> QED BY <2>1, <1>a
<1>b. beside \in Nat /\ beside' = beside + n - 1 /\ beside' \in Nat
  BY <1>a DEF TypeOK, Snapshot
<1> DEFINE R == [of : Versions, file : Content \cup {Torn}]
           x == [of |-> from, file |-> f]
<1>2. /\ taken' \in Seq(R) /\ Len(taken') = Len(taken) + 1 /\ taken'[1] = x
      /\ \A i \in 1..Len(taken) : taken'[i + 1] = taken[i]
  <2>1. x \in R /\ taken \in Seq(R) /\ taken' = <<x>> \o taken
    BY <1>0 DEF TypeOK, Snapshot
  <2> HIDE DEF x, R
  <2> QED BY <2>1, Fronted
<1>3. snap' = [snap EXCEPT ![from] = f] /\ snap \in [Versions -> File]
  BY DEF Snapshot, TypeOK
<1> HIDE DEF n, P
<1>4. InOrder'
  <2> SUFFICES ASSUME NEW i \in 1..Len(taken'), i = 1 \/ i + beside' <= Kept,
                      \A j \in 1..i - 1 : taken'[j].of # taken'[i].of
               PROVE  /\ snap'[taken'[i].of] = taken'[i].file
                      /\ \E k \in 1..Len(order') :
                            /\ k <= i + beside' /\ order'[k] = taken'[i].of
                            /\ pc' = "prune" /\ i = 1 => k = 1
    BY DEF InOrder, Latest, Held
  <2>1. CASE i = 1
    <3>1. taken'[i].of = from /\ taken'[i].file = f
      BY <2>1, <1>2
    <3>2. PICK k \in 1..n : there[k] = from /\ (pc' = "prune" => k = 1)
      BY <1>a
    <3>3. k \in 1..Len(order') /\ k <= i + beside' /\ order'[k] = from
      <4>1. Len(order) \in Nat
        BY DEF TypeOK
      <4> QED BY <4>1, <3>2, <2>1, <1>a, <1>1, <1>b
    <3>4. snap'[from] = f
      BY <1>0, <1>3
    <3> QED BY <3>1, <3>2, <3>3, <3>4
  <2>2. CASE i # 1
    <3> DEFINE h == i - 1
    <3>1. h \in 1..Len(taken) /\ h + beside <= Kept /\ i = h + 1 /\ taken'[i] = taken[h]
      <4>1. Len(taken) \in Nat /\ Kept \in Nat
        BY MigrationAssumption DEF TypeOK
      <4> QED BY <4>1, <2>2, <1>2, <1>a, <1>b
    <3>2. \A j \in 1..h - 1 : taken[j].of # taken[h].of
      <4> TAKE j \in 1..h - 1
      <4>1. j \in 1..Len(taken) /\ j + 1 \in 1..i - 1
        BY <3>1
      <4> QED BY <4>1, <3>1, <1>2
    <3>3. taken[h].of # from
      <4>1. 1 \in 1..i - 1
        BY <3>1
      <4> QED BY <4>1, <3>1, <1>2
    <3>4. Held(h)
      BY <3>1, <3>2 DEF InOrder, Latest
    <3>5. PICK k \in 1..Len(order) : k <= h + beside /\ order[k] = taken[h].of
      BY <3>4 DEF Held
    <3>6. k + n \in 1..Len(order') /\ k + n <= i + beside' /\ order'[k + n] = taken'[i].of
      <4>1. Len(order) \in Nat /\ k \in Nat /\ h \in Nat
        BY <3>1 DEF TypeOK
      <4> HIDE DEF h
      <4>2. k + n \in 1..Len(order') /\ k + n <= i + beside'
        <5>1. n \in Nat /\ n >= 1 /\ beside \in Nat /\ beside' = beside + n - 1 /\ i = h + 1
          BY <1>a, <1>b, <3>1
        <5>2. k >= 1 /\ k <= Len(order) /\ k <= h + beside /\ Len(order') = Len(order) + n
          BY <4>1, <3>5, <1>1
        <5> QED BY <5>1, <5>2, <4>1
      <4>3. order'[k + n] = order[k]
        BY <1>1
      <4> QED BY <4>2, <4>3, <3>1, <3>5
    <3>7. snap'[taken'[i].of] = taken'[i].file
      <4>1. taken[h] \in R
        <5>1. taken \in Seq(R)
          BY DEF TypeOK
        <5> HIDE DEF R
        <5> QED BY <5>1, <3>1
      <4> QED BY <4>1, <3>1, <3>3, <3>4, <1>3 DEF Held
    <3> QED BY <3>6, <3>7, <2>2
  <2> QED BY <2>1, <2>2
<1> QED BY <1>0, <1>1, <1>2, <1>3, <1>4, <1>b DEF File, P

\* The files stay honest when the new one is.
LEMMA SnapshotHonest ==
    ASSUME Inv, NEW f, NEW there, Honest(f), Snapshot(f, there)
    PROVE  \A v \in Versions : Honest(snap'[v])
<1>1. snap \in [Versions -> File] /\ snap' = [snap EXCEPT ![from] = f]
  BY DEF Inv, TypeOK, Snapshot
<1>2. \A v \in Versions : snap'[v] = snap[v] \/ snap'[v] = f
  BY <1>1
<1> QED BY <1>2 DEF Inv, AllHonest, Honest

LEMMA TornIsHonest == Honest(Torn) /\ Honest(None)
BY DEF Honest

LEMMA SnapshotTakenInv == Inv /\ SnapshotTaken => Inv'
<1> SUFFICES ASSUME Inv, SnapshotTaken PROVE Inv'
  OBVIOUS
<1>1. View \in Content /\ Honest(View) /\ Snapshot(View, <<from>>) /\ <<from>> \in CutShort
  BY ViewIsWhole DEF Inv, Steady, Working, SnapshotTaken, CutShort
<1>2. View' = View
  BY DEF SnapshotTaken, View, files
<1>3. TypeOK' /\ InOrder'
  BY <1>1, SnapshotKept DEF Inv, TypeOK, SnapshotTaken, files, script, found, NoFault, spent, PCs
<1>4. Steady'
  BY <1>2 DEF Inv, Steady, Working, SnapshotTaken, files
<1>5. AllHonest'
  BY <1>1, SnapshotHonest DEF Inv, AllHonest, Honest, SnapshotTaken, files, script
<1> QED BY <1>3, <1>4, <1>5 DEF Inv

LEMMA SnapshotFailsInv == Inv /\ SnapshotFails => Inv'
<1> SUFFICES ASSUME Inv, SnapshotFails PROVE Inv'
  OBVIOUS
<1>1. /\ UNCHANGED <<image, files, script, found, writes, restores>>
      /\ pc = "snapshot" /\ pc' = "migrate" /\ faults' \in 0..MaxFaults /\ faults <= faults'
  BY MigrationAssumption DEF Inv, TypeOK, SnapshotFails, Fault
<1>2. View' = View
  BY <1>1 DEF View, files
<1>3. CASE Snapshot(Torn, <<from>>)
  <2>1. TypeOK' /\ InOrder'
    <3>1. <<from>> \in CutShort
      BY DEF CutShort
    <3> QED BY <3>1, <1>1, <1>3, SnapshotKept, RoomForBackups DEF Inv, TypeOK, files, script, found, PCs
  <2>2. Steady'
    BY <1>1, <1>2 DEF Inv, Steady, Working, files
  <2>3. AllHonest'
    BY <1>1, <1>3, SnapshotHonest, TornIsHonest DEF Inv, AllHonest, Honest, files, script
  <2> QED BY <2>1, <2>2, <2>3 DEF Inv
<1>4. CASE UNCHANGED snaps
  <2>1. TypeOK' /\ InOrder'
    BY <1>1, <1>4, StillInOrder, RoomForBackups DEF Inv, TypeOK, files, snaps, script, found, PCs
  <2>2. Steady'
    BY <1>1, <1>2 DEF Inv, Steady, Working, files
  <2>3. AllHonest'
    BY <1>1, <1>4 DEF Inv, AllHonest, Honest, files, snaps, script
  <2> QED BY <2>1, <2>2, <2>3 DEF Inv
<1> QED BY <1>3, <1>4 DEF SnapshotFails

LEMMA PruneInv == Inv /\ Prune => Inv'
<1> SUFFICES ASSUME Inv, Prune PROVE Inv'
  OBVIOUS
<1>1. /\ pc = "prune" /\ pc' = "migrate"
      /\ order' = Lasting \/ order' = order
      /\ snap' = [v \in Versions |->
             IF \E i \in 1..Len(order') : order'[i] = v THEN snap[v] ELSE None]
      /\ UNCHANGED <<image, main, wal, beside, taken, backups, aside, source, from, before,
                     writes, restores>>
  BY DEF Prune, files, script, found, NoFault, spent
<1>a. faults' \in 0..MaxFaults /\ faults <= faults'
  BY MigrationAssumption DEF Inv, TypeOK, Prune, Fault, NoFault, spent
<1> DEFINE n == IF Len(order) > Kept THEN Kept ELSE Len(order)
           P == Versions \cup {Sidecar}
<1>b. order \in Seq(P) /\ n \in 0..Len(order) /\ Len(order) \in Nat
  BY MigrationAssumption DEF Inv, TypeOK
<1>2. /\ order' \in Seq(P) /\ n <= Len(order') /\ Len(order') \in Nat
      /\ \A i \in 1..n : order'[i] = order[i]
  <2>2. Lasting = SubSeq(order, 1, n)
    BY DEF Lasting
  <2> HIDE DEF n, P
  <2>3. /\ Lasting \in Seq(P) /\ Len(Lasting) = n
        /\ \A i \in 1..n : Lasting[i] = order[i]
    BY <1>b, <2>2, Front
  <2> QED BY <1>1, <1>b, <2>3
<1>3. TypeOK'
  <2>1. snap' \in [Versions -> File]
    BY <1>1 DEF Inv, TypeOK, File
  <2> QED BY <2>1, <1>1, <1>a, <1>2, RoomForBackups DEF Inv, TypeOK, PCs, P
<1>4. Steady'
  BY <1>1 DEF Inv, Steady, Working, View
<1>5. AllHonest'
  BY <1>1 DEF Inv, AllHonest, Honest
<1>6. InOrder'
  <2> SUFFICES ASSUME NEW i \in 1..Len(taken), i = 1 \/ i + beside <= Kept, Latest(i)
               PROVE  /\ snap'[taken[i].of] = taken[i].file
                      /\ \E k \in 1..Len(order') : k <= i + beside /\ order'[k] = taken[i].of
    BY <1>1 DEF InOrder, Latest, Held
  <2>1. PICK k \in 1..Len(order) :
          k <= i + beside /\ order[k] = taken[i].of /\ (i = 1 => k = 1)
    BY <1>1 DEF Inv, InOrder, Held
  <2>2. k \in 1..n
    <3>1. beside \in Nat /\ Kept \in Nat \ {0}
      BY MigrationAssumption DEF Inv, TypeOK
    <3> QED BY <3>1, <2>1, <1>b
  <2>3. k \in 1..Len(order') /\ order'[k] = taken[i].of
    <3> HIDE DEF n
    <3> QED BY <1>2, <2>1, <2>2, <1>b
  <2>4. snap[taken[i].of] = taken[i].file
    BY DEF Inv, InOrder, Held
  <2>5. taken[i].of \in Versions
    <3>1. taken \in Seq([of : Versions, file : Content \cup {Torn}])
      BY DEF Inv, TypeOK
    <3> DEFINE R == [of : Versions, file : Content \cup {Torn}]
    <3>2. taken[i] \in R
      <4> HIDE DEF R
      <4>1. taken \in Seq(R)
        BY <3>1 DEF R
      <4> QED BY <4>1
    <3> QED BY <3>2
  <2> QED BY <1>1, <2>1, <2>3, <2>4, <2>5
<1> QED BY <1>3, <1>4, <1>5, <1>6 DEF Inv

\* A migration and the version it leads to are one.
LEMMA MigrateInv == Inv /\ Migrate => Inv'
<1> SUFFICES ASSUME Inv, Migrate PROVE Inv'
  OBVIOUS
<1>1. UNCHANGED <<image, main, snap, order, beside, taken, backups, aside, source, from, before,
                  writes, faults, restores>>
  BY DEF Migrate, snaps, script, found, NoFault, spent
<1>2. main # Torn /\ View.ver <= image /\ View \in Content /\ Honest(View)
  BY ViewIsWhole DEF Inv, Steady, Working, Migrate
<1>3. CASE View.ver < image
  <2> DEFINE c == [View EXCEPT !.ver = @ + 1, !.schema = @ \cup {View.ver + 1}]
  <2>1. wal' = c /\ pc' = pc /\ pc = "migrate"
    BY <1>3 DEF Migrate, Migrated
  <2>2. c \in Content /\ c.ver = View.ver + 1 /\ c.ver <= image
    <3> DEFINE w == View
    <3>1. /\ w \in Content /\ w.ver \in 0..Newest /\ w.schema \subseteq 1..Newest
          /\ w.data \in 0..MaxWrites
      BY <1>2 DEF Content, Versions
    <3>2. w.ver < image /\ image \in 1..Newest /\ Newest \in Nat
      BY <1>3, MigrationAssumption DEF Inv, TypeOK
    <3>3. w.ver + 1 \in 1..Newest /\ w.ver + 1 <= image
      BY <3>1, <3>2
    <3>4. c = [w EXCEPT !.ver = w.ver + 1, !.schema = w.schema \cup {w.ver + 1}]
      OBVIOUS
    <3> HIDE DEF w, c
    <3>5. c = [ver |-> w.ver + 1, schema |-> w.schema \cup {w.ver + 1}, data |-> w.data]
      BY <3>1, <3>4 DEF Content
    <3>6. c \in Content /\ c.ver = w.ver + 1
      BY <3>1, <3>3, <3>5 DEF Content, Versions
    <3> QED BY <3>3, <3>6 DEF w
  <2>3. Honest(c)
    <3>1. View.schema = 1..View.ver /\ View.ver \in Nat
      BY <1>2, FileAssumption DEF Honest, Content, Versions
    <3>2. c.schema = View.schema \cup {View.ver + 1}
      BY <1>2 DEF Content
    <3> QED BY <3>1, <3>2, <2>2 DEF Honest
  <2>4. View' = c
    BY <2>1, <2>2, FileAssumption DEF View
  <2> HIDE DEF c
  <2>5. TypeOK'
    BY <1>1, <2>1, <2>2 DEF Inv, TypeOK
  <2>6. Steady'
    BY <1>1, <1>2, <2>1, <2>2, <2>4 DEF Inv, Steady, Working
  <2>7. AllHonest' /\ InOrder'
    BY <1>1, <2>1, <2>3, StillInOrder DEF Inv, AllHonest, Honest
  <2> QED BY <2>5, <2>6, <2>7 DEF Inv
<1>4. CASE ~(View.ver < image)
  <2>1. wal' = wal /\ pc' = "running"
    BY <1>4 DEF Migrate
  <2>2. TypeOK'
    BY <1>1, <2>1 DEF Inv, TypeOK, PCs
  <2>3. Steady'
    BY <1>1, <1>2, <2>1 DEF Inv, Steady, Working, View
  <2>4. AllHonest' /\ InOrder'
    BY <1>1, <2>1, StillInOrder DEF Inv, AllHonest, Honest
  <2> QED BY <2>2, <2>3, <2>4 DEF Inv
<1> QED BY <1>3, <1>4

-----------------------------------------------------------------------------
(* The application                                                           *)

LEMMA WriteInv == Inv /\ Write => Inv'
<1> SUFFICES ASSUME Inv, Write PROVE Inv'
  OBVIOUS
<1>1. /\ UNCHANGED <<image, main, snap, order, beside, taken, backups, aside, source, pc, from,
                     before, faults, restores>>
      /\ pc = "running" /\ writes' = writes + 1 /\ writes' \in 0..MaxWrites
  BY MigrationAssumption DEF Inv, TypeOK, Write, snaps, script, found
<1>2. main # Torn /\ View.ver <= image /\ View \in Content /\ Honest(View)
  BY ViewIsWhole DEF Inv, Steady, Working, Write
<1> DEFINE c == [View EXCEPT !.data = writes + 1]
<1>3. wal' = c
  BY DEF Write
<1>4. c \in Content /\ c.ver = View.ver /\ c.schema = View.schema
  BY <1>1, <1>2 DEF Content
<1>5. Honest(c)
  BY <1>2, <1>4, FileAssumption DEF Honest
<1>6. View' = c
  BY <1>3, <1>4, FileAssumption DEF View
<1> HIDE DEF c
<1>7. TypeOK'
  BY <1>1, <1>3, <1>4 DEF Inv, TypeOK
<1>8. Steady'
  BY <1>1, <1>2, <1>4, <1>6 DEF Inv, Steady, Working
<1>9. AllHonest' /\ InOrder'
  BY <1>1, <1>3, <1>5, StillInOrder DEF Inv, AllHonest, Honest
<1> QED BY <1>7, <1>8, <1>9 DEF Inv

LEMMA CheckpointInv == Inv /\ Checkpoint => Inv'
<1> SUFFICES ASSUME Inv, Checkpoint PROVE Inv'
  OBVIOUS
<1>1. /\ UNCHANGED <<image, snap, order, beside, taken, backups, aside, source, pc, from, before,
                     writes, faults, restores>>
      /\ pc \in {"running", "migrate"} /\ main' = wal /\ wal' = None /\ wal \in Content
  BY DEF Inv, TypeOK, Checkpoint, snaps, script, found, NoFault, spent
<1>2. View' = View
  BY <1>1, FileAssumption DEF View
<1>3. TypeOK'
  BY <1>1, FileAssumption DEF Inv, TypeOK, File
<1>4. Steady'
  BY <1>1, <1>2, FileAssumption DEF Inv, Steady, Working
<1>5. AllHonest' /\ InOrder'
  BY <1>1, TornIsHonest, StillInOrder DEF Inv, AllHonest, Honest
<1> QED BY <1>3, <1>4, <1>5 DEF Inv

LEMMA StopInv == Inv /\ (Stop \/ \E v \in 1..Newest : Install(v)) => Inv'
<1> SUFFICES ASSUME Inv, Stop \/ \E v \in 1..Newest : Install(v) PROVE Inv'
  OBVIOUS
<1>1. /\ UNCHANGED <<main, wal, snap, order, beside, taken, backups, aside, source, from, before,
                     writes, faults, restores>>
      /\ pc' = "stopped" /\ image' \in 1..Newest
  BY DEF Inv, TypeOK, Stop, Install, files, snaps, script, found, NoFault, spent
<1>2. TypeOK' /\ Steady'
  BY <1>1 DEF Inv, TypeOK, Steady, Working, PCs
<1>3. AllHonest' /\ InOrder'
  BY <1>1, StillInOrder DEF Inv, AllHonest, Honest
<1> QED BY <1>2, <1>3 DEF Inv

LEMMA CrashInv == Inv /\ Crash => Inv'
<1> SUFFICES ASSUME Inv, Crash PROVE Inv'
  OBVIOUS
<1>1. /\ UNCHANGED <<image, main, wal, backups, aside, source, from, before, writes, restores>>
      /\ pc' = "stopped"
  BY DEF Crash, files, script, found
<1>a. faults' \in 0..MaxFaults /\ faults <= faults'
  BY MigrationAssumption DEF Inv, TypeOK, Crash, Fault
<1>2. CASE \E there \in CutShort : Snapshot(Torn, there)
  <2>1. PICK there \in CutShort : Snapshot(Torn, there)
    BY <1>2
  <2>2. TypeOK' /\ InOrder' /\ Steady'
    BY <1>1, <1>a, <2>1, SnapshotKept, RoomForBackups DEF Inv, TypeOK, PCs, Steady, Working
  <2>3. AllHonest'
    BY <1>1, <2>1, SnapshotHonest, TornIsHonest DEF Inv, AllHonest, Honest
  <2> QED BY <2>2, <2>3 DEF Inv
<1>3. CASE UNCHANGED snaps
  <2>1. TypeOK' /\ Steady'
    BY <1>1, <1>a, <1>3, RoomForBackups DEF Inv, TypeOK, PCs, Steady, Working, snaps
  <2>2. InOrder' /\ AllHonest'
    BY <1>1, <1>3, StillInOrder DEF Inv, AllHonest, Honest, snaps
  <2> QED BY <2>1, <2>2 DEF Inv
<1> QED BY <1>2, <1>3 DEF Crash

-----------------------------------------------------------------------------
(* The operator                                                              *)

LEMMA BackupInv == Inv /\ Backup => Inv'
<1> SUFFICES ASSUME Inv, Backup PROVE Inv'
  OBVIOUS
<1>1. /\ UNCHANGED <<image, main, wal, snap, order, beside, taken, aside, source, pc, from,
                     before, writes, restores>>
      /\ pc # "prune"
  BY DEF Backup, NoFault, spent, files, snaps, found
<1>2. View \in Content /\ Honest(View)
  BY ViewIsWhole DEF Backup
<1>3. /\ backups' \in Seq(Content \cup {Torn}) /\ Len(backups') <= Keep + faults'
      /\ \A i \in 1..Len(backups') : Honest(backups'[i])
      /\ faults' \in 0..MaxFaults
  <2>1. CASE backups' = Newer(View) /\ NoFault
    <3>1. /\ Newer(View) \in Seq(Content \cup {Torn}) /\ Len(Newer(View)) <= Keep
          /\ \A i \in 1..Len(Newer(View)) : Honest(Newer(View)[i])
      BY <1>2, NewerBackups DEF Inv
    <3>2. faults' = faults /\ faults \in Nat /\ Keep \in Nat /\ Len(Newer(View)) \in Nat
      BY <2>1, <3>1, MigrationAssumption DEF Inv, TypeOK, NoFault, spent
    <3> HIDE DEF Newer
    <3> QED BY <2>1, <3>1, <3>2 DEF Inv, TypeOK
  <2>2. CASE (\E f \in {View, Torn} : backups' = <<f>> \o backups) /\ Fault
    <3>1. PICK f \in {View, Torn} : backups' = <<f>> \o backups
      BY <2>2
    <3>2. f \in Content \cup {Torn} /\ Honest(f)
      BY <1>2, TornIsHonest
    <3>3. /\ backups' \in Seq(Content \cup {Torn}) /\ Len(backups') = Len(backups) + 1
          /\ \A i \in 1..Len(backups') : Honest(backups'[i])
      BY <3>1, <3>2, NewerBackups DEF Inv
    <3> QED BY <2>2, <3>3, MigrationAssumption DEF Inv, TypeOK, Fault
  <2> QED BY <2>1, <2>2 DEF Backup
<1>5. TypeOK'
  BY <1>1, <1>3 DEF Inv, TypeOK
<1>6. Steady' /\ InOrder'
  BY <1>1, StillInOrder DEF Inv, Steady, Working, View
<1>7. AllHonest'
  BY <1>1, <1>3 DEF Inv, AllHonest, Honest
<1> QED BY <1>5, <1>6, <1>7 DEF Inv

\* The sidecars of an inspected snapshot move all snapshots by as many places.
LEMMA InspectedKept ==
    ASSUME Inv, Inspected, pc' # "prune"
    PROVE  /\ order' \in Seq(Versions \cup {Sidecar}) /\ beside' \in Nat
           /\ UNCHANGED <<snap, taken>> /\ InOrder'
<1> DEFINE P == Versions \cup {Sidecar}
<1>1. PICK n \in 0..2 :
        order' = [i \in 1..n |-> Sidecar] \o order /\ beside' = beside + n
  BY DEF Inspected
<1>2. /\ order' \in Seq(P) /\ Len(order') = Len(order) + n /\ Len(order) \in Nat
      /\ \A i \in 1..Len(order) : order'[i + n] = order[i]
  <2> DEFINE s == [i \in 1..n |-> Sidecar]
  <2>1. s \in Seq(P) /\ Len(s) = n /\ order \in Seq(P) /\ order' = s \o order
    BY <1>1 DEF Inv, TypeOK
  <2> HIDE DEF s, P
  <2> QED BY <2>1
<1>3. beside \in Nat /\ beside' \in Nat /\ beside' >= beside
  BY <1>1 DEF Inv, TypeOK
<1>4. UNCHANGED <<snap, taken>>
  BY DEF Inspected
<1>5. InOrder'
  <2> SUFFICES ASSUME NEW i \in 1..Len(taken), i = 1 \/ i + beside' <= Kept, Latest(i)
               PROVE  /\ snap[taken[i].of] = taken[i].file
                      /\ \E k \in 1..Len(order') : k <= i + beside' /\ order'[k] = taken[i].of
    BY <1>4 DEF InOrder, Latest, Held
  <2>1. Held(i)
    BY <1>1, <1>3, MigrationAssumption DEF Inv, InOrder
  <2>2. PICK k \in 1..Len(order) : k <= i + beside /\ order[k] = taken[i].of
    BY <2>1 DEF Held
  <2>3. k + n \in 1..Len(order') /\ k + n <= i + beside' /\ order'[k + n] = taken[i].of
    <3>1. k + n \in 1..Len(order') /\ k + n <= i + beside'
      BY <1>1, <1>2, <1>3, <2>2
    <3>2. order'[k + n] = order[k]
      BY <1>2
    <3> QED BY <3>1, <3>2, <2>2
  <2> QED BY <2>1, <2>3 DEF Held
<1> QED BY <1>2, <1>3, <1>4, <1>5

\* What is restored is whole and honest; the snapshots are as they were.
LEMMA RestoreKept ==
    ASSUME Inv, NEW f \in File, Honest(f), Restore(f),
           snap' = snap, order' \in Seq(Versions \cup {Sidecar}), beside' \in Nat,
           taken' = taken, InOrder'
    PROVE  Inv'
<1>1. /\ UNCHANGED <<image, main, wal, backups, from, before, writes, faults>>
      /\ source' = f /\ aside' = main /\ pc' = "unlink" /\ restores' \in 0..MaxRestores
  BY MigrationAssumption DEF Inv, TypeOK, Restore, files, found
<1>2. f \in Content
  BY DEF Restore, Valid, File
<1>3. TypeOK'
  BY <1>1, <1>2 DEF Inv, TypeOK, PCs
<1>4. Steady'
  BY <1>1, <1>2 DEF Inv, Steady, Working
<1>5. AllHonest'
  BY <1>1 DEF Inv, AllHonest, Honest
<1> QED BY <1>3, <1>4, <1>5 DEF Inv

LEMMA RestoreInv == Inv /\ (RestoreBackup \/ RestoreSnapshot) => Inv'
<1> SUFFICES ASSUME Inv, RestoreBackup \/ RestoreSnapshot PROVE Inv'
  OBVIOUS
<1>1. CASE RestoreBackup
  <2>1. PICK f \in {backups[i] : i \in 1..Len(backups)} \cup {aside} :
          Restore(f) /\ UNCHANGED snaps
    BY <1>1 DEF RestoreBackup
  <2>2. f \in File /\ Honest(f)
    BY <2>1 DEF Inv, TypeOK, AllHonest, File
  <2>3. pc' # "prune" /\ UNCHANGED <<snap, order, beside, taken>>
    BY <2>1 DEF Restore, snaps
  <2>4. InOrder'
    BY <2>3, StillInOrder
  <2> QED BY <2>1, <2>2, <2>3, <2>4, RestoreKept DEF Inv, TypeOK
<1>2. CASE RestoreSnapshot
  <2>1. PICK v \in Versions : Restore(snap[v]) /\ Inspected
    BY <1>2 DEF RestoreSnapshot
  <2>2. snap[v] \in File /\ Honest(snap[v]) /\ pc' # "prune"
    BY <2>1 DEF Inv, TypeOK, AllHonest, Restore
  <2> QED BY <2>1, <2>2, InspectedKept, RestoreKept
<1> QED BY <1>1, <1>2

LEMMA DryRunInv == Inv /\ DryRun => Inv'
<1> SUFFICES ASSUME Inv, DryRun PROVE Inv'
  OBVIOUS
<1>1. /\ UNCHANGED <<image, main, wal, backups, aside, source, pc, from, before, writes, faults>>
      /\ pc' # "prune" /\ restores' \in 0..MaxRestores
  BY MigrationAssumption DEF Inv, TypeOK, DryRun, files, script, found
<1>2. /\ order' \in Seq(Versions \cup {Sidecar}) /\ beside' \in Nat
      /\ UNCHANGED <<snap, taken>> /\ InOrder'
  BY <1>1, InspectedKept DEF DryRun
<1>3. TypeOK' /\ Steady' /\ AllHonest'
  BY <1>1, <1>2 DEF Inv, TypeOK, Steady, Working, View, AllHonest, Honest
<1> QED BY <1>2, <1>3 DEF Inv

LEMMA UnlinkInv == Inv /\ Unlink => Inv'
<1> SUFFICES ASSUME Inv, Unlink PROVE Inv'
  OBVIOUS
<1>1. /\ UNCHANGED <<image, main, snap, order, beside, taken, backups, aside, source, from, before,
                     writes, faults, restores>>
      /\ pc = "unlink" /\ pc' = "copy" /\ wal' = None
  BY DEF Unlink, ClearSidecars, snaps, script, found, NoFault, spent
<1>2. TypeOK' /\ Steady'
  BY <1>1 DEF Inv, TypeOK, PCs, Steady, Working
<1>3. AllHonest' /\ InOrder'
  BY <1>1, TornIsHonest, StillInOrder DEF Inv, AllHonest, Honest
<1> QED BY <1>2, <1>3 DEF Inv

LEMMA CopyInv == Inv /\ Copy => Inv'
<1> SUFFICES ASSUME Inv, Copy PROVE Inv'
  OBVIOUS
<1>1. /\ UNCHANGED <<image, wal, snap, order, beside, taken, backups, aside, from, before,
                     writes, faults, restores>>
      /\ pc' = "stopped" /\ main' = source /\ source' = None /\ source \in Content
  BY DEF Inv, Steady, Copy, snaps, found, NoFault, spent
<1>2. TypeOK'
  BY <1>1, FileAssumption DEF Inv, TypeOK, PCs, File
<1>3. Steady' /\ InOrder'
  BY <1>1, StillInOrder DEF Inv, Steady, Working
<1>4. AllHonest'
  BY <1>1, TornIsHonest DEF Inv, AllHonest, Honest
<1> QED BY <1>2, <1>3, <1>4 DEF Inv

LEMMA RestoreCutInv == Inv /\ RestoreCut => Inv'
<1> SUFFICES ASSUME Inv, RestoreCut PROVE Inv'
  OBVIOUS
<1>1. /\ UNCHANGED <<image, wal, snap, order, beside, taken, backups, aside, from, before,
                     writes, restores>>
      /\ pc' = "stopped" /\ source' = None
  BY DEF RestoreCut, snaps, found
<1>a. main' = main \/ main' = Torn
  BY DEF RestoreCut
<1>b. faults' \in 0..MaxFaults /\ faults <= faults'
  BY MigrationAssumption DEF RestoreCut, Fault, Inv, TypeOK
<1>c. main' \in File \ {None}
  BY <1>a, MigrationAssumption DEF Inv, TypeOK, File
<1>2. TypeOK'
  BY <1>1, <1>c, <1>b, RoomForBackups DEF Inv, TypeOK, PCs
<1>3. Steady' /\ InOrder'
  BY <1>1, StillInOrder DEF Inv, Steady, Working
<1>4. AllHonest'
  BY <1>1, <1>a, TornIsHonest DEF Inv, AllHonest, Honest
<1> QED BY <1>2, <1>3, <1>4 DEF Inv

LEMMA StutterInv == Inv /\ UNCHANGED vars => Inv'
<1> SUFFICES ASSUME Inv, UNCHANGED vars PROVE Inv'
  OBVIOUS
<1>1. UNCHANGED <<image, main, wal, snap, order, beside, taken, backups, aside, source, pc, from,
                  before, writes, faults, restores>>
  BY DEF vars, files, snaps, script, found, spent
<1> QED BY <1>1 DEF Inv, TypeOK, Steady, Working, View, AllHonest, Honest, InOrder, Latest, Held

\* The invariant holds in every reachable state: the argument every theorem
\* below rests on.
THEOREM Invariance == Spec => []Inv
<1>1. Inv /\ [Next]_vars => Inv'
  BY BootInv, SnapshotTakenInv, SnapshotFailsInv, PruneInv, MigrateInv, WriteInv, CheckpointInv,
    StopInv, CrashInv, BackupInv, RestoreInv, DryRunInv, UnlinkInv, CopyInv, RestoreCutInv, StutterInv
    DEF Next
<1> QED BY InitInv, <1>1, PTL DEF Spec

-----------------------------------------------------------------------------
(* What follows from it                                                      *)

\* The files of the database and its copies keep their types, and no more than
\* Keep backups stay, and one for every backup that did not come to its end.
THEOREM TypeCorrect == Spec => []TypeOK
BY Invariance, PTL DEF Inv

\* For any number of versions, of upgrades, restores and faults in any order, the
\* version a whole file says it has names exactly the migrations it has had.
THEOREM VersionIsTrue == Spec => []VersionTellsSchema
BY Invariance, HonestMeans, PTL DEF Inv

\* However many snapshots there have been, the last is there as it was taken, and so
\* are those of the last Kept versions, but one for every sidecar left beside them.
THEOREM SnapshotsStay == Spec => []TwoUpgradesBack
<1>1. Inv => TwoUpgradesBack
  BY DEF Inv, InOrder, Latest, Held, TwoUpgradesBack
<1> QED BY Invariance, <1>1, PTL

\* Whatever images are installed, none writes a database that is newer than it.
THEOREM NewerIsSafe == Spec => NewerIsLeftAlone
<1>1. Inv /\ [Next]_vars => (wal' \notin {wal, None} => wal'.ver <= image)
  <2> SUFFICES ASSUME Inv, [Next]_vars, wal' \notin {wal, None} PROVE wal'.ver <= image
    OBVIOUS
  <2>1. Migrate \/ Write
    BY DEF Next, vars, files, Boot, SnapshotTaken, SnapshotFails, Prune, Checkpoint, Stop, Crash,
      Install, Backup, Unlink, ClearSidecars, Copy, RestoreCut, RestoreBackup, RestoreSnapshot, Restore, DryRun
  <2>2. main # Torn /\ View.ver <= image
    BY <2>1 DEF Inv, Steady, Working, Migrate, Write
  <2>3. View \in Content
    BY <2>2, ViewIsWhole
  <2>4. CASE Migrate
    <3>1. View.ver < image /\ wal' = [View EXCEPT !.ver = @ + 1, !.schema = @ \cup {View.ver + 1}]
      BY <2>4 DEF Migrate, Migrated
    <3>2. wal'.ver = View.ver + 1
      BY <2>3, <3>1 DEF Content
    <3> QED BY <2>3, <3>1, <3>2 DEF Content, Versions, Inv, TypeOK
  <2>5. CASE Write
    BY <2>2, <2>3, <2>5 DEF Write, Content
  <2> QED BY <2>1, <2>4, <2>5
<1> QED BY Invariance, <1>1, PTL DEF Spec, NewerIsLeftAlone

\* A restore that comes to its end leaves what it was given, whatever the log of
\* the database before it held.
THEOREM RestoresAreExact == Spec => RestoreIsExact
<1>1. Inv /\ [Next]_vars =>
        (pc = "copy" /\ pc' = "stopped" /\ faults' = faults => View' = source)
  <2> SUFFICES ASSUME Inv, [Next]_vars, pc = "copy", pc' = "stopped", faults' = faults
               PROVE  View' = source
    OBVIOUS
  <2>1. faults \in Nat
    BY DEF Inv, TypeOK
  <2>2. Copy
    BY <2>1 DEF Next, vars, Boot, SnapshotTaken, SnapshotFails, Prune, Migrate, Write, Checkpoint,
      Stop, Crash, Install, Backup, Unlink, RestoreCut, Fault, RestoreBackup, RestoreSnapshot, Restore, DryRun
  <2>3. wal' = None
    BY <2>2 DEF Inv, Steady, Copy
  <2> QED BY <2>2, <2>3 DEF Copy, View
<1> QED BY Invariance, <1>1, PTL DEF Spec, RestoreIsExact
=============================================================================
