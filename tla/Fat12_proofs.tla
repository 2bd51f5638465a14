---------------------------- MODULE Fat12_proofs ----------------------------
(***************************************************************************)
(* Proofs about Fat12, for every geometry, every file and every call: what *)
(* the table's packing and unpacking do, that read_file writes no more     *)
(* than it was asked for, and that it reads the file's bytes.              *)
(***************************************************************************)
EXTENDS Fat12, FiniteSetTheorems, WellFoundedInduction, TLAPS

-----------------------------------------------------------------------------
\* Arithmetic on a cluster and an offset in it.
LEMMA Division ==
  ASSUME NEW q \in Nat, NEW r \in 0 .. bytes_per_sector - 1
  PROVE  /\ (q * bytes_per_sector + r) \div bytes_per_sector = q
         /\ (q * bytes_per_sector + r) % bytes_per_sector = r
BY DiskAssumption

LEMMA Remainder ==
  ASSUME NEW x \in Nat
  PROVE  /\ x = (x \div bytes_per_sector) * bytes_per_sector + (x % bytes_per_sector)
         /\ x % bytes_per_sector \in 0 .. bytes_per_sector - 1
         /\ x \div bytes_per_sector \in Nat
BY DiskAssumption

LEMMA WholeSectors ==
  ASSUME NEW x \in Nat, NEW k \in Nat, k < x \div bytes_per_sector
  PROVE  k * bytes_per_sector + bytes_per_sector <= x
BY DiskAssumption

LEMMA WithinSectors ==
  ASSUME NEW x \in Nat, NEW k \in Nat, k <= x \div bytes_per_sector
  PROVE  k * bytes_per_sector <= x
BY DiskAssumption

LEMMA OneMore ==
  ASSUME NEW k \in Nat
  PROVE  /\ (k + 1) * bytes_per_sector = k * bytes_per_sector + bytes_per_sector
         /\ k * bytes_per_sector \in Nat
BY DiskAssumption

LEMMA Sum ==
  ASSUME NEW k \in Nat, NEW l \in Nat
  PROVE  (k + l) * bytes_per_sector = k * bytes_per_sector + l * bytes_per_sector
BY DiskAssumption

LEMMA Monotone ==
  ASSUME NEW k \in Nat, NEW l \in Nat, k * bytes_per_sector < l * bytes_per_sector
  PROVE  k < l
BY DiskAssumption

-----------------------------------------------------------------------------
\* Two entries packed into three bytes come out as they went in.
LEMMA Unpacked ==
  ASSUME NEW x \in Entry12, NEW y \in Entry12
  PROVE  /\ (x % 256) + 256 * (((x \div 256) + 16 * (y % 16)) % 16) = x
         /\ (((x \div 256) + 16 * (y % 16)) \div 16) + 16 * (y \div 16) = y
BY DEF Entry12

LEMMA PackedIn ==
  ASSUME NEW x \in Entry12, NEW y \in Entry12
  PROVE  /\ x % 256 \in 0 .. 255
         /\ (x \div 256) + 16 * (y % 16) \in 0 .. 255
         /\ y \div 16 \in 0 .. 255
<1>1. x \in Int /\ 0 <= x /\ x <= 4095 /\ y \in Int /\ 0 <= y /\ y <= 4095
  BY DEF Entry12
<1>2. x % 256 \in 0 .. 255
  BY <1>1
<1>3. x \div 256 \in 0 .. 15 /\ y % 16 \in 0 .. 15
  BY <1>1
<1>4. (x \div 256) + 16 * (y % 16) \in 0 .. 255
  BY <1>3
<1>5. y \div 16 \in 0 .. 255
  BY <1>1
<1> QED
  BY <1>2, <1>4, <1>5

\* The bytes of a table, without the numbers of the pairs.
LEMMA PackedAt ==
  ASSUME NEW e, FatBytes \in Nat, NEW b \in 0 .. FatBytes - 1, NEW n, n = 2 * (b \div 3)
  PROVE  /\ b % 3 = 0 => Packed(e)[b] = e[n] % 256
         /\ b % 3 = 1 => Packed(e)[b] = (e[n] \div 256) + 16 * (e[n + 1] % 16)
         /\ b % 3 = 2 => Packed(e)[b] = e[n + 1] \div 16
<1>1. CASE b % 3 = 0
  BY <1>1 DEF Packed
<1>2. CASE b % 3 = 1
  BY <1>2 DEF Packed
<1>3. CASE b % 3 = 2
  BY <1>3 DEF Packed
<1> QED
  BY <1>1, <1>2, <1>3

(***************************************************************************)
(* get_fat12_entry reads the entry that a formatter stored under a number, *)
(* for odd and for even numbers.                                           *)
(***************************************************************************)
THEOREM EntryUnpacked ==
  ASSUME NEW e \in [EntryNumber -> Entry12], fat = Packed(e), FatBytes \in Nat,
         NEW n \in Nat, ((n \div 2) * 3) + 2 < FatBytes
  PROVE  get_fat12_entry(n) = e[n]
<1> DEFINE h == n \div 2
           p == h * 3
<1>1. h \in Nat /\ p \in 0 .. FatBytes - 3 /\ p % 65536 = p
  BY TableAssumption, SMT
<1>2. /\ p \div 3 = h /\ (p + 1) \div 3 = h /\ (p + 2) \div 3 = h
      /\ p % 3 = 0 /\ (p + 1) % 3 = 1 /\ (p + 2) % 3 = 2
  BY <1>1
<1>3. 2 * h \in EntryNumber /\ 2 * h + 1 \in EntryNumber
  BY <1>1 DEF EntryNumber
<1>4. e[2 * h] \in Entry12 /\ e[2 * h + 1] \in Entry12
  BY <1>3
<1>5. /\ fat[p] = e[2 * h] % 256
      /\ fat[p + 1] = (e[2 * h] \div 256) + 16 * (e[2 * h + 1] % 16)
      /\ fat[p + 2] = e[2 * h + 1] \div 16
  <2>1. p \in 0 .. FatBytes - 1 /\ p + 1 \in 0 .. FatBytes - 1 /\ p + 2 \in 0 .. FatBytes - 1
    BY <1>1
  <2> HIDE DEF p, h
  <2>2. fat[p] = e[2 * h] % 256
    BY <1>2, <2>1, PackedAt
  <2>3. fat[p + 1] = (e[2 * h] \div 256) + 16 * (e[2 * h + 1] % 16)
    BY <1>2, <2>1, PackedAt
  <2>4. fat[p + 2] = e[2 * h + 1] \div 16
    BY <1>2, <2>1, PackedAt
  <2> QED
    BY <2>2, <2>3, <2>4
<1>6. CASE n % 2 = 0
  <2>1. n = 2 * h
    BY <1>6
  <2> QED
    BY <1>1, <1>4, <1>5, <1>6, <2>1, Unpacked DEF get_fat12_entry
<1>7. CASE n % 2 # 0
  <2>1. n = 2 * h + 1
    BY <1>7
  <2> QED
    BY <1>1, <1>4, <1>5, <1>7, <2>1, Unpacked DEF get_fat12_entry
<1> QED
  BY <1>6, <1>7

LEMMA PackedBytes ==
  ASSUME NEW e \in [EntryNumber -> Entry12], FatBytes \in Nat
  PROVE  Packed(e) \in [0 .. FatBytes - 1 -> 0 .. 255]
<1> SUFFICES ASSUME NEW b \in 0 .. FatBytes - 1 PROVE Packed(e)[b] \in 0 .. 255
  BY DEF Packed
<1> DEFINE n == 2 * (b \div 3)
<1>1. n \in EntryNumber /\ n + 1 \in EntryNumber
  BY DEF EntryNumber
<1>2. e[n] \in Entry12 /\ e[n + 1] \in Entry12
  BY <1>1
<1>3. /\ e[n] % 256 \in 0 .. 255
      /\ (e[n] \div 256) + 16 * (e[n + 1] % 16) \in 0 .. 255
      /\ e[n + 1] \div 16 \in 0 .. 255
  BY <1>2, PackedIn
<1>4. b % 3 = 0 \/ b % 3 = 1 \/ b % 3 = 2
  OBVIOUS
<1>5. /\ b % 3 = 0 => Packed(e)[b] = e[n] % 256
      /\ b % 3 = 1 => Packed(e)[b] = (e[n] \div 256) + 16 * (e[n + 1] % 16)
      /\ b % 3 = 2 => Packed(e)[b] = e[n + 1] \div 16
  <2> DEFINE k == n
  <2>1. k = 2 * (b \div 3)
    OBVIOUS
  <2> HIDE DEF k
  <2> QED
    BY <2>1, PackedAt
<1>6. CASE b % 3 = 0
  BY <1>3, <1>5, <1>6
<1>7. CASE b % 3 = 1
  BY <1>3, <1>5, <1>7
<1>8. CASE b % 3 = 2
  BY <1>3, <1>5, <1>8
<1> QED
  BY <1>4, <1>6, <1>7, <1>8

-----------------------------------------------------------------------------
\* What a walk through the table finds.
LEMMA Sizes ==
  /\ FatBytes \in Nat /\ bytes_per_sector \in Nat \ {0}
  /\ get_first_data_sector = DataStart /\ DataStart \in Int
  /\ DataCluster \subseteq Nat \cap Entry12
<1>1. FatBytes \in Nat /\ bytes_per_sector \in Nat \ {0}
  BY DiskAssumption DEF FatBytes
<1>2. get_first_data_sector = DataStart /\ DataStart \in Int
  <2>1. /\ root_entries * 32 \in Nat
        /\ ((root_entries * 32) \div bytes_per_sector) * bytes_per_sector = root_entries * 32
    <3>1. root_entries * 32 \in Nat
      BY DiskAssumption
    <3>2. (root_entries * 32) % bytes_per_sector = 0
      BY RootAssumption DEF SizeofDE
    <3> QED
      BY <1>1, <3>1, <3>2, Remainder
  <2>2. /\ (root_entries * 32) \div bytes_per_sector \in Nat
        /\ reserved_sectors + number_of_fats * sectors_per_fat \in Nat
    BY <2>1, DiskAssumption
  <2>3. (reserved_sectors + number_of_fats * sectors_per_fat
           + (root_entries * 32) \div bytes_per_sector) * bytes_per_sector
        = (reserved_sectors + number_of_fats * sectors_per_fat) * bytes_per_sector
          + ((root_entries * 32) \div bytes_per_sector) * bytes_per_sector
    BY <2>2, Sum
  <2>4. (reserved_sectors + number_of_fats * sectors_per_fat) * bytes_per_sector \in Nat
    BY <2>2, OneMore
  <2> QED
    BY <2>1, <2>3, <2>4 DEF get_first_data_sector, DataStart, get_rde, SizeofDE
<1>3. DataCluster \subseteq Nat \cap Entry12
  <2>1. ASSUME NEW c \in DataCluster PROVE c \in Entry12
    BY ClusterAssumption, Zenon
  <2>2. Entry12 \subseteq Nat
    BY SMT DEF Entry12
  <2> QED
    BY <2>1, <2>2, Zenon
<1> QED
  BY <1>1, <1>2, <1>3

LEMMA Bytes ==
  ASSUME NEW x \in 0 .. 255, NEW y \in 0 .. 255
  PROVE  x + 256 * (y % 16) \in Entry12 /\ (x \div 16) + 16 * y \in Entry12
<1>1. y % 16 \in 0 .. 15 /\ x \div 16 \in 0 .. 15
  OBVIOUS
<1>2. x + 256 * (y % 16) \in Entry12
  BY <1>1 DEF Entry12
<1>3. (x \div 16) + 16 * y \in Entry12
  BY <1>1 DEF Entry12
<1> QED
  BY <1>2, <1>3

LEMMA NeverEnds ==
  ASSUME DiskInv, NEW c \in Nat, NEW v \in EntryOf(c)
  PROVE  v \in Nat /\ ~AtEnd(v)
<1>1. ASSUME InTable(c) PROVE v \in Entry12
  <2> DEFINE p == ((c \div 2) * 3) % 65536
  <2>1. p \in Nat /\ p + 2 < FatBytes
    BY <1>1, SMT DEF InTable
  <2>2. fat[p] \in 0 .. 255 /\ fat[p + 1] \in 0 .. 255 /\ fat[p + 2] \in 0 .. 255
    BY <2>1, Sizes DEF DiskInv
  <2> HIDE DEF p
  <2>3. /\ fat[p] + 256 * (fat[p + 1] % 16) \in Entry12
        /\ (fat[p + 1] \div 16) + 16 * fat[p + 2] \in Entry12
    BY <2>2, Bytes
  <2>4. get_fat12_entry(c) \in Entry12
    BY <2>3, SMT DEF get_fat12_entry, p
  <2> QED
    BY <1>1, <2>4 DEF EntryOf
<1>2. ASSUME ~InTable(c) PROVE v \in Entry12
  BY <1>2, DiskAssumption DEF EntryOf
<1>3. v \in Entry12
  BY <1>1, <1>2
<1> QED
  BY <1>3, SMT DEF AtEnd, FAT12_EOC, Entry12

LEMMA Following ==
  ASSUME DiskInv, NEW a \in Nat, a < Len(chain)
  PROVE  /\ chain[a + 1] \in Nat
         /\ a + 1 < Len(chain) => EntryOf(chain[a + 1]) = {chain[a + 2]}
<1>1. a + 1 \in 1 .. Len(chain) /\ chain[a + 1] \in DataCluster
  BY DEF DiskInv
<1>2. InTable(chain[a + 1])
  <2>1. chain[a + 1] \in Nat /\ ((chain[a + 1] \div 2) * 3) + 2 < FatBytes
    BY <1>1, Sizes, ClusterAssumption
  <2>2. ((chain[a + 1] \div 2) * 3) % 65536 = (chain[a + 1] \div 2) * 3
    BY <2>1, Sizes, TableAssumption, SMT
  <2> QED
    BY <2>1, <2>2, SMT DEF InTable
<1>3. ASSUME a + 1 < Len(chain) PROVE get_fat12_entry(chain[a + 1]) = chain[a + 2]
  <2>1. a + 1 \in 1 .. Len(chain) - 1 /\ (a + 1) + 1 = a + 2
    BY <1>1, <1>3 DEF DiskInv
  <2> QED
    BY <2>1 DEF DiskInv
<1> QED
  BY <1>1, <1>2, <1>3, Sizes DEF EntryOf

\* The bytes of a sector of the file are the file's bytes.
LEMMA SectorBytes ==
  ASSUME DiskInv, NEW q \in Nat, q < Len(chain),
         NEW n \in 0 .. bytes_per_sector, NEW k \in 1 .. n
  PROVE  read_sector(chain[q + 1], n)[k] = FileByte(q * bytes_per_sector + (k - 1))
<1>1. k - 1 \in 0 .. bytes_per_sector - 1
  BY Sizes
<1>2. /\ (q * bytes_per_sector + (k - 1)) \div bytes_per_sector = q
      /\ (q * bytes_per_sector + (k - 1)) % bytes_per_sector = k - 1
  BY <1>1, Division
<1>3. read_sector(chain[q + 1], n)[k] =
        get_first_data_sector + (chain[q + 1] - 2) * bytes_per_sector + k - 1
  BY DEF read_sector
<1>4. FileByte(q * bytes_per_sector + (k - 1)) =
        DataStart + (chain[q + 1] - 2) * bytes_per_sector + (k - 1)
  BY <1>2 DEF FileByte
<1>5. (chain[q + 1] - 2) * bytes_per_sector \in Int
  BY Following, Sizes
<1> QED
  BY <1>3, <1>4, <1>5, Sizes

LEMMA SectorType ==
  ASSUME NEW c \in Nat, NEW n \in Nat
  PROVE  read_sector(c, n) \in Seq(Int) /\ Len(read_sector(c, n)) = n
<1>1. (c - 2) * bytes_per_sector \in Int /\ get_first_data_sector \in Int
  BY Sizes
<1> DEFINE z == get_first_data_sector + (c - 2) * bytes_per_sector
<1>2. z \in Int /\ read_sector(c, n) = [b \in 1 .. n |-> z + b - 1]
  BY <1>1 DEF read_sector
<1> HIDE DEF z
<1>3. [b \in 1 .. n |-> z + b - 1] \in [1 .. n -> Int]
  BY <1>2
<1> QED
  BY <1>2, <1>3

-----------------------------------------------------------------------------
LEMMA TableHolds ==
  ASSUME NEW n \in Nat \ {0}, chain \in [1 .. n -> DataCluster], NEW end \in Ends,
         \A a, b \in DOMAIN chain : chain[a] = chain[b] => a = b
  PROVE  /\ Table(end) \in [EntryNumber -> Entry12]
         /\ \A a \in 1 .. n - 1 :
              chain[a] \in EntryNumber => Table(end)[chain[a]] = chain[a + 1]
<1> DEFINE After(a) == IF a = Len(chain) THEN end ELSE chain[a + 1]
<1>1. Len(chain) = n /\ DOMAIN chain = 1 .. n /\ \A a \in 1 .. n : chain[a] \in Entry12
  <2>1. Len(chain) = n /\ DOMAIN chain = 1 .. n
    OBVIOUS
  <2>2. \A a \in 1 .. n : chain[a] \in DataCluster
    OBVIOUS
  <2> QED
    BY <2>1, <2>2, Sizes, Zenon
<1>2. \A a \in 1 .. n : After(a) \in Entry12
  <2>1. end \in Entry12
    BY DiskAssumption, SMT DEF Entry12
  <2>2. ASSUME NEW a \in 1 .. n, a # n PROVE a + 1 \in 1 .. n
    BY <2>2
  <2> QED
    BY <1>1, <2>1, <2>2
<1>3. FAT12_BAD \in Entry12 /\ 4095 \in Entry12 /\ FAT12_AVAILABLE \in Entry12
  BY SMT DEF FAT12_BAD, FAT12_AVAILABLE, Entry12
<1>4. ASSUME NEW c, \E a \in 1 .. n : chain[a] = c
      PROVE  After(CHOOSE a \in 1 .. n : chain[a] = c) \in Entry12
  <2> DEFINE x == CHOOSE a \in 1 .. n : chain[a] = c
  <2>1. x \in 1 .. n
    BY <1>4
  <2> HIDE DEF x
  <2> QED
    BY <1>2, <2>1
<1>5. ASSUME NEW a \in 1 .. n - 1, chain[a] \in EntryNumber
      PROVE  Table(end)[chain[a]] = chain[a + 1]
  <2> DEFINE x == CHOOSE b \in 1 .. n : chain[b] = chain[a]
  <2>1. a \in 1 .. n /\ a # n
    OBVIOUS
  <2>2. x \in 1 .. n /\ chain[x] = chain[a]
    BY <2>1
  <2> HIDE DEF x
  <2>3. x = a
    BY <1>1, <2>1, <2>2
  <2>4. Table(end)[chain[a]] = After(x)
    BY <1>1, <1>5, <2>1, Zenon DEF Table, x
  <2> QED
    BY <1>1, <2>1, <2>3, <2>4
<1>6. Table(end) \in [EntryNumber -> Entry12]
  <2>1. ASSUME NEW c \in EntryNumber PROVE Table(end)[c] \in Entry12
    <3>1. CASE \E a \in 1 .. n : chain[a] = c
      <4>1. Table(end)[c] = After(CHOOSE a \in 1 .. n : chain[a] = c)
        BY <1>1, <2>1, <3>1, Zenon DEF Table
      <4> QED
        BY <1>4, <3>1, <4>1, Zenon
    <3>2. CASE ~\E a \in 1 .. n : chain[a] = c
      <4>1. Table(end)[c] \in {FAT12_BAD, 4095, FAT12_AVAILABLE}
        BY <1>1, <2>1, <3>2, SMT DEF Table
      <4> QED
        BY <1>3, <4>1
    <3> QED
      BY <3>1, <3>2
  <2> QED
    BY <2>1 DEF Table
<1> QED
  BY <1>5, <1>6

LEMMA InitInv == Init => ReadInv
<1> SUFFICES ASSUME Init PROVE ReadInv
  OBVIOUS
<1>1. PICK n \in Nat \ {0} : chain \in [1 .. n -> DataCluster]
  <2>1. PICK m \in 1 .. Cardinality(DataCluster) : chain \in [1 .. m -> DataCluster]
    BY Zenon DEF Init
  <2>2. m \in Nat \ {0}
    OBVIOUS
  <2> QED
    BY <2>1, <2>2
<1>2. PICK end \in Ends : fat = Packed(Table(end))
  BY Zenon DEF Init
<1>3. /\ Table(end) \in [EntryNumber -> Entry12]
      /\ \A a \in 1 .. n - 1 :
           chain[a] \in EntryNumber => Table(end)[chain[a]] = chain[a + 1]
  BY <1>1, TableHolds DEF Init
<1>4. fat \in [0 .. FatBytes - 1 -> 0 .. 255]
  BY <1>2, <1>3, PackedBytes, Sizes
<1>5. ASSUME NEW a \in 1 .. n - 1 PROVE get_fat12_entry(chain[a]) = chain[a + 1]
  <2> DEFINE c == chain[a]
  <2>1. c \in DataCluster
    BY <1>1
  <2>2. c \in Nat /\ ((c \div 2) * 3) + 2 < FatBytes
    BY <2>1, Sizes, ClusterAssumption
  <2>3. c \in EntryNumber
    BY <2>2, Sizes DEF EntryNumber
  <2>4. get_fat12_entry(c) = Table(end)[c]
    BY <1>2, <1>3, <2>2, EntryUnpacked, Sizes
  <2> QED
    BY <1>3, <2>3, <2>4
<1>6. DiskInv
  BY <1>1, <1>4, <1>5 DEF DiskInv
<1> QED
  BY <1>6 DEF Init, ReadInv, LocalsInv, WalkInv, SectorsInv, WritesWithin, ReadsFile, Returned

-----------------------------------------------------------------------------
\* One lemma for each step of read_file.
LEMMA CallStep ==
  ASSUME ReadInv, NEW f \in From, NEW s \in Size, Call(f, s)
  PROVE  ReadInv'
<1>1. f \in 0 .. Wrap - 1 /\ s \in 0 .. Wrap - 1
  BY CallAssumption
<1>2. DiskInv'
  BY DEF ReadInv, DiskInv, Call, disk, get_fat12_entry
<1>3. chain[1] \in Nat
  <2>1. chain[1] \in DataCluster
    BY DEF ReadInv, DiskInv
  <2> QED
    BY <2>1, Sizes
<1>4. get_cluster_number(FileEntry) = chain[1]
  BY <1>3 DEF get_cluster_number, FileEntry
<1>5. LocalsInv'
  BY <1>1, <1>3, <1>4 DEF ReadInv, LocalsInv, Call
<1>6. WalkInv'
  <2>1. 0 <= f \div bytes_per_sector
    BY <1>1, Remainder, CallAssumption
  <2>2. /\ size' = asked'.size /\ buf' = <<>> /\ i' = 0 /\ from' = f
        /\ cluster' = chain[0 + 1] /\ chain' = chain
    BY <1>4 DEF Call, disk
  <2> QED
    BY <2>1, <2>2 DEF WalkInv
<1> QED
  BY <1>2, <1>5, <1>6 DEF ReadInv, SectorsInv, Call

LEMMA WalkStep ==
  ASSUME ReadInv, Walk
  PROVE  ReadInv'
<1>1. pc = "walk" /\ i < from \div bytes_per_sector /\ cluster \in Nat /\ i \in Nat /\ from \in Nat
  BY DEF ReadInv, LocalsInv, Walk
<1>2. PICK e \in EntryOf(cluster) :
        /\ cluster' = e /\ i' = i + 1
        /\ UNCHANGED <<disk, pc, from, size, read_size, buf, asked, result>>
  BY <1>1, NeverEnds DEF Walk, ReadInv
<1>3. e \in Nat
  BY <1>1, <1>2, NeverEnds DEF ReadInv
<1>4. DiskInv'
  BY <1>2 DEF ReadInv, DiskInv, disk, get_fat12_entry
<1>5. WalkInv'
  <2>1. i + 1 < Len(chain) => cluster = chain[i + 1] /\ EntryOf(chain[i + 1]) = {chain[i + 2]}
    <3>1. DiskInv /\ WalkInv /\ Len(chain) \in Nat
      BY DEF ReadInv, DiskInv
    <3> QED
      <4>1. ASSUME i + 1 < Len(chain) PROVE EntryOf(chain[i + 1]) = {chain[i + 2]}
        <5>1. i < Len(chain)
          BY <1>1, <3>1, <4>1
        <5> QED
          BY <1>1, <3>1, <4>1, <5>1, Following, Zenon
      <4>2. i + 1 < Len(chain) => i < Len(chain)
        BY <1>1, <3>1
      <4> QED
        BY <1>1, <3>1, <4>1, <4>2 DEF WalkInv
  <2>2. i + 1 < Len(chain) => e = chain[(i + 1) + 1]
    <3>1. (i + 1) + 1 = i + 2
      BY <1>1
    <3> QED
      BY <1>1, <1>2, <2>1, <3>1
  <2>3. i + 1 <= from \div bytes_per_sector
    BY <1>1, Remainder
  <2>4. size = asked.size /\ buf = <<>>
    BY <1>1 DEF ReadInv, WalkInv
  <2> QED
    BY <1>2, <2>2, <2>3, <2>4 DEF WalkInv, disk
<1>6. LocalsInv'
  BY <1>1, <1>2, <1>3 DEF ReadInv, LocalsInv
<1> QED
  BY <1>1, <1>2, <1>4, <1>5, <1>6 DEF ReadInv, SectorsInv

LEMMA FirstPartStep ==
  ASSUME ReadInv, FirstPart
  PROVE  ReadInv'
<1> DEFINE n == from % bytes_per_sector
           q == from \div bytes_per_sector
<1>1. /\ pc = "walk" /\ i = q /\ from \in Nat /\ cluster \in Nat /\ size = asked.size
      /\ from = asked.from /\ asked.call = "read_file" /\ buf = <<>>
      /\ size \in 0 .. Wrap - 1
  <2>1. pc = "walk" /\ i >= q
    BY DEF ReadInv, LocalsInv, FirstPart
  <2>2. from \in Nat /\ i \in Nat /\ cluster \in Nat
    BY DEF ReadInv, LocalsInv
  <2>3. q \in Nat
    BY <2>2, Remainder
  <2>4. i <= q /\ size = asked.size /\ buf = <<>>
    BY <2>1 DEF ReadInv, WalkInv
  <2>5. from = asked.from /\ asked.call = "read_file" /\ asked.size \in 0 .. Wrap - 1
    BY <2>1 DEF ReadInv, LocalsInv
  <2> QED
    BY <2>1, <2>2, <2>3, <2>4, <2>5
<1>2. n \in Nat /\ n \in 0 .. bytes_per_sector - 1 /\ q \in Nat /\ from = q * bytes_per_sector + n
  <2>1. n \in 0 .. bytes_per_sector - 1 /\ q \in Nat /\ from = q * bytes_per_sector + n
    BY <1>1, Remainder
  <2> QED
    BY <2>1, Sizes
<1>3. /\ buf' = read_sector(cluster, n) /\ read_size' = n
      /\ size' = IF n = 0 THEN size ELSE SizeLeft(n)
      /\ pc' = "sectors" /\ i' = 0
      /\ UNCHANGED <<disk, from, cluster, asked, result>>
  <2>1. read_sector(cluster, n) \in Seq(Int)
    BY <1>1, <1>2, SectorType
  <2> QED
    BY <1>1, <2>1 DEF FirstPart
<1>4. size' \in Nat /\ (n <= size => size' = size - n)
  <2> HIDE DEF n
  <2>1. n <= size => size - n \in 0 .. Wrap - 1
    BY <1>1, <1>2, CallAssumption
  <2>2. \A x \in 0 .. Wrap - 1 : x % Wrap = x
    BY CallAssumption
  <2>3. \A x \in Int : x % Wrap \in Nat
    BY CallAssumption
  <2>4. size - n \in Int
    BY <1>1, <1>2, CallAssumption
  <2>5. n = 0 => size - n = size
    BY <1>1, CallAssumption
  <2> QED
    BY <1>1, <1>3, <2>1, <2>2, <2>3, <2>4, <2>5 DEF SizeLeft
<1>5. buf' \in Seq(Int) /\ Len(buf') = n
  BY <1>1, <1>2, <1>3, SectorType
<1>6. DiskInv'
  BY <1>3 DEF ReadInv, DiskInv, disk, get_fat12_entry
<1>7. LocalsInv'
  BY <1>1, <1>2, <1>3, <1>4, <1>5 DEF ReadInv, LocalsInv
<1>8. SectorsInv'
  <2>1. ASSUME Enough PROVE size' = asked.size - n /\ 0 <= size' \div bytes_per_sector
    <3>1. size' \in Nat /\ size' = asked.size - n
      BY <1>1, <1>2, <1>4, <2>1 DEF Enough
    <3> QED
      BY <3>1, Remainder
  <2>2. q + 0 < Len(chain) => cluster = chain[q + 0 + 1]
    BY <1>1, <1>2 DEF ReadInv, WalkInv
  <2>3. n = 0 => \A k \in 1 .. Len(buf') : FALSE
    BY <1>5
  <2>4. 0 * bytes_per_sector = 0 /\ n + 0 = n
    BY <1>2, Sizes
  <2> HIDE DEF n, q
  <2>5. chain' = chain /\ from' = from /\ asked' = asked /\ cluster' = cluster
    BY <1>3 DEF disk
  <2> QED
    BY <1>3, <1>5, <2>1, <2>2, <2>3, <2>4, <2>5 DEF SectorsInv, Enough, Inside, n, q
<1> QED
  BY <1>3, <1>6, <1>7, <1>8 DEF ReadInv, WalkInv

LEMMA Concatenated ==
  ASSUME NEW s \in Seq(Int), NEW t \in Seq(Int)
  PROVE  s \o t \in Seq(Int) /\ Len(s \o t) = Len(s) + Len(t)
OBVIOUS

\* What is read of the next cluster, a whole sector or the rest, goes behind
\* what was read before.
LEMMA Appended ==
  ASSUME ReadInv, pc = "sectors", NEW m \in 0 .. bytes_per_sector,
         buf' = buf \o read_sector(cluster, m)
  PROVE  /\ buf' \in Seq(Int) /\ Len(buf') = Len(buf) + m
         /\ Inside /\ i * bytes_per_sector + m <= size =>
              /\ m > 0 => (from \div bytes_per_sector) + i < Len(chain)
              /\ \A k \in 1 .. Len(buf') : buf'[k] = FileByte(from + k - 1)
<1> DEFINE q == from \div bytes_per_sector
           r == read_sector(cluster, m)
<1>1. /\ buf \in Seq(Int) /\ r \in Seq(Int) /\ Len(r) = m /\ m \in Nat /\ Len(buf) \in Nat
      /\ from \in Nat /\ i \in Nat /\ size \in Nat /\ q \in Nat /\ buf' = buf \o r
  <2>1. /\ buf \in Seq(Int) /\ from \in Nat /\ i \in Nat /\ size \in Nat /\ cluster \in Nat
    BY DEF ReadInv, LocalsInv
  <2>2. m \in Nat
    BY Sizes
  <2>3. r \in Seq(Int) /\ Len(r) = m
    BY <2>1, <2>2, SectorType
  <2>4. q \in Nat
    BY <2>1, Remainder
  <2>5. buf' = buf \o r
    OBVIOUS
  <2> QED
    BY <2>1, <2>2, <2>3, <2>4, <2>5
<1> HIDE DEF r
<1>2. buf' \in Seq(Int) /\ Len(buf') = Len(buf) + m
  <2>1. buf \o r \in Seq(Int) /\ Len(buf \o r) = Len(buf) + Len(r)
    BY <1>1, Concatenated, Zenon
  <2> QED
    BY <1>1, <2>1, Zenon
<1>3. ASSUME Inside, i * bytes_per_sector + m <= size
      PROVE  /\ m > 0 => q + i < Len(chain)
             /\ \A k \in 1 .. Len(buf') : buf'[k] = FileByte(from + k - 1)
  <2>1. /\ from = q * bytes_per_sector /\ asked.size \in Nat
        /\ q * bytes_per_sector \in Nat /\ i * bytes_per_sector \in Nat
    <3>1. asked.size \in Nat
      BY CallAssumption DEF ReadInv, LocalsInv
    <3>2. from = q * bytes_per_sector + 0
      BY <1>1, <1>3, Remainder DEF Inside
    <3>3. q * bytes_per_sector \in Nat /\ i * bytes_per_sector \in Nat
      BY <1>1, OneMore, Zenon
    <3> HIDE DEF q
    <3> QED
      BY <3>1, <3>2, <3>3
  <2>2. /\ size = asked.size /\ Len(buf) = i * bytes_per_sector
        /\ q + i < Len(chain) => cluster = chain[q + i + 1]
        /\ \A k \in 1 .. Len(buf) : buf[k] = FileByte(from + k - 1)
    <3>1. Enough /\ from % bytes_per_sector = 0
      BY <1>3, <2>1 DEF Inside, Enough
    <3> QED
      BY <1>1, <1>3, <2>1, <3>1 DEF ReadInv, SectorsInv
  <2>3. (q + i) * bytes_per_sector = q * bytes_per_sector + i * bytes_per_sector /\ q + i \in Nat
    <3> HIDE DEF q
    <3> QED
      BY <1>1, Sum
  <2>4. ASSUME m > 0 PROVE q + i < Len(chain)
    <3>1. Len(chain) \in Nat
      BY DEF ReadInv, DiskInv
    <3>2. Len(chain) * bytes_per_sector \in Nat
      BY <3>1, OneMore
    <3>3. from + asked.size <= Len(chain) * bytes_per_sector
      BY <1>3 DEF Inside
    <3>4. (q + i) * bytes_per_sector < Len(chain) * bytes_per_sector
      <4> DEFINE u == q * bytes_per_sector
                 v == i * bytes_per_sector
                 w == (q + i) * bytes_per_sector
                 l == Len(chain) * bytes_per_sector
      <4>1. /\ w = u + v /\ v + m <= size /\ size = asked.size /\ from = u
            /\ from + asked.size <= l /\ m > 0
            /\ u \in Nat /\ v \in Nat /\ l \in Nat /\ size \in Nat /\ m \in Nat
        BY <1>1, <1>3, <2>1, <2>2, <2>3, <2>4, <3>2, <3>3, Zenon
      <4> HIDE DEF u, v, w, l
      <4>2. w < l
        BY <4>1
      <4> QED
        BY <4>2 DEF w, l
    <3> QED
      BY <2>3, <3>1, <3>4, Monotone
  <2>5. ASSUME NEW k \in 1 .. Len(buf') PROVE buf'[k] = FileByte(from + k - 1)
    <3>1. CASE k <= Len(buf)
      BY <1>1, <1>2, <2>2, <2>5, <3>1
    <3>2. CASE k > Len(buf)
      <4> DEFINE j == k - Len(buf)
      <4>1. j \in 1 .. m /\ k = Len(buf) + j /\ m > 0
        BY <1>1, <1>2, <2>5, <3>2
      <4>2. buf'[k] = r[j]
        BY <1>1, <4>1, <2>5, <3>2
      <4>3. r[j] = FileByte((q + i) * bytes_per_sector + (j - 1))
        BY <2>2, <2>3, <2>4, <4>1, SectorBytes DEF ReadInv, r
      <4>4. (q + i) * bytes_per_sector + (j - 1) = from + k - 1
        <5> DEFINE u == q * bytes_per_sector
                   v == i * bytes_per_sector
                   w == (q + i) * bytes_per_sector
        <5>1. /\ w = u + v /\ from = u /\ k = Len(buf) + j /\ Len(buf) = v
              /\ u \in Nat /\ v \in Nat /\ j \in 1 .. m /\ m \in Nat
          BY <1>1, <2>1, <2>2, <2>3, <4>1, Zenon
        <5> HIDE DEF u, v, w, j
        <5>2. w + (j - 1) = from + k - 1
          BY <5>1
        <5> QED
          BY <5>2 DEF w, j
      <4> QED
        BY <4>2, <4>3, <4>4
    <3> QED
      BY <1>1, <1>2, <3>1, <3>2
  <2> QED
    BY <2>4, <2>5
<1> QED
  BY <1>2, <1>3

LEMMA SectorsStep ==
  ASSUME ReadInv, Sectors
  PROVE  ReadInv'
<1> DEFINE n == from % bytes_per_sector
           q == from \div bytes_per_sector
<1>1. /\ pc = "sectors" /\ i < size \div bytes_per_sector
      /\ i \in Nat /\ size \in Nat /\ from \in Nat /\ read_size \in Nat /\ cluster \in Nat
      /\ n \in Nat /\ q \in Nat /\ i * bytes_per_sector \in Nat /\ bytes_per_sector \in Nat
      /\ asked.size \in 0 .. Wrap - 1
  <2>1. /\ pc = "sectors" /\ i < size \div bytes_per_sector
        /\ i \in Nat /\ size \in Nat /\ from \in Nat /\ read_size \in Nat /\ cluster \in Nat
        /\ asked.size \in 0 .. Wrap - 1
    BY DEF ReadInv, LocalsInv, Sectors
  <2>2. q \in Nat /\ n \in 0 .. bytes_per_sector - 1
    BY <2>1, Remainder
  <2>3. n \in Nat /\ bytes_per_sector \in Nat
    BY <2>2, Sizes
  <2>4. i * bytes_per_sector \in Nat
    BY <2>1, OneMore
  <2> QED
    BY <2>1, <2>2, <2>3, <2>4
<1>2. PICK e \in EntryOf(cluster) :
        /\ cluster' = e /\ i' = i + 1
        /\ read_size' = (read_size + bytes_per_sector) % Wrap
        /\ UNCHANGED <<disk, pc, from, size, asked, result>>
  BY <1>1, NeverEnds DEF Sectors, ReadInv
<1>3. e \in Nat
  BY <1>1, <1>2, NeverEnds DEF ReadInv
<1>4. /\ buf' = buf \o read_sector(cluster, bytes_per_sector)
      /\ bytes_per_sector \in 0 .. bytes_per_sector /\ bytes_per_sector > 0
      /\ i * bytes_per_sector + bytes_per_sector <= size
      /\ i + 1 <= size \div bytes_per_sector
      /\ (i + 1) * bytes_per_sector = i * bytes_per_sector + bytes_per_sector
  <2>1. size \div bytes_per_sector \in Nat /\ bytes_per_sector \in 0 .. bytes_per_sector
        /\ bytes_per_sector > 0
    BY <1>1, Sizes, Remainder
  <2>2. i * bytes_per_sector + bytes_per_sector <= size
        /\ (i + 1) * bytes_per_sector = i * bytes_per_sector + bytes_per_sector
    BY <1>1, WholeSectors, OneMore
  <2> QED
    BY <1>1, <2>1, <2>2 DEF Sectors
<1>5. /\ buf' \in Seq(Int) /\ Len(buf') = Len(buf) + bytes_per_sector
      /\ Inside => /\ q + i < Len(chain)
                   /\ \A k \in 1 .. Len(buf') : buf'[k] = FileByte(from + k - 1)
  BY <1>1, <1>4, Appended
<1>6. ASSUME Enough
      PROVE  /\ size = asked.size - n
             /\ read_size' = n + (i + 1) * bytes_per_sector
             /\ Len(buf') = read_size'
  <2>1. /\ size = asked.size - n /\ read_size = n + i * bytes_per_sector
        /\ Len(buf) = read_size
    BY <1>1, <1>6 DEF ReadInv, SectorsInv
  <2> HIDE DEF n, q
  <2>2. read_size + bytes_per_sector \in 0 .. Wrap - 1
    <3> DEFINE v == i * bytes_per_sector
    <3>1. /\ v \in Nat /\ n \in Nat /\ bytes_per_sector \in Nat /\ asked.size \in 0 .. Wrap - 1
          /\ v + bytes_per_sector <= size /\ size = asked.size - n /\ read_size = n + v
      BY <1>1, <1>4, <2>1, Zenon
    <3> HIDE DEF v
    <3> QED
      BY <3>1, CallAssumption
  <2>3. \A x \in 0 .. Wrap - 1 : x % Wrap = x
    BY CallAssumption
  <2>4. read_size' = read_size + bytes_per_sector
    BY <1>2, <2>2, <2>3
  <2> QED
    BY <1>1, <1>4, <1>5, <2>1, <2>4
<1>7. ASSUME Inside, q + (i + 1) < Len(chain) PROVE e = chain[q + (i + 1) + 1]
  <2>1. q + i \in Nat /\ q + i < Len(chain) /\ q + i + 1 < Len(chain)
        /\ q + (i + 1) + 1 = q + i + 2
    <3> HIDE DEF q
    <3>1. Len(chain) \in Nat
      BY DEF ReadInv, DiskInv
    <3> QED
      BY <1>1, <1>7, <3>1
  <2>2. cluster = chain[q + i + 1]
    BY <1>1, <1>7, <2>1 DEF ReadInv, SectorsInv
  <2>3. EntryOf(chain[q + i + 1]) = {chain[q + i + 2]}
    BY <2>1, Following, Zenon DEF ReadInv
  <2> QED
    BY <1>2, <2>1, <2>2, <2>3
<1>8. DiskInv'
  BY <1>2 DEF ReadInv, DiskInv, disk, get_fat12_entry
<1>9. LocalsInv'
  <2>1. read_size' \in Nat
    BY <1>1, <1>2, CallAssumption
  <2> QED
    BY <1>1, <1>2, <1>3, <1>5, <2>1 DEF ReadInv, LocalsInv
<1>10. SectorsInv'
  <2>1. /\ chain' = chain /\ from' = from /\ asked' = asked /\ size' = size
        /\ \A k : FileByte(k)' = FileByte(k)
    BY <1>2 DEF disk, FileByte
  <2>2. (Enough' <=> Enough) /\ (Inside' <=> Inside)
    BY <2>1 DEF Enough, Inside
  <2> QED
    BY <1>2, <1>4, <1>5, <1>6, <1>7, <2>1, <2>2 DEF SectorsInv
<1> QED
  BY <1>1, <1>2, <1>8, <1>9, <1>10 DEF ReadInv, WalkInv

LEMMA RestStep ==
  ASSUME ReadInv, Rest
  PROVE  ReadInv'
<1> DEFINE n == from % bytes_per_sector
           q == from \div bytes_per_sector
           m == size % bytes_per_sector
<1>1. /\ pc = "sectors" /\ i >= size \div bytes_per_sector
      /\ i \in Nat /\ size \in Nat /\ from \in Nat /\ read_size \in Nat
      /\ asked.size \in 0 .. Wrap - 1 /\ asked.call = "read_file" /\ asked.from = from
  BY DEF ReadInv, LocalsInv, Rest
<1>2. n \in Nat /\ m \in Nat /\ m \in 0 .. bytes_per_sector /\ size \div bytes_per_sector \in Nat
      /\ size = (size \div bytes_per_sector) * bytes_per_sector + m
      /\ i * bytes_per_sector \in Nat
  <2>1. n \in 0 .. bytes_per_sector - 1 /\ m \in 0 .. bytes_per_sector - 1
        /\ size \div bytes_per_sector \in Nat
        /\ size = (size \div bytes_per_sector) * bytes_per_sector + m
    BY <1>1, Remainder
  <2>2. i * bytes_per_sector \in Nat
    BY <1>1, OneMore
  <2> HIDE DEF n, m
  <2> QED
    BY <2>1, <2>2, Sizes
<1>3. /\ buf' = buf \o read_sector(cluster, m) /\ result' = (read_size + m) % Wrap
      /\ pc' = "idle" /\ from' = 0 /\ size' = 0 /\ cluster' = 0 /\ i' = 0 /\ read_size' = 0
      /\ UNCHANGED <<disk, asked>>
  BY DEF Rest, Return
<1>4. /\ buf' \in Seq(Int) /\ Len(buf') = Len(buf) + m
      /\ Inside /\ i * bytes_per_sector + m <= size =>
           \A k \in 1 .. Len(buf') : buf'[k] = FileByte(from + k - 1)
  BY <1>1, <1>2, <1>3, Appended
<1>5. ASSUME Enough
      PROVE  /\ result' = asked.size /\ Len(buf') = asked.size
             /\ i * bytes_per_sector + m <= size
  <2>1. /\ size = asked.size - n /\ read_size = n + i * bytes_per_sector
        /\ Len(buf) = read_size /\ i = size \div bytes_per_sector
    <3>1. /\ size = asked.size - n /\ read_size = n + i * bytes_per_sector
          /\ Len(buf) = read_size /\ i <= size \div bytes_per_sector
      BY <1>1, <1>5 DEF ReadInv, SectorsInv
    <3> QED
      BY <1>1, <1>2, <3>1
  <2>2. size = i * bytes_per_sector + m
    BY <1>2, <2>1
  <2> HIDE DEF n, m
  <2>3. read_size + m = asked.size
    <3>1. /\ asked.size \in Int /\ n \in Int /\ m \in Int
          /\ i * bytes_per_sector \in Int
      BY <1>1, <1>2, CallAssumption
    <3> QED
      BY <2>1, <2>2, <3>1
  <2>4. \A x \in 0 .. Wrap - 1 : x % Wrap = x
    BY CallAssumption
  <2> QED
    BY <1>1, <1>2, <1>3, <1>4, <2>1, <2>2, <2>3, <2>4
<1>6. DiskInv'
  BY <1>3 DEF ReadInv, DiskInv, disk, get_fat12_entry
<1>7. LocalsInv'
  BY <1>1, <1>3, <1>4 DEF ReadInv, LocalsInv
<1>8. WritesWithin'
  <2>1. ASSUME from % bytes_per_sector <= asked.size
        PROVE  Len(buf') <= asked.size /\ result' = Len(buf')
    BY <1>1, <1>5, <2>1 DEF Enough
  <2> QED
    BY <1>1, <1>3, <2>1 DEF WritesWithin
<1>9. ReadsFile'
  <2>1. ASSUME Inside
        PROVE  /\ result' = asked.size
               /\ buf' = [b \in 1 .. asked.size |-> FileByte(asked.from + b - 1)]
    <3>1. Enough
      BY <1>1, <2>1, CallAssumption DEF Inside, Enough
    <3>2. /\ result' = asked.size /\ Len(buf') = asked.size
          /\ \A k \in 1 .. Len(buf') : buf'[k] = FileByte(from + k - 1)
      BY <1>4, <1>5, <2>1, <3>1
    <3>3. buf' = [k \in 1 .. Len(buf') |-> buf'[k]]
      BY <1>4
    <3> QED
      BY <1>1, <3>2, <3>3
  <2>2. chain' = chain /\ asked' = asked /\ \A k : FileByte(k)' = FileByte(k)
    BY <1>3 DEF disk, FileByte
  <2> QED
    BY <1>1, <1>3, <2>1, <2>2 DEF ReadsFile, Returned, Inside
<1> QED
  BY <1>3, <1>6, <1>7, <1>8, <1>9 DEF ReadInv, WalkInv, SectorsInv

LEMMA NextInv == ReadInv /\ [Next]_vars => ReadInv'
<1> SUFFICES ASSUME ReadInv, [Next]_vars PROVE ReadInv'
  OBVIOUS
<1>1. CASE \E f \in From, s \in Size : Call(f, s)
  BY <1>1, CallStep
<1>2. CASE Walk
  BY <1>2, WalkStep
<1>3. CASE FirstPart
  BY <1>3, FirstPartStep
<1>4. CASE Sectors
  BY <1>4, SectorsStep
<1>5. CASE Rest
  BY <1>5, RestStep
<1>6. CASE FindFree \/ CountFree \/ \E x \in Name : FindEntry(x)
  <2>1. /\ UNCHANGED <<disk, locals>> /\ pc = "idle" /\ buf' = <<>>
        /\ asked'.call # "read_file"
    <3>1. CASE FindFree
      BY <3>1 DEF FindFree
    <3>2. CASE CountFree
      BY <3>2 DEF CountFree
    <3>3. CASE \E x \in Name : FindEntry(x)
      BY <3>3 DEF FindEntry
    <3> QED
      BY <1>6, <3>1, <3>2, <3>3
  <2>2. DiskInv'
    BY <2>1 DEF ReadInv, DiskInv, disk, get_fat12_entry
  <2>3. LocalsInv'
    BY <2>1 DEF ReadInv, LocalsInv, locals
  <2> QED
    BY <2>1, <2>2, <2>3
    DEF ReadInv, WalkInv, SectorsInv, WritesWithin, ReadsFile, Returned, locals
<1>7. CASE UNCHANGED vars
  <2>1. UNCHANGED <<disk, locals, buf, asked, result>>
    BY <1>7 DEF vars
  <2>2. DiskInv'
    BY <2>1 DEF ReadInv, DiskInv, disk, get_fat12_entry
  <2>3. LocalsInv' /\ WalkInv'
    BY <2>1 DEF ReadInv, LocalsInv, WalkInv, locals, disk
  <2>4. SectorsInv'
    BY <2>1 DEF ReadInv, SectorsInv, Enough, Inside, FileByte, locals, disk
  <2> QED
    BY <2>1, <2>2, <2>3, <2>4
    DEF ReadInv, WritesWithin, ReadsFile, Returned, FileByte, locals, disk
<1> QED
  BY <1>1, <1>2, <1>3, <1>4, <1>5, <1>6, <1>7 DEF Next

(***************************************************************************)
(* read_file writes no more than it was asked for and counts what it       *)
(* wrote, and a read from the start of a sector inside the file's clusters *)
(* copies exactly the file's bytes: for every geometry, every chain and    *)
(* every call, whatever lies behind the table.                             *)
(***************************************************************************)
THEOREM ReadCorrect == Spec => [](WritesWithin /\ ReadsFile)
<1>1. ReadInv => WritesWithin /\ ReadsFile
  <2> SUFFICES ASSUME ReadInv PROVE WritesWithin /\ ReadsFile
    OBVIOUS
  <2>1. CASE pc = "idle"
    BY <2>1 DEF ReadInv
  <2>2. CASE pc = "walk"
    <3>1. buf = <<>> /\ (asked.call = "read_file" => asked.size \in Nat)
      BY <2>2, CallAssumption DEF ReadInv, LocalsInv, WalkInv
    <3> QED
      BY <2>2, <3>1 DEF WritesWithin, ReadsFile, Returned
  <2>3. CASE pc = "sectors"
    <3>1. /\ from = asked.from /\ from \in Nat /\ i \in Nat /\ size \in Nat
          /\ asked.size \in Nat
      BY <2>3, CallAssumption DEF ReadInv, LocalsInv
    <3>2. ASSUME Enough PROVE Len(buf) <= asked.size
      <4>1. /\ size = asked.size - (from % bytes_per_sector)
            /\ i <= size \div bytes_per_sector
            /\ Len(buf) = (from % bytes_per_sector) + i * bytes_per_sector
        BY <2>3, <3>2 DEF ReadInv, SectorsInv
      <4>2. i * bytes_per_sector <= size
        BY <3>1, <4>1, WithinSectors
      <4>3. from % bytes_per_sector \in Nat /\ i * bytes_per_sector \in Nat
        BY <3>1, Remainder, OneMore, Sizes
      <4> QED
        BY <3>1, <4>1, <4>2, <4>3
    <3> QED
      BY <2>3, <3>1, <3>2 DEF WritesWithin, ReadsFile, Returned, Enough
  <2> QED
    BY <2>1, <2>2, <2>3 DEF ReadInv, LocalsInv
<1> QED
  BY <1>1, InitInv, NextInv, PTL DEF Spec

-----------------------------------------------------------------------------
\* A set of natural numbers that is not empty has a least one.
LEMMA Least ==
  ASSUME NEW T, T \subseteq Nat, T # {}
  PROVE  \E n \in T : \A m \in T : n <= m
<1> DEFINE R == {p \in Nat \X Nat : p[1] < p[2]}
<1>1. R = OpToRel(<, Nat)
  BY DEF OpToRel
<1>2. IsWellFoundedOn(R, Nat)
  BY <1>1, NatLessThanWellFounded
<1>3. \A m, n \in Nat : <<m, n>> \in R <=> m < n
  OBVIOUS
<1> HIDE DEF R
<1>4. PICK n \in T : \A m \in T : ~(<<m, n>> \in R)
  BY <1>2, WFMin
<1>5. ASSUME NEW m \in T PROVE n <= m
  <2>1. m \in Nat /\ n \in Nat /\ ~(m < n)
    BY <1>3, <1>4
  <2> QED
    BY <2>1
<1> QED
  BY <1>5

-----------------------------------------------------------------------------
\* What the table says of a cluster: it is free when the file does not have it
\* and it is not bad.
Used == {chain[a] : a \in DOMAIN chain} \cup bad

FreeInv ==
  /\ Used \subseteq DataCluster /\ Used # {}
  /\ \A c \in Searched : get_fat12_entry(c) = FAT12_AVAILABLE <=> c \notin Used

LEMMA TableFree ==
  ASSUME NEW n \in Nat \ {0}, chain \in [1 .. n -> DataCluster], NEW end \in Ends,
         NEW c \in EntryNumber, c >= 2
  PROVE  Table(end)[c] = FAT12_AVAILABLE <=> c \notin Used
<1> DEFINE After(a) == IF a = Len(chain) THEN end ELSE chain[a + 1]
<1>1. Len(chain) = n /\ DOMAIN chain = 1 .. n
  OBVIOUS
<1>2. CASE \E a \in DOMAIN chain : chain[a] = c
  <2> DEFINE x == CHOOSE a \in DOMAIN chain : chain[a] = c
  <2>1. x \in 1 .. n
    BY <1>1, <1>2
  <2>2. Table(end)[c] = After(x)
    BY <1>2 DEF Table
  <2> HIDE DEF x
  <2>3. After(x) # 0
    <3>1. CASE x = n
      BY <1>1, <3>1, DiskAssumption, SMT
    <3>2. CASE x # n
      <4>1. x + 1 \in 1 .. n
        BY <2>1, <3>2
      <4>2. chain[x + 1] \in DataCluster
        BY <4>1
      <4>3. chain[x + 1] # 0
        BY <4>2 DEF DataCluster
      <4> QED
        BY <1>1, <3>2, <4>3
    <3> QED
      BY <3>1, <3>2
  <2>4. c \in Used
    BY <1>1, <1>2 DEF Used
  <2> QED
    BY <2>2, <2>3, <2>4 DEF FAT12_AVAILABLE
<1>3. CASE ~\E a \in DOMAIN chain : chain[a] = c
  <2>1. Table(end)[c] = IF c \in bad THEN FAT12_BAD ELSE IF c < 2 THEN 4095 ELSE FAT12_AVAILABLE
    BY <1>1, <1>3, Zenon DEF Table
  <2>2. c \in Used <=> c \in bad
    BY <1>1, <1>3 DEF Used
  <2>3. ~(c < 2)
    BY DEF EntryNumber
  <2> QED
    BY <2>1, <2>2, <2>3, SMT DEF FAT12_BAD, FAT12_AVAILABLE
<1> QED
  BY <1>2, <1>3

LEMMA InitFree == Init => FreeInv
<1> SUFFICES ASSUME Init PROVE FreeInv
  OBVIOUS
<1>1. PICK n \in Nat \ {0} : chain \in [1 .. n -> DataCluster]
  <2>1. PICK m \in 1 .. Cardinality(DataCluster) : chain \in [1 .. m -> DataCluster]
    BY Zenon DEF Init
  <2>2. m \in Nat \ {0}
    OBVIOUS
  <2> QED
    BY <2>1, <2>2
<1>2. PICK end \in Ends : fat = Packed(Table(end))
  BY Zenon DEF Init
<1>3. Table(end) \in [EntryNumber -> Entry12]
  BY <1>1, TableHolds DEF Init
<1>4. Used \subseteq DataCluster /\ Used # {}
  <2>1. bad \subseteq DataCluster
    BY DEF Init
  <2>2. DOMAIN chain = 1 .. n /\ 1 \in 1 .. n /\ \A a \in 1 .. n : chain[a] \in DataCluster
    BY <1>1
  <2> QED
    BY <2>1, <2>2 DEF Used
<1>5. ASSUME NEW c \in Searched
      PROVE  get_fat12_entry(c) = FAT12_AVAILABLE <=> c \notin Used
  <2>1. c \in Nat /\ c >= 2 /\ ((c \div 2) * 3) + 2 < FatBytes
    <3>1. c \in Nat /\ c >= 2
      BY DiskAssumption DEF Searched, get_total_clusters
    <3> QED
      BY <3>1, SearchAssumption
  <2>2. c \in EntryNumber
    BY <2>1, Sizes DEF EntryNumber
  <2>3. get_fat12_entry(c) = Table(end)[c]
    BY <1>2, <1>3, <2>1, EntryUnpacked, Sizes
  <2> QED
    BY <1>1, <2>1, <2>2, <2>3, TableFree
<1> QED
  BY <1>4, <1>5 DEF FreeInv

\* The data area starts behind two sectors at least, so every cluster of it has
\* a number that the searches look at.
LEMMA AllSearched ==
  /\ DataCluster \subseteq Searched
  /\ IsFiniteSet(Searched) /\ IsFiniteSet(DataCluster) /\ Searched \subseteq Nat
  /\ DataCluster # {} => Cardinality(Searched) = get_total_clusters - 2
  /\ \A c \in Searched, e \in DataCluster : c <= e => c \in DataCluster
<1> DEFINE k == (root_entries * SizeofDE) \div bytes_per_sector
           t == number_of_fats * sectors_per_fat
           d == reserved_sectors + t + k
<1>1. k \in Nat /\ root_entries * SizeofDE = k * bytes_per_sector
  <2>1. root_entries * SizeofDE \in Nat
    BY DiskAssumption DEF SizeofDE
  <2>2. /\ root_entries * SizeofDE =
             ((root_entries * SizeofDE) \div bytes_per_sector) * bytes_per_sector
               + ((root_entries * SizeofDE) % bytes_per_sector)
        /\ (root_entries * SizeofDE) \div bytes_per_sector \in Nat
    BY <2>1, Remainder
  <2>3. k * bytes_per_sector \in Nat
    BY <2>2, OneMore
  <2> QED
    BY <2>1, <2>2, <2>3, RootAssumption
<1>2. t \in Nat /\ t >= 1
  BY DiskAssumption, SearchAssumption
<1>3. reserved_sectors \in Nat /\ reserved_sectors >= 1 /\ total_sectors \in Nat
  BY DiskAssumption, SearchAssumption
<1>4. d \in Nat /\ d >= 2
  <2> HIDE DEF k, t
  <2> QED
    BY <1>1, <1>2, <1>3
<1>5. DataStart = d * bytes_per_sector
  <2>1. DataStart = (reserved_sectors + t) * bytes_per_sector + k * bytes_per_sector
    BY <1>1 DEF DataStart, get_rde
  <2> HIDE DEF k, t
  <2>2. (reserved_sectors + t) + k = d /\ reserved_sectors + t \in Nat
    BY <1>1, <1>2, <1>3
  <2>3. ((reserved_sectors + t) + k) * bytes_per_sector
          = (reserved_sectors + t) * bytes_per_sector + k * bytes_per_sector
    BY <1>1, <2>2, Sum
  <2> QED
    BY <2>1, <2>2, <2>3
<1> HIDE DEF k, t, d
<1>6. DataStart \div bytes_per_sector = d
  <2>1. 0 \in 0 .. bytes_per_sector - 1 /\ d * bytes_per_sector + 0 = d * bytes_per_sector
    BY <1>4, Sizes, OneMore
  <2>2. (d * bytes_per_sector + 0) \div bytes_per_sector = d
    BY <1>4, <2>1, Division
  <2> QED
    BY <1>5, <2>1, <2>2
<1>7. DataCluster = 2 .. (1 + total_sectors - d) /\ Searched = 2 .. (total_sectors - 1)
  BY <1>6 DEF DataCluster, Searched, get_total_clusters
<1>8. 1 + total_sectors - d \in Int /\ total_sectors - 1 \in Int
      /\ 1 + total_sectors - d <= total_sectors - 1
  BY <1>3, <1>4
<1>9. DataCluster \subseteq Searched /\ Searched \subseteq Nat
  BY <1>7, <1>8
<1>10. IsFiniteSet(Searched) /\ IsFiniteSet(DataCluster)
  BY <1>7, <1>8, FS_Interval
<1>11. ASSUME DataCluster # {} PROVE Cardinality(Searched) = get_total_clusters - 2
  <2>1. ~(2 > total_sectors - 1)
    BY <1>7, <1>8, <1>11
  <2>2. Cardinality(2 .. (total_sectors - 1))
          = IF 2 > total_sectors - 1 THEN 0 ELSE (total_sectors - 1) - 2 + 1
    BY <1>8, FS_Interval
  <2> QED
    BY <1>3, <1>7, <2>1, <2>2 DEF get_total_clusters
<1>12. \A c \in Searched, e \in DataCluster : c <= e => c \in DataCluster
  BY <1>7, <1>8
<1> QED
  BY <1>9, <1>10, <1>11, <1>12

LEMMA FoundFree ==
  ASSUME FreeInv
  PROVE  FreeFound = Searched \ Used
BY DEF FreeInv, FreeFound

LEMMA FreeStep ==
  ASSUME FreeInv, FindFree \/ CountFree
  PROVE  FreeRight'
<1>1. UNCHANGED <<disk, locals>> /\ FreeFound = Searched \ Used
  BY FoundFree DEF FindFree, CountFree
<1>2. Used' = Used
  BY <1>1 DEF disk, Used
<1>3. Used \subseteq DataCluster /\ DataCluster # {}
  BY DEF FreeInv
<1>4. CASE FindFree
  <2>1. asked'.call = "find_free_cluster"
        /\ result' = IF FreeFound = {} THEN 0
                     ELSE CHOOSE c \in FreeFound : \A d \in FreeFound : c <= d
    BY <1>4 DEF FindFree
  <2>2. CASE FreeFound = {}
    <3>1. result' = 0 /\ 0 \notin Used
      BY <1>3, <2>1, <2>2 DEF DataCluster
    <3>2. Used = DataCluster
      BY <1>1, <1>3, <2>2, AllSearched
    <3> QED
      BY <1>2, <2>1, <3>1, <3>2 DEF FreeRight, Returned, Used
  <2>3. CASE FreeFound # {}
    <3>1. FreeFound \subseteq Nat
      BY <1>1, AllSearched
    <3>2. \E c \in FreeFound : \A d \in FreeFound : c <= d
      BY <2>3, <3>1, Least
    <3>3. result' \in FreeFound /\ \A d \in FreeFound : result' <= d
      BY <2>1, <2>3, <3>2
    <3>4. result' \notin Used
      BY <1>1, <3>3
    <3>5. ASSUME Used # DataCluster PROVE result' \in DataCluster
      <4>1. PICK d \in DataCluster : d \notin Used
        BY <1>3, <3>5
      <4>2. d \in FreeFound
        BY <1>1, <4>1, AllSearched
      <4>3. result' \in Searched /\ d \in DataCluster /\ result' <= d
        BY <1>1, <3>3, <4>2
      <4> QED
        BY <4>3, AllSearched
    <3> QED
      BY <1>2, <2>1, <3>4, <3>5 DEF FreeRight, Returned, Used
  <2> QED
    BY <2>2, <2>3
<1>5. CASE CountFree
  <2>1. asked'.call = "count_free_clusters" /\ result' = Cardinality(Searched \ Used)
    BY <1>1, <1>5 DEF CountFree
  <2>2. /\ Cardinality(Searched \ Used) = Cardinality(Searched) - Cardinality(Searched \cap Used)
        /\ Cardinality(DataCluster \ Used)
             = Cardinality(DataCluster) - Cardinality(DataCluster \cap Used)
    BY AllSearched, FS_Difference
  <2>3. Searched \cap Used = Used /\ DataCluster \cap Used = Used
    BY <1>3, AllSearched
  <2>4. /\ Cardinality(Searched) = get_total_clusters - 2
        /\ Cardinality(DataCluster) \in Nat /\ Cardinality(Used) \in Nat
        /\ get_total_clusters \in Nat
    <3>1. IsFiniteSet(Used)
      BY <1>3, AllSearched, FS_Subset
    <3> QED
      BY <1>3, <3>1, AllSearched, FS_CardinalityType, DiskAssumption DEF get_total_clusters
  <2>5. result' = Cardinality(DataCluster \ Used)
                    + (get_total_clusters - 2 - Cardinality(DataCluster))
    <3> DEFINE a == Cardinality(Searched)
               b == Cardinality(DataCluster)
               e == Cardinality(Used)
               f == Cardinality(DataCluster \ Used)
    <3>1. result' = a - e /\ f = b - e
      BY <2>1, <2>2, <2>3
    <3>2. a = get_total_clusters - 2 /\ b \in Nat /\ e \in Nat /\ get_total_clusters \in Nat
      BY <2>4
    <3> HIDE DEF a, b, e, f
    <3>3. result' = f + (get_total_clusters - 2 - b)
      BY <3>1, <3>2
    <3> QED
      BY <3>3 DEF f, b
  <2> QED
    BY <1>2, <2>1, <2>5 DEF FreeRight, Returned, Used
<1> QED
  BY <1>4, <1>5

-----------------------------------------------------------------------------
\* strncmp() returns 0 exactly for strings that agree in their first characters,
\* if one of them has no NUL there.
LEMMA Compared ==
  ASSUME NEW len \in Nat \ {0}, NEW s1 \in [1 .. len -> Int], NEW s2 \in [1 .. len -> Int \ {NUL}]
  PROVE  strncmp(s1, s2, len) = 0 <=> \A j \in 1 .. len : s1[j] = s2[j]
<1> DEFINE Stops(j) == s1[j] = NUL \/ s2[j] = NUL \/ j >= len \/ s1[j] # s2[j]
           T == {j \in DOMAIN s1 : Stops(j)}
           x == CHOOSE j \in DOMAIN s1 : Stops(j) /\ \A h \in 1 .. j - 1 : ~Stops(h)
<1>1. DOMAIN s1 = 1 .. len /\ T \subseteq Nat /\ len \in T
  OBVIOUS
<1>2. PICK f \in T : \A j \in T : f <= j
  <2> HIDE DEF T
  <2> QED
    BY <1>1, Least
<1>3. f \in DOMAIN s1 /\ Stops(f) /\ \A h \in 1 .. f - 1 : ~Stops(h)
  <2>1. ASSUME NEW h \in 1 .. f - 1 PROVE ~Stops(h)
    <3>1. h \in 1 .. len /\ h < f /\ ~(f <= h)
      BY <1>1, <1>2
    <3>2. h \notin T
      BY <1>2, <3>1
    <3> QED
      BY <1>1, <3>1, <3>2
  <2> QED
    BY <1>2, <2>1
<1> HIDE DEF T
<1>4. x \in DOMAIN s1 /\ Stops(x) /\ \A h \in 1 .. x - 1 : ~Stops(h)
  <2> HIDE DEF Stops
  <2> QED
    BY <1>3
<1>5. strncmp(s1, s2, len) = s1[x] - s2[x]
  BY DEF strncmp
<1> HIDE DEF x
<1>6. x \in 1 .. len /\ s1[x] \in Int /\ s2[x] \in Int /\ s2[x] # NUL
  BY <1>1, <1>4
<1>7. strncmp(s1, s2, len) = 0 <=> s1[x] = s2[x]
  BY <1>5, <1>6
<1>8. ASSUME s1[x] = s2[x] PROVE \A j \in 1 .. len : s1[j] = s2[j]
  <2>1. x = len
    BY <1>4, <1>6, <1>8
  <2>2. ASSUME NEW j \in 1 .. len PROVE s1[j] = s2[j]
    <3>1. j = x \/ j \in 1 .. x - 1
      BY <2>1, <2>2
    <3> QED
      BY <1>4, <1>8, <3>1
  <2> QED
    BY <2>2
<1> QED
  BY <1>6, <1>7, <1>8

\* What set_filename() makes of a name, against what the name means.
LEMMA Copied ==
  ASSUME NEW src \in Seq(Char), CString(src), NEW len \in Nat
  PROVE  /\ copy_filename(src, len) \in [1 .. len -> 32 .. 126]
         /\ \A k \in 1 .. len : \A a \in Char \ (97 .. 122) :
              a = copy_filename(src, len)[k] <=> SameChar(a, Chars(src, len)[k])
<1> DEFINE Cut(k) == \E j \in 1 .. k : src[j] \in {SP, NUL}
           Stop(k) == \E j \in 1 .. k : src[j] = NUL
           w == [k \in 1 .. len |-> IF Cut(k) THEN SP ELSE src[k]]
           v == copy_filename(src, len)
<1>1. PICK e \in DOMAIN src : src[e] = NUL /\ \A j \in 1 .. e - 1 : src[j] \in 33 .. 126
  BY DEF CString
<1>2. e \in Nat \ {0}
  BY <1>1
<1>3. ASSUME NEW k \in 1 .. len
      PROVE  /\ Cut(k) <=> Stop(k)
             /\ ~Stop(k) => src[k] \in 33 .. 126
  <2>1. k \in Nat /\ 1 <= k
    OBVIOUS
  <2>2. e <= k => Stop(k) /\ Cut(k)
    <3>1. ASSUME e <= k PROVE e \in 1 .. k
      BY <1>2, <2>1, <3>1
    <3> QED
      BY <1>1, <3>1
  <2>3. ASSUME ~(e <= k), NEW j \in 1 .. k PROVE src[j] \in 33 .. 126
    <3>1. j \in 1 .. e - 1
      BY <1>2, <2>1, <2>3
    <3> QED
      BY <1>1, <3>1
  <2>4. ~(e <= k) => ~Stop(k) /\ ~Cut(k) /\ src[k] \in 33 .. 126
    <3>1. k \in 1 .. k
      BY <2>1
    <3>2. SP \notin 33 .. 126 /\ NUL \notin 33 .. 126
      BY DEF SP, NUL
    <3> QED
      BY <2>3, <3>1, <3>2
  <2> HIDE DEF Cut, Stop
  <2> QED
    BY <2>2, <2>4
<1>4. v = [k \in 1 .. len |-> IF w[k] \in 97 .. 122 THEN w[k] - 32 ELSE w[k]]
  BY DEF copy_filename, upcase
<1>5. \A k \in 1 .. len : Chars(src, len)[k] = IF Stop(k) THEN SP ELSE src[k]
  BY DEF Chars
<1>6. \A k \in 1 .. len : w[k] = IF Stop(k) THEN SP ELSE src[k]
  BY <1>3
<1> HIDE DEF Cut, Stop, w, v
<1>7. \A k \in 1 .. len : w[k] \in 32 .. 126 /\ w[k] = Chars(src, len)[k]
  <2> SUFFICES ASSUME NEW k \in 1 .. len PROVE w[k] \in 32 .. 126 /\ w[k] = Chars(src, len)[k]
    OBVIOUS
  <2>1. w[k] = Chars(src, len)[k]
    BY <1>5, <1>6
  <2>2. CASE Stop(k)
    BY <1>6, <2>1, <2>2 DEF SP
  <2>3. CASE ~Stop(k)
    <3>1. src[k] \in 33 .. 126
      BY <1>3, <2>3, Zenon
    <3>2. w[k] = src[k]
      BY <1>6, <2>3
    <3>3. src[k] \in 32 .. 126
      BY <3>1
    <3> QED
      BY <2>1, <3>2, <3>3
  <2> QED
    BY <2>2, <2>3
<1>8. v \in [1 .. len -> 32 .. 126]
  BY <1>4, <1>7
<1>9. ASSUME NEW k \in 1 .. len, NEW a \in Char \ (97 .. 122)
      PROVE  a = v[k] <=> SameChar(a, Chars(src, len)[k])
  <2>1. v[k] = IF w[k] \in 97 .. 122 THEN w[k] - 32 ELSE w[k]
    BY <1>4
  <2>2. a \in Int /\ ~(a \in 97 .. 122)
    BY DEF Char
  <2> PICK b \in 32 .. 126 : b = w[k]
    BY <1>7
  <2>3. Chars(src, len)[k] = b
    BY <1>7
  <2>4. v[k] = IF b \in 97 .. 122 THEN b - 32 ELSE b
    BY <2>1
  <2>5. a = v[k] <=> a = b \/ (b \in 97 .. 122 /\ a = b - 32)
    <3>1. CASE b \in 97 .. 122
      <4>1. a # b /\ v[k] = b - 32
        BY <2>2, <2>4, <3>1
      <4> QED
        BY <3>1, <4>1
    <3>2. CASE ~(b \in 97 .. 122)
      <4>1. v[k] = b
        BY <2>4, <3>2
      <4> QED
        BY <3>2, <4>1
    <3> QED
      BY <3>1, <3>2
  <2> QED
    BY <2>3, <2>5 DEF SameChar
<1> QED
  BY <1>8, <1>9 DEF v

\* The comparison finds the files of a name.
Match(k, n) == ~Skipped(directory[k]) /\ compare_short_filename(directory[k], set_filename(n))

LEMMA Entry ==
  ASSUME directory \in Directory, NEW k \in 1 .. Len(directory)
  PROVE  /\ directory[k].filename \in NoLower(8) /\ directory[k].ext \in NoLower(3)
         /\ directory[k].filename[1] = NUL <=> k = Len(directory)
<1> DEFINE S == [filename : NoLower(8), ext : NoLower(3), attribute : 0 .. 255]
<1>1. /\ directory \in Seq(S)
      /\ \A j \in DOMAIN directory : directory[j].filename[1] = NUL <=> j = Len(directory)
  BY DirectoryAssumption
<1>2. k \in DOMAIN directory /\ directory[k] \in S
  <2> HIDE DEF S
  <2> QED
    BY <1>1
<1>3. directory[k].filename \in NoLower(8) /\ directory[k].ext \in NoLower(3)
  <2> PICK d : d = directory[k]
    OBVIOUS
  <2>1. d.filename \in NoLower(8) /\ d.ext \in NoLower(3)
    BY <1>2
  <2> QED
    BY <2>1
<1> QED
  BY <1>1, <1>2, <1>3

LEMMA SameText ==
  ASSUME NEW len \in Nat \ {0}, NEW s \in NoLower(len), NEW src \in Seq(Char), CString(src)
  PROVE  strncmp(s, copy_filename(src, len), len) = 0
           <=> \A j \in 1 .. len : SameChar(s[j], Chars(src, len)[j])
<1> DEFINE v == copy_filename(src, len)
<1>1. /\ v \in [1 .. len -> 32 .. 126]
      /\ \A k \in 1 .. len : \A a \in Char \ (97 .. 122) :
           a = v[k] <=> SameChar(a, Chars(src, len)[k])
  BY Copied
<1> HIDE DEF v
<1>2. s \in [1 .. len -> Int] /\ \A j \in 1 .. len : s[j] \in Char \ (97 .. 122)
  <2>1. Char \ (97 .. 122) \subseteq Int
    BY DEF Char
  <2> QED
    BY <2>1 DEF NoLower
<1>3. v \in [1 .. len -> Int \ {NUL}]
  <2>1. 32 .. 126 \subseteq Int \ {NUL}
    BY DEF NUL
  <2> QED
    BY <1>1, <2>1
<1>4. strncmp(s, v, len) = 0 <=> \A j \in 1 .. len : s[j] = v[j]
  BY <1>2, <1>3, Compared
<1> QED
  BY <1>1, <1>2, <1>4 DEF v

LEMMA Matching ==
  ASSUME directory \in Directory, NEW n \in Name, NEW k \in 1 .. Len(directory)
  PROVE  Match(k, n) <=> IsFile(k, n)
<1> DEFINE d == directory[k]
<1>1. d.filename \in NoLower(8) /\ d.ext \in NoLower(3)
  BY Entry
<1>2. n.name \in Seq(Char) /\ n.ext \in Seq(Char) /\ CString(n.name) /\ CString(n.ext)
  BY NameAssumption
<1> HIDE DEF d
<1>3. strncmp(d.filename, copy_filename(n.name, 8), 8) = 0
        <=> \A j \in 1 .. 8 : SameChar(d.filename[j], Chars(n.name, 8)[j])
  BY <1>1, <1>2, 8 \in Nat \ {0}, SameText
<1>4. strncmp(d.ext, copy_filename(n.ext, 3), 3) = 0
        <=> \A j \in 1 .. 3 : SameChar(d.ext[j], Chars(n.ext, 3)[j])
  BY <1>1, <1>2, 3 \in Nat \ {0}, SameText
<1>5. compare_short_filename(d, set_filename(n))
        <=> /\ \A j \in 1 .. 8 : SameChar(d.filename[j], Chars(n.name, 8)[j])
            /\ \A j \in 1 .. 3 : SameChar(d.ext[j], Chars(n.ext, 3)[j])
  BY <1>3, <1>4 DEF compare_short_filename, set_filename
<1>0. d.filename[1] \in Char \ (97 .. 122)
  <2>1. \A f \in NoLower(8) : f[1] \in Char \ (97 .. 122)
    BY DEF NoLower
  <2> QED
    BY <1>1, <2>1
<1>6. d.filename[1] # FILE_NAME_DELETED
  <2>1. \A a \in Char : a # FILE_NAME_DELETED
    BY DEF Char, FILE_NAME_DELETED
  <2> QED
    BY <1>0, <2>1
<1>7. ASSUME \A j \in 1 .. 8 : SameChar(d.filename[j], Chars(n.name, 8)[j])
      PROVE  d.filename[1] # -27
  <2>1. /\ copy_filename(n.name, 8) \in [1 .. 8 -> 32 .. 126]
        /\ \A j \in 1 .. 8 : \A a \in Char \ (97 .. 122) :
             a = copy_filename(n.name, 8)[j] <=> SameChar(a, Chars(n.name, 8)[j])
    BY <1>2, Copied
  <2>2. d.filename[1] = copy_filename(n.name, 8)[1]
    BY <1>0, <1>7, <2>1
  <2>3. \A f \in [1 .. 8 -> 32 .. 126] : f[1] \in 32 .. 126
    OBVIOUS
  <2>4. \A z \in 32 .. 126 : z # -27
    OBVIOUS
  <2> QED
    BY <2>1, <2>2, <2>3, <2>4
<1> QED
  BY <1>5, <1>6, <1>7 DEF Match, Skipped, IsFile, d

\* The search stops at the first file of the name or at the end.
Right(n, r) ==
  LET files == {k \in 1 .. Len(directory) - 1 : IsFile(k, n)}
  IN  IF files = {} THEN r = 0 ELSE r \in files /\ \A k \in files : r <= k

LEMMA FindRight ==
  ASSUME directory \in Directory, NEW n \in Name
  PROVE  Right(n, find_entry(set_filename(n)))
<1> DEFINE End(k)  == directory[k].filename[1] = NUL
           Halt(k) == End(k) \/ Match(k, n)
           T == {k \in DOMAIN directory : Halt(k)}
           x == CHOOSE k \in DOMAIN directory : Halt(k) /\ \A j \in 1 .. k - 1 : ~Halt(j)
           r == find_entry(set_filename(n))
<1> PICK m \in Nat \ {0} : DOMAIN directory = 1 .. m /\ Len(directory) = m
  <2>1. directory # <<>>
        /\ directory \in Seq([filename : NoLower(8), ext : NoLower(3), attribute : 0 .. 255])
    BY DirectoryAssumption
  <2>2. Len(directory) \in Nat \ {0} /\ DOMAIN directory = 1 .. Len(directory)
    BY <2>1
  <2> QED
    BY <2>2
<1>1. \A k \in 1 .. m : End(k) <=> k = m
  BY Entry
<1>2. T \subseteq Nat /\ m \in T
  BY <1>1
<1>3. PICK f \in T : \A j \in T : f <= j
  <2> HIDE DEF T
  <2> QED
    BY <1>2, Least
<1>4. f \in DOMAIN directory /\ Halt(f) /\ \A j \in 1 .. f - 1 : ~Halt(j)
  <2> HIDE DEF Halt
  <2>1. ASSUME NEW j \in 1 .. f - 1 PROVE ~Halt(j)
    <3>1. j \in 1 .. m /\ ~(f <= j)
      BY <1>3
    <3>2. j \notin T
      BY <1>3, <3>1
    <3> QED
      BY <3>1, <3>2
  <2> QED
    BY <1>3, <2>1
<1>5. x \in DOMAIN directory /\ Halt(x) /\ \A j \in 1 .. x - 1 : ~Halt(j)
  <2> HIDE DEF Halt
  <2> QED
    BY <1>4
<1>6. r = IF End(x) THEN 0 ELSE x
  BY DEF find_entry, Match
<1> HIDE DEF x, r, T
<1>7. x \in 1 .. m /\ \A k \in 1 .. m : Match(k, n) <=> IsFile(k, n)
  BY <1>5, Matching
<1>8. CASE x = m
  <2>1. r = 0
    BY <1>1, <1>6, <1>7, <1>8
  <2>2. \A k \in 1 .. m - 1 : ~IsFile(k, n)
    BY <1>5, <1>7, <1>8
  <2> QED
    BY <2>1, <2>2 DEF Right, r
<1>9. CASE x # m
  <2>1. ~End(x) /\ r = x /\ x \in 1 .. m - 1
    BY <1>1, <1>6, <1>7, <1>9
  <2>2. IsFile(x, n)
    BY <1>5, <1>7, <2>1
  <2>3. ASSUME NEW k \in 1 .. m - 1, IsFile(k, n) PROVE x <= k
    <3>1. Halt(k)
      BY <1>7, <2>3
    <3>2. ~(k \in 1 .. x - 1)
      BY <1>5, <3>1
    <3> QED
      BY <1>7, <3>2
  <2> QED
    BY <2>1, <2>2, <2>3 DEF Right, r
<1> QED
  BY <1>8, <1>9

-----------------------------------------------------------------------------
\* The searches leave what they promise, and a read says nothing about them.
SearchInv == /\ FreeInv /\ directory \in Directory
             /\ FreeRight /\ FindsFile

LEMMA InitSearch == Init => SearchInv
<1> SUFFICES ASSUME Init PROVE SearchInv
  OBVIOUS
<1>1. FreeInv
  BY InitFree
<1>2. asked.call = "none" /\ directory \in Directory
  BY DEF Init
<1> QED
  BY <1>1, <1>2 DEF SearchInv, FreeRight, FindsFile, Returned

LEMMA NextSearch ==
  ASSUME ReadInv, SearchInv, [Next]_vars
  PROVE  SearchInv'
<1>1. UNCHANGED disk
  BY DEF Next, Call, Walk, FirstPart, Sectors, Rest, FindFree, CountFree, FindEntry, Return, vars
<1>2. FreeInv' /\ (directory \in Directory)'
  <2>1. Used' = Used /\ \A c : get_fat12_entry(c)' = get_fat12_entry(c)
    BY <1>1 DEF disk, Used, get_fat12_entry
  <2> QED
    BY <1>1, <2>1 DEF SearchInv, FreeInv, disk
<1>3. CASE FindFree \/ CountFree
  <2>1. FreeRight'
    BY <1>3, FreeStep DEF SearchInv
  <2>2. asked'.call # "find_entry"
    BY <1>3 DEF FindFree, CountFree
  <2> QED
    BY <1>2, <2>1, <2>2 DEF SearchInv, FindsFile, Returned
<1>4. ASSUME NEW n \in Name, FindEntry(n) PROVE SearchInv'
  <2>1. result' = find_entry(set_filename(n)) /\ asked'.call = "find_entry" /\ asked'.name = n
    BY <1>4 DEF FindEntry
  <2>2. Right(n, find_entry(set_filename(n)))
    BY FindRight DEF SearchInv
  <2>3. directory' = directory /\ \A k : IsFile(k, n)' <=> IsFile(k, n)
    BY <1>1 DEF disk, IsFile
  <2>4. FindsFile'
    BY <2>1, <2>2, <2>3 DEF FindsFile, Right, Returned
  <2>5. FreeRight'
    BY <2>1 DEF FreeRight, Returned
  <2> QED
    BY <1>2, <2>4, <2>5 DEF SearchInv
<1>5. CASE (\E f \in From, s \in Size : Call(f, s)) \/ Walk \/ FirstPart \/ Sectors \/ Rest
  <2>1. asked'.call = "read_file"
    <3>1. CASE \E f \in From, s \in Size : Call(f, s)
      BY <3>1 DEF Call
    <3>2. CASE Walk \/ FirstPart \/ Sectors \/ Rest
      <4>1. asked' = asked /\ pc # "idle"
        BY <3>2 DEF Walk, FirstPart, Sectors, Rest, Return
      <4> QED
        BY <4>1 DEF ReadInv, LocalsInv
    <3> QED
      BY <1>5, <3>1, <3>2
  <2> QED
    BY <1>2, <2>1 DEF SearchInv, FreeRight, FindsFile, Returned
<1>6. CASE UNCHANGED vars
  <2>1. UNCHANGED <<disk, pc, asked, result>>
    BY <1>6 DEF vars, locals
  <2>2. FreeRight'
    BY <2>1 DEF SearchInv, FreeRight, Returned, disk
  <2>3. FindsFile'
    BY <2>1 DEF SearchInv, FindsFile, IsFile, Returned, disk
  <2> QED
    BY <1>2, <2>2, <2>3 DEF SearchInv
<1> QED
  BY <1>3, <1>4, <1>5, <1>6 DEF Next

(***************************************************************************)
(* find_free_cluster finds a cluster of the data area that nobody uses, if *)
(* there is one, and count_free_clusters counts them, and besides them the *)
(* numbers behind the data area, for every geometry and every file.        *)
(***************************************************************************)
THEOREM FreeFinds == Spec => []FreeRight
<1>1. SearchInv => FreeRight
  BY DEF SearchInv
<1> QED
  BY <1>1, InitInv, NextInv, InitSearch, NextSearch, PTL DEF Spec

(***************************************************************************)
(* find_entry finds the first file of the name asked for, in upper or in   *)
(* lower case, and nothing else, in every directory.                       *)
(***************************************************************************)
THEOREM FileFound == Spec => []FindsFile
<1>1. SearchInv => FindsFile
  BY DEF SearchInv
<1> QED
  BY <1>1, InitInv, NextInv, InitSearch, NextSearch, PTL DEF Spec
=============================================================================
