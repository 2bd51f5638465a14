------------------------------- MODULE Fat12 -------------------------------
(***************************************************************************)
(* The FAT12 reader, kernel/fat12.c: where the parts of a disk image lie,   *)
(* the table's 12 bit entries, the search of a directory, read_file and the *)
(* search of a free cluster.  The kernel itself calls get_rde only          *)
(* (task_fdc); the rest is there for its file system.                       *)
(*                                                                         *)
(* The disk is external: a table as a formatter packs it, one file whose    *)
(* clusters may lie anywhere in any order, and a directory.  The bytes of   *)
(* the data area have no values: buf holds the addresses they were copied   *)
(* from, so the result of a read shows which byte of the disk went where.   *)
(*                                                                         *)
(* FAT12_EOC is 0x0FFFFFF8, and no 12 bit entry is as large.  So nothing    *)
(* stops at the end of a chain: the end mark is taken for the number of a   *)
(* cluster, and its entry, behind the table, is whatever lies there.        *)
(***************************************************************************)
EXTENDS Library, FiniteSets

CONSTANTS
  bytes_per_sector, reserved_sectors, number_of_fats, sectors_per_fat,
  root_entries, total_sectors,   \* of the BPB; sectors_per_cluster is 1
  Ends,                          \* end marks a formatter writes
  Beyond,                        \* entries found behind the table
  From, Size,                    \* arguments of read_file
  Name, Directory,               \* names asked for, directories searched
  Wrap                           \* size and read_size are uint32_t: 2^32

Entry12 == 0 .. 4095

ASSUME DiskAssumption ==
  /\ {bytes_per_sector, sectors_per_fat} \subseteq Nat \ {0}
  /\ {reserved_sectors, number_of_fats, root_entries, total_sectors} \subseteq Nat
  /\ Ends \subseteq 4088 .. 4095 /\ Beyond \subseteq Entry12
ASSUME CallAssumption == Wrap \in Nat \ {0} /\ From \cup Size \subseteq 0 .. Wrap - 1

FAT12_AVAILABLE == 0
FAT12_BAD       == 4087
FAT12_EOC       == \h0FFFFFF8

-----------------------------------------------------------------------------
\* Where the parts lie, relative to the BPB.
SizeofDE  == 32
get_fat12 == reserved_sectors * bytes_per_sector
get_rde   == (reserved_sectors + number_of_fats * sectors_per_fat) * bytes_per_sector
get_first_data_sector ==
  (reserved_sectors + number_of_fats * sectors_per_fat
     + (root_entries * SizeofDE) \div bytes_per_sector) * bytes_per_sector
get_total_clusters == total_sectors

\* The disk a formatter makes: two entries in three bytes; the clusters that
\* exist; the address of a cluster, which is the first one behind the root
\* directory for cluster 2.
FatBytes    == sectors_per_fat * bytes_per_sector
EntryNumber == 0 .. 2 * (FatBytes \div 3) + 1
Packed(e)   == [b \in 0 .. FatBytes - 1 |->
  LET n == 2 * (b \div 3) IN
  CASE b % 3 = 0 -> e[n] % 256
    [] b % 3 = 1 -> (e[n] \div 256) + 16 * (e[n + 1] % 16)
    [] b % 3 = 2 -> e[n + 1] \div 16]
DataStart   == get_rde + root_entries * SizeofDE
DataCluster == 2 .. 1 + total_sectors - (DataStart \div bytes_per_sector)

\* The root directory fills its sectors, and the table has an entry for each
\* cluster.  Twelve bits number less than 4096 clusters, so no offset into the
\* table wraps.
ASSUME RootAssumption == (root_entries * SizeofDE) % bytes_per_sector = 0
ASSUME TableAssumption == FatBytes <= 65536
ASSUME ClusterAssumption ==
  \A c \in DataCluster : c \in Entry12 /\ ((c \div 2) * 3) + 2 < FatBytes

VARIABLES
  fat,                    \* the bytes of the first table
  chain, bad,             \* external: the file's clusters in order, bad ones
  directory,              \* the entries of a directory
  pc, from, size,         \* read_file(): where it is, its arguments
  cluster, i, read_size,  \* its locals
  buf,                    \* the addresses of the bytes it copied
  asked, result           \* history: the last call, and what it returned

disk   == <<fat, chain, bad, directory>>
locals == <<pc, from, size, cluster, i, read_size>>
vars   == <<disk, locals, buf, asked, result>>

\* get_fat12_entry(n): the three bytes of the pair, then twelve bits of them.
get_fat12_entry_swapped(n) ==                                      \* mutant
  LET p == ((n \div 2) * 3) % 65536 IN
  IF n % 2 = 0 THEN fat[p] + 256 * (fat[p + 1] \div 16)
               ELSE (fat[p + 1] % 16) + 16 * fat[p + 2]
get_fat12_entry(n) ==
  LET p == ((n \div 2) * 3) % 65536 IN
  IF n % 2 = 0 THEN fat[p] + 256 * (fat[p + 1] % 16)
               ELSE (fat[p + 1] \div 16) + 16 * fat[p + 2]

InTable(n) == (((n \div 2) * 3) % 65536) + 2 < FatBytes
EntryOf(n) == IF InTable(n) THEN {get_fat12_entry(n)} ELSE Beyond

\* The entries that a formatter writes, with this mark at the end of the file.
Table(end) ==
  LET After(a) == IF a = Len(chain) THEN end ELSE chain[a + 1] IN
  [n \in EntryNumber |->
     IF \E a \in DOMAIN chain : chain[a] = n
     THEN After(CHOOSE a \in DOMAIN chain : chain[a] = n)
     ELSE IF n \in bad THEN FAT12_BAD
     ELSE IF n < 2 THEN 4095 ELSE FAT12_AVAILABLE]

Init ==
  /\ chain \in UNION {[1 .. n -> DataCluster] : n \in 1 .. Cardinality(DataCluster)}
  /\ \A a, b \in DOMAIN chain : chain[a] = chain[b] => a = b
  /\ bad \in SUBSET {c \in DataCluster : \A a \in DOMAIN chain : chain[a] # c}
  /\ \E end \in Ends : fat = Packed(Table(end))
  /\ directory \in Directory
  /\ pc = "idle" /\ from = 0 /\ size = 0 /\ cluster = 0 /\ i = 0 /\ read_size = 0
  /\ buf = <<>> /\ asked = [call |-> "none"] /\ result = 0

-----------------------------------------------------------------------------
\* The file's directory entry.  A FAT12 formatter leaves the high word 0, so no
\* bit of it meets one of the low word in the or.
FileEntry == [first_cluster_high |-> 0, first_cluster_low |-> chain[1]]
get_cluster_number(e) == 256 * e.first_cluster_high + e.first_cluster_low

\* read_file(entry, buf, from, size)
Call(f, s) ==
  /\ pc = "idle"
  /\ pc' = "walk" /\ from' = f /\ size' = s
  /\ cluster' = get_cluster_number(FileEntry) /\ i' = 0 /\ read_size' = 0 /\ buf' = <<>>
  /\ asked' = [call |-> "read_file", from |-> f, size |-> s]
  /\ UNCHANGED <<disk, result>>

Return(v) ==
  /\ result' = v
  /\ pc' = "idle" /\ from' = 0 /\ size' = 0 /\ cluster' = 0 /\ i' = 0 /\ read_size' = 0
  /\ UNCHANGED <<disk, asked>>

\* read_sector(c, ..., n)
read_sector(c, n) ==
  [b \in 1 .. n |-> get_first_data_sector + (c - 2) * bytes_per_sector + b - 1]

AtEnd(e) == e >= FAT12_EOC

\* The loop that follows the chain to the cluster `from' lies in.
Walk ==
  /\ pc = "walk" /\ i < from \div bytes_per_sector
  /\ \E e \in EntryOf(cluster) :
       IF AtEnd(e) /\ i * bytes_per_sector < from
       THEN Return(0) /\ UNCHANGED buf
       ELSE /\ cluster' = e
            /\ IF AtEnd(e) THEN pc' = "head" /\ UNCHANGED i
                           ELSE i' = i + 1 /\ UNCHANGED pc
            /\ UNCHANGED <<disk, from, size, read_size, buf, asked, result>>

\* `from' is not the start of a sector: as many bytes as it is behind it.
SizeKept(n) == size                                                \* mutant
SizeLeft(n) == (size - n) % Wrap

FirstPart ==
  /\ pc = "head" \/ (pc = "walk" /\ i >= from \div bytes_per_sector)
  /\ LET n == from % bytes_per_sector
     IN  /\ buf' = buf \o read_sector(cluster, n)
         /\ read_size' = n
         /\ size' = IF n = 0 THEN size ELSE SizeLeft(n)
  /\ pc' = "sectors" /\ i' = 0
  /\ UNCHANGED <<disk, from, cluster, asked, result>>

\* The loop over whole sectors.
Sectors ==
  /\ pc = "sectors" /\ i < size \div bytes_per_sector
  /\ buf' = buf \o read_sector(cluster, bytes_per_sector)
  /\ \E e \in EntryOf(cluster) :
       IF AtEnd(e)
       THEN Return((read_size + bytes_per_sector) % Wrap)
       ELSE /\ cluster' = e /\ i' = i + 1
            /\ read_size' = (read_size + bytes_per_sector) % Wrap
            /\ UNCHANGED <<disk, pc, from, size, asked, result>>

\* The rest of the last sector.
Rest ==
  /\ pc = "sectors" /\ i >= size \div bytes_per_sector
  /\ buf' = buf \o read_sector(cluster, size % bytes_per_sector)
  /\ Return((read_size + (size % bytes_per_sector)) % Wrap)

-----------------------------------------------------------------------------
\* find_free_cluster() and count_free_clusters() look at the entries from 2 up
\* to the number of sectors of the whole disk.
SearchedFrom3 == 3 .. get_total_clusters - 1                       \* mutant
Searched == 2 .. get_total_clusters - 1
FreeFound == {c \in Searched : get_fat12_entry(c) = FAT12_AVAILABLE}

FindFree ==
  /\ pc = "idle"
  /\ result' = IF FreeFound = {} THEN 0
               ELSE CHOOSE c \in FreeFound : \A d \in FreeFound : c <= d
  /\ asked' = [call |-> "find_free_cluster"] /\ buf' = <<>>
  /\ UNCHANGED <<disk, locals>>

CountFree ==
  /\ pc = "idle"
  /\ result' = Cardinality(FreeFound)
  /\ asked' = [call |-> "count_free_clusters"] /\ buf' = <<>>
  /\ UNCHANGED <<disk, locals>>

\* The table has an entry for each number searched, although the data area is
\* shorter by the boot sector and the tables in front of it.
ASSUME SearchAssumption ==
  /\ reserved_sectors > 0 /\ number_of_fats > 0
  /\ \A c \in Searched : ((c \div 2) * 3) + 2 < FatBytes

-----------------------------------------------------------------------------
\* Names: eight characters and three, padded with spaces, in upper case.
upcase(s) == [k \in DOMAIN s |-> IF s[k] \in 97 .. 122 THEN s[k] - 32 ELSE s[k]]
copy_filename(src, len) ==
  upcase([k \in 1 .. len |-> IF \E j \in 1 .. k : src[j] \in {SP, NUL} THEN SP ELSE src[k]])
set_filename(n) == [name |-> copy_filename(n.name, 8), ext |-> copy_filename(n.ext, 3)]

compare_short_filename(e, n) ==
  strncmp(e.filename, n.name, 8) = 0 /\ strncmp(e.ext, n.ext, 3) = 0

\* 0xE5 in a char is -27: the comparison with 229 never holds.
FILE_NAME_DELETED == 229
Skipped(e) == e.filename[1] = FILE_NAME_DELETED \/ e.attribute = 15

\* The number of the first entry that matches, 0 at the end of the table.
find_entry(n) ==
  LET Last(k)    == directory[k].filename[1] = NUL
      Matches(k) == ~Skipped(directory[k]) /\ compare_short_filename(directory[k], n)
      stop == CHOOSE k \in DOMAIN directory :
                (Last(k) \/ Matches(k)) /\ \A j \in 1 .. k - 1 : ~(Last(j) \/ Matches(j))
  IN  IF Last(stop) THEN 0 ELSE stop

\* A char is signed.  Names in a directory are in upper case and its last entry
\* begins with NUL; a caller passes printable characters that end with NUL.
Char         == -128 .. 127
NoLower(len) == [1 .. len -> Char \ (97 .. 122)]
CString(s)   == \E e \in DOMAIN s : s[e] = NUL /\ \A j \in 1 .. e - 1 : s[j] \in 33 .. 126
ASSUME DirectoryAssumption ==
  \A d \in Directory :
    /\ d \in Seq([filename : NoLower(8), ext : NoLower(3), attribute : 0 .. 255])
    /\ d # <<>> /\ \A k \in DOMAIN d : d[k].filename[1] = NUL <=> k = Len(d)
ASSUME NameAssumption ==
  \A n \in Name : {n.name, n.ext} \subseteq Seq(Char) /\ CString(n.name) /\ CString(n.ext)

FindEntry(n) ==
  /\ pc = "idle"
  /\ result' = find_entry(set_filename(n))
  /\ asked' = [call |-> "find_entry", name |-> n] /\ buf' = <<>>
  /\ UNCHANGED <<disk, locals>>

Next ==
  \/ \E f \in From, s \in Size : Call(f, s)
  \/ Walk \/ FirstPart \/ Sectors \/ Rest
  \/ FindFree \/ CountFree
  \/ \E n \in Name : FindEntry(n)

Spec == Init /\ [][Next]_vars

-----------------------------------------------------------------------------
Returned(f) == pc = "idle" /\ asked.call = f

(***************************************************************************)
(* A read from the start of a sector that stays inside the file's clusters *)
(* copies exactly the file's bytes, in order, wherever its clusters lie    *)
(* (read_file, get_fat12_entry, read_sector, get_first_data_sector).       *)
(***************************************************************************)
FileByte(k) == DataStart + (chain[k \div bytes_per_sector + 1] - 2) * bytes_per_sector
                 + (k % bytes_per_sector)

ReadsFile ==
  Returned("read_file") /\ asked.from % bytes_per_sector = 0
    /\ asked.from + asked.size <= Len(chain) * bytes_per_sector =>
    /\ result = asked.size
    /\ buf = [b \in 1 .. asked.size |-> FileByte(asked.from + b - 1)]

(***************************************************************************)
(* read_file never writes behind what the caller asked for, and counts     *)
(* what it wrote, wherever the walk through the table leads it, unless the *)
(* bytes of the first, partial sector alone are more than was asked for.   *)
(***************************************************************************)
WritesWithin ==
  asked.call = "read_file" /\ asked.from % bytes_per_sector <= asked.size =>
    /\ Len(buf) <= asked.size
    /\ pc = "idle" => result = Len(buf)

(***************************************************************************)
(* find_free_cluster returns a cluster nobody uses and, while the data     *)
(* area has one, one of the data area; count_free_clusters counts those    *)
(* and the entries behind the data area, which belong to no cluster.       *)
(***************************************************************************)
FreeRight ==
  LET used == {chain[a] : a \in DOMAIN chain} \cup bad
  IN  /\ Returned("find_free_cluster") =>
           /\ result \notin used
           /\ used # DataCluster => result \in DataCluster
      /\ Returned("count_free_clusters") =>
           result = Cardinality(DataCluster \ used) + (get_total_clusters - 2 - Cardinality(DataCluster))

(***************************************************************************)
(* find_entry finds the first file of the name asked for, in upper or in   *)
(* lower case, and neither deleted nor long name entries nor others whose  *)
(* names begin alike (set_filename, compare_short_filename, strncmp).      *)
(***************************************************************************)
Chars(s, len)  == [k \in 1 .. len |-> IF \E j \in 1 .. k : s[j] = NUL THEN SP ELSE s[k]]
SameChar(a, b) == a = b \/ (b \in 97 .. 122 /\ a = b - 32)
IsFile(k, n) ==
  /\ directory[k].attribute # 15 /\ directory[k].filename[1] # -27
  /\ \A j \in 1 .. 8 : SameChar(directory[k].filename[j], Chars(n.name, 8)[j])
  /\ \A j \in 1 .. 3 : SameChar(directory[k].ext[j], Chars(n.ext, 3)[j])

FindsFile ==
  Returned("find_entry") =>
    LET files == {k \in 1 .. Len(directory) - 1 : IsFile(k, asked.name)}
    IN  IF files = {} THEN result = 0
        ELSE result \in files /\ \A k \in files : result <= k

-----------------------------------------------------------------------------
(***************************************************************************)
(* The inductive invariant behind WritesWithin and ReadsFile.  The table   *)
(* names the file's next cluster for each but the last.  `cluster' is the  *)
(* file's as long as the read is inside the file, and `buf' holds the      *)
(* first part and the sectors that the loop has been through.              *)
(***************************************************************************)
DiskInv ==
  /\ fat \in [0 .. FatBytes - 1 -> 0 .. 255]
  /\ chain \in Seq(DataCluster) /\ Len(chain) > 0
  /\ \A a \in 1 .. Len(chain) - 1 : get_fat12_entry(chain[a]) = chain[a + 1]

LocalsInv ==
  /\ pc \in {"idle", "walk", "sectors"}
  /\ from \in Nat /\ size \in Nat /\ cluster \in Nat /\ i \in Nat /\ read_size \in Nat
  /\ buf \in Seq(Int)
  /\ asked.call = "read_file" => asked.from \in 0 .. Wrap - 1 /\ asked.size \in 0 .. Wrap - 1
  /\ pc # "idle" => asked.call = "read_file" /\ from = asked.from

WalkInv ==
  pc = "walk" =>
    /\ size = asked.size /\ buf = <<>>
    /\ i <= from \div bytes_per_sector
    /\ i < Len(chain) => cluster = chain[i + 1]

Enough == from % bytes_per_sector <= asked.size
Inside == from % bytes_per_sector = 0 /\ from + asked.size <= Len(chain) * bytes_per_sector

SectorsInv ==
  pc = "sectors" =>
    /\ Enough => /\ size = asked.size - (from % bytes_per_sector)
                 /\ i <= size \div bytes_per_sector
                 /\ read_size = (from % bytes_per_sector) + i * bytes_per_sector
                 /\ Len(buf) = read_size
    /\ Inside => /\ (from \div bytes_per_sector) + i < Len(chain) =>
                      cluster = chain[(from \div bytes_per_sector) + i + 1]
                 /\ \A k \in 1 .. Len(buf) : buf[k] = FileByte(from + k - 1)

ReadInv == DiskInv /\ LocalsInv /\ WalkInv /\ SectorsInv
             /\ (pc = "idle" => WritesWithin /\ ReadsFile)
=============================================================================
