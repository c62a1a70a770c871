--------------------------- MODULE ManifestProofs ---------------------------
(***************************************************************************)
(* The manifest for any number of tables, crashes, power failures and I/O  *)
(* errors, where the system writes no data back before it is synced.       *)
(*                                                                         *)
(* A view is what a directory and the contents of its files make together: *)
(* a function from names to contents.  There is the view that a restarted  *)
(* process has, Now, and one for each directory that a power failure may   *)
(* go back to, with of each file only what was synced.  The proof has two  *)
(* layers: what an operation of the file system does to the views, and     *)
(* what the database has put into them.                                    *)
(***************************************************************************)
EXTENDS Manifest, SequenceTheorems, TLAPS

Item == [number : Nat, stamp : Nat]
Record == [add : SUBSET Item, del : SUBSET Item, next : Nat]
Content == Seq(Record \cup Nat)
File == [data : Content, synced : Nat]
Name == {"CURRENT", "MANIFEST", "ldb", "dbtmp"} \X Nat
Directory == UNION {[N -> Nat] : N \in SUBSET Name}

\* What is left of a file after a power failure.
Kept(f) == SubSeq(f.data, 1, f.synced)

\* The views: now, of the present directory after a power failure, and of all
\* directories after one.
Now == [x \in DOMAIN dir |-> inode[dir[x]].data]
Durable == [x \in DOMAIN dir |-> Kept(inode[dir[x]])]
DurableAt(i) == [x \in DOMAIN dirs[i] |-> Kept(inode[dirs[i][x]])]
Durables == {DurableAt(i) : i \in 1 .. Len(dirs)}

\* A temporary file becomes CURRENT; else an inode has one name in all directories.
Alike(x, y) ==
    \/ x = y
    \/ x = CURRENT /\ y[1] = "dbtmp"
    \/ y = CURRENT /\ x[1] = "dbtmp"

Files ==
    /\ inode \in Seq(File)
    /\ \A i \in 1 .. Len(inode) : inode[i].synced <= Len(inode[i].data)
    /\ dirs \in Seq(Directory) /\ dirs # << >>
    /\ \A i \in 1 .. Len(dirs) : \A x \in DOMAIN dirs[i] : dirs[i][x] \in 1 .. Len(inode)

OneName ==
    \A i, j \in 1 .. Len(dirs) : \A x \in DOMAIN dirs[i], y \in DOMAIN dirs[j] :
        dirs[i][x] = dirs[j][y] => Alike(x, y)

\* CURRENT stays, and what it names is under no other name from then on.
CurrentStays ==
    \A i, j \in 1 .. Len(dirs) : i <= j /\ CURRENT \in DOMAIN dirs[i] =>
        /\ CURRENT \in DOMAIN dirs[j]
        /\ \A y \in DOMAIN dirs[j] : y # CURRENT => dirs[j][y] # dirs[i][CURRENT]

FilesOK == Files /\ OneName /\ CurrentStays

\* The view W is V but for the name x.
But(x, V, W) ==
    /\ \A y : y # x => (y \in DOMAIN W <=> y \in DOMAIN V)
    /\ \A y \in DOMAIN V : y # x => W[y] = V[y]
Holds(V, x, c) == x \in DOMAIN V /\ V[x] = c

-----------------------------------------------------------------------------
(***************************************************************************)
(* Files                                                                   *)
(***************************************************************************)
LEMMA KeptType ==
    ASSUME NEW f \in File, f.synced <= Len(f.data)
    PROVE  Kept(f) \in Content /\ Len(Kept(f)) = f.synced
<1>1. f.data \in Content /\ f.synced \in Nat
  BY DEF File
<1>2. \A i \in 1 .. f.synced : f.data[i] \in Record \cup Nat
  BY <1>1, ElementOfSeq DEF Content
<1> QED
  BY <1>1, <1>2, SubSeqProperties DEF Kept, Content

LEMMA KeptOfAll ==
    ASSUME NEW f \in File, f.synced = Len(f.data)
    PROVE  Kept(f) = f.data
<1>1. f.data \in Content
  BY DEF File
<1> QED
  BY <1>1, SubSeqFull DEF Kept, Content

LEMMA KeptOfNew ==
    ASSUME NEW f, f.synced = 0
    PROVE  Kept(f) = << >>
BY SubSeqEmpty DEF Kept

LEMMA KeptIsPrefix ==
    ASSUME NEW f \in File, NEW g \in File, f.synced = g.synced,
           f.synced <= Len(f.data), g.synced <= Len(g.data),
           \A i \in 1 .. f.synced : f.data[i] = g.data[i]
    PROVE  Kept(f) = Kept(g)
<1>1. f.data \in Content /\ g.data \in Content /\ f.synced \in Nat
  BY DEF File
<1>2. \A i \in 1 .. f.synced : f.data[i] \in Record \cup Nat /\ g.data[i] \in Record \cup Nat
  BY <1>1, ElementOfSeq DEF Content
<1>3. \A i \in 1 .. f.synced : SubSeq(f.data, 1, f.synced)[i] = f.data[i]
                               /\ SubSeq(g.data, 1, f.synced)[i] = g.data[i]
  BY <1>1, <1>2, SubSeqProperties
<1>4. Kept(f) \in Content /\ Kept(g) \in Content /\ Len(Kept(f)) = f.synced
      /\ Len(Kept(g)) = f.synced
  BY KeptType
<1>5. Kept(f) = SubSeq(f.data, 1, f.synced) /\ Kept(g) = SubSeq(g.data, 1, f.synced)
  BY DEF Kept
<1>6. \A i \in 1 .. f.synced : Kept(f)[i] = Kept(g)[i]
  BY <1>3, <1>5
<1>7. Len(Kept(f)) = Len(Kept(g)) /\ \A i \in 1 .. Len(Kept(f)) : Kept(f)[i] = Kept(g)[i]
  BY <1>4, <1>6
<1> QED
  BY <1>4, <1>7, SeqEqual DEF Content

\* A record that is appended is not kept before it is synced.
LEMMA KeptOfMore ==
    ASSUME NEW f \in File, f.synced <= Len(f.data), NEW r \in Record
    PROVE  /\ [f EXCEPT !.data = Append(f.data, r)] \in File
           /\ f.synced <= Len(Append(f.data, r))
           /\ Kept([f EXCEPT !.data = Append(f.data, r)]) = Kept(f)
<1>1. f.data \in Content /\ f.synced \in Nat
  BY DEF File
<1>2. /\ Append(f.data, r) \in Content /\ Len(Append(f.data, r)) = Len(f.data) + 1
      /\ \A i \in 1 .. Len(f.data) : Append(f.data, r)[i] = f.data[i]
      /\ Len(f.data) \in Nat
  BY <1>1, AppendProperties, LenProperties DEF Content
<1> DEFINE g == [f EXCEPT !.data = Append(f.data, r)]
<1>3. g \in File /\ g.data = Append(f.data, r) /\ g.synced = f.synced
  BY <1>1, <1>2 DEF File
<1>4. f.synced <= Len(g.data) /\ \A i \in 1 .. g.synced : g.data[i] = f.data[i]
  BY <1>1, <1>2, <1>3
<1>5. Kept(g) = Kept(f)
  <2> HIDE DEF g
  <2> QED
    BY <1>3, <1>4, KeptIsPrefix
<1> QED
  BY <1>3, <1>4, <1>5

\* After a power failure the rest of a file is synced.
LEMMA KeptIsKept ==
    ASSUME NEW f \in File, f.synced <= Len(f.data)
    PROVE  /\ Lost(f) \in File /\ Lost(f).data = Kept(f) /\ Kept(Lost(f)) = Kept(f)
           /\ Lost(f).synced <= Len(Lost(f).data)
<1>1. Kept(f) \in Content /\ Len(Kept(f)) = f.synced /\ f.synced \in Nat
  BY KeptType DEF File
<1>2. Lost(f) \in File /\ Lost(f).data = Kept(f) /\ Lost(f).synced = f.synced
  BY <1>1 DEF Lost, Kept, File
<1>3. Kept(Lost(f)) = Lost(f).data
  BY <1>1, <1>2, KeptOfAll
<1> QED
  BY <1>1, <1>2, <1>3

-----------------------------------------------------------------------------
(***************************************************************************)
(* What the file system's operations do to the views                       *)
(***************************************************************************)
LEMMA DirIsLast ==
    ASSUME Files
    PROVE  /\ Len(dirs) \in Nat \ {0} /\ Len(inode) \in Nat
           /\ dir = dirs[Len(dirs)] /\ dir \in Directory
           /\ \A i \in 1 .. Len(dirs) : dirs[i] \in Directory
           /\ \A x \in DOMAIN dir : dir[x] \in 1 .. Len(inode) /\ inode[dir[x]] \in File
           /\ \A i \in 1 .. Len(dirs) : \A x \in DOMAIN dirs[i] :
                dirs[i][x] \in 1 .. Len(inode) /\ inode[dirs[i][x]] \in File
           /\ \A k \in 1 .. Len(inode) : inode[k] \in File /\ inode[k].synced <= Len(inode[k].data)
<1>1. Len(dirs) \in Nat \ {0} /\ Len(inode) \in Nat
  BY EmptySeq, LenProperties DEF Files
<1>2. dir = dirs[Len(dirs)]
  BY DEF dir, Last
<1>3. \A i \in 1 .. Len(dirs) : dirs[i] \in Directory
  BY ElementOfSeq DEF Files
<1>4. \A k \in 1 .. Len(inode) : inode[k] \in File
  BY ElementOfSeq DEF Files
<1>5. Len(dirs) \in 1 .. Len(dirs)
  BY <1>1
<1> QED
  BY <1>1, <1>2, <1>3, <1>4, <1>5 DEF Files

LEMMA ViewFacts ==
    ASSUME Files
    PROVE  /\ DOMAIN Now = DOMAIN dir /\ DOMAIN Durable = DOMAIN dir
           /\ Durable \in Durables
           /\ \A x \in DOMAIN dir : Now[x] = inode[dir[x]].data /\ Durable[x] = Kept(inode[dir[x]])
<1>1. Len(dirs) \in 1 .. Len(dirs) /\ dir = dirs[Len(dirs)]
  BY DirIsLast
<1>2. Durable = DurableAt(Len(dirs))
  BY <1>1 DEF Durable, DurableAt
<1> QED
  BY <1>1, <1>2 DEF Now, Durable, Durables

\* Who has no CURRENT now has had none in any directory.
LEMMA CurrentIsNew ==
    ASSUME FilesOK, CURRENT \notin DOMAIN dir, NEW V \in Durables
    PROVE  CURRENT \notin DOMAIN V
<1>1. PICK i \in 1 .. Len(dirs) : V = DurableAt(i)
  BY DEF Durables
<1>2. DOMAIN V = DOMAIN dirs[i]
  BY <1>1 DEF DurableAt
<1>3. Len(dirs) \in 1 .. Len(dirs) /\ i <= Len(dirs) /\ dir = dirs[Len(dirs)]
  BY DirIsLast DEF FilesOK
<1> QED
  BY <1>2, <1>3 DEF FilesOK, CurrentStays

\* A file that is in the directory is written, and nothing else is.
LEMMA WrittenApart ==
    ASSUME FilesOK, NEW x \in DOMAIN dir, x # CURRENT,
           NEW i \in 1 .. Len(dirs), NEW y \in DOMAIN dirs[i], y # x
    PROVE  dirs[i][y] # dir[x]
<1>1. Len(dirs) \in 1 .. Len(dirs) /\ i <= Len(dirs) /\ dir = dirs[Len(dirs)]
  BY DirIsLast DEF FilesOK
<1>2. dirs[i][y] = dir[x] => Alike(y, x)
  BY <1>1 DEF FilesOK, OneName
<1>3. y = CURRENT => dir[x] # dirs[i][CURRENT]
  BY <1>1 DEF FilesOK, CurrentStays
<1> QED
  BY <1>2, <1>3 DEF Alike

\* A file that has a name gets other contents.
LEMMA Written ==
    ASSUME FilesOK, NEW x \in DOMAIN dir, x # CURRENT,
           NEW f \in File, f.synced <= Len(f.data),
           inode' = [inode EXCEPT ![dir[x]] = f], dirs' = dirs
    PROVE  /\ FilesOK' /\ dir' = dir
           /\ But(x, Now, Now') /\ Holds(Now', x, f.data)
           /\ But(x, Durable, Durable') /\ Holds(Durable', x, Kept(f))
           /\ \A W \in Durables' : \E V \in Durables : But(x, V, W)
<1>0. Files
  BY DEF FilesOK
<1>1. dir' = dir /\ dir[x] \in 1 .. Len(inode)
  BY <1>0, DirIsLast DEF dir
<1>2. /\ inode' \in Seq(File) /\ Len(inode') = Len(inode)
      /\ \A k \in 1 .. Len(inode) : inode'[k] = IF k = dir[x] THEN f ELSE inode[k]
  BY <1>0, <1>1, ExceptSeq DEF Files
<1>3. Files'
  BY <1>0, <1>2 DEF Files
<1>4. FilesOK'
  <2>1. OneName'
    BY DEF FilesOK, OneName
  <2>2. CurrentStays'
    BY DEF FilesOK, CurrentStays
  <2> QED
    BY <1>3, <2>1, <2>2 DEF FilesOK
<1>5. \A i \in 1 .. Len(dirs) : \A y \in DOMAIN dirs[i] :
        y # x => inode'[dirs[i][y]] = inode[dirs[i][y]]
  BY <1>0, <1>2, WrittenApart, DirIsLast
<1>6. Len(dirs) \in 1 .. Len(dirs) /\ dir = dirs[Len(dirs)]
  BY <1>0, DirIsLast
<1>7. \A y \in DOMAIN dir : y # x => inode'[dir[y]] = inode[dir[y]]
  BY <1>5, <1>6
<1>8. inode'[dir[x]] = f
  BY <1>1, <1>2
<1>9. But(x, Now, Now') /\ Holds(Now', x, f.data)
  BY <1>1, <1>7, <1>8 DEF But, Holds, Now
<1>10. But(x, Durable, Durable') /\ Holds(Durable', x, Kept(f))
  <2>1. /\ Durable' = [y \in DOMAIN dir |-> Kept(inode'[dir[y]])]
        /\ Durable = [y \in DOMAIN dir |-> Kept(inode[dir[y]])]
    BY <1>1 DEF Durable, Kept
  <2> QED
    BY <2>1, <1>7, <1>8 DEF But, Holds
<1>11. ASSUME NEW W \in Durables'
       PROVE  \E V \in Durables : But(x, V, W)
  <2>1. PICK i \in 1 .. Len(dirs) : W = [y \in DOMAIN dirs[i] |-> Kept(inode'[dirs[i][y]])]
    BY <1>11 DEF Durables, DurableAt, Kept
  <2>2. DurableAt(i) = [y \in DOMAIN dirs[i] |-> Kept(inode[dirs[i][y]])] /\ DurableAt(i) \in Durables
    BY DEF DurableAt, Durables
  <2>3. But(x, DurableAt(i), W)
    BY <1>5, <2>1, <2>2 DEF But
  <2> QED
    BY <2>2, <2>3
<1> QED
  BY <1>1, <1>4, <1>9, <1>10, <1>11

LEMMA BindFacts ==
    ASSUME NEW d \in Directory, NEW x \in Name, NEW k \in Nat
    PROVE  /\ Bind(d, x, k) \in Directory /\ DOMAIN Bind(d, x, k) = DOMAIN d \cup {x}
           /\ Bind(d, x, k)[x] = k
           /\ \A y \in DOMAIN d : y # x => Bind(d, x, k)[y] = d[y]
<1>1. DOMAIN d \in SUBSET Name /\ \A y \in DOMAIN d : d[y] \in Nat
  BY DEF Directory
<1>2. Bind(d, x, k) \in [DOMAIN d \cup {x} -> Nat] /\ DOMAIN d \cup {x} \in SUBSET Name
  BY <1>1 DEF Bind
<1>3. Bind(d, x, k) \in Directory
  BY <1>2 DEF Directory
<1> QED
  BY <1>3 DEF Bind

LEMMA WithoutFacts ==
    ASSUME NEW d \in Directory, NEW G
    PROVE  [y \in DOMAIN d \ G |-> d[y]] \in Directory
<1>1. DOMAIN d \in SUBSET Name /\ \A y \in DOMAIN d : d[y] \in Nat
  BY DEF Directory
<1>2. [y \in DOMAIN d \ G |-> d[y]] \in [DOMAIN d \ G -> Nat] /\ DOMAIN d \ G \in SUBSET Name
  BY <1>1
<1> QED
  BY <1>2 DEF Directory

\* The last directory is followed by another.
LEMMA Followed ==
    ASSUME Files, NEW d \in Directory, dirs' = Append(dirs, d)
    PROVE  /\ dirs' \in Seq(Directory) /\ dirs' # << >> /\ Len(dirs') = Len(dirs) + 1
           /\ dir' = d /\ dirs'[Len(dirs) + 1] = d
           /\ \A i \in 1 .. Len(dirs) : dirs'[i] = dirs[i]
           /\ Len(dirs) \in Nat
<1>1. dirs \in Seq(Directory)
  BY DEF Files
<1>2. /\ dirs' \in Seq(Directory) /\ dirs' # << >> /\ Len(dirs') = Len(dirs) + 1
      /\ dirs'[Len(dirs) + 1] = d /\ \A i \in 1 .. Len(dirs) : dirs'[i] = dirs[i]
  BY <1>1, AppendProperties
<1>3. dir' = d
  BY <1>2 DEF dir, Last
<1>4. Len(dirs) \in Nat
  BY DirIsLast
<1> QED
  BY <1>2, <1>3, <1>4

\* A new file gets a name that was free.
LEMMA Added ==
    ASSUME FilesOK, NEW x \in Name, x \notin DOMAIN dir, x # CURRENT,
           NEW f \in File, f.synced <= Len(f.data),
           inode' = Append(inode, f), dirs' = Append(dirs, Bind(dir, x, Len(inode) + 1))
    PROVE  /\ FilesOK' /\ dir' = Bind(dir, x, Len(inode) + 1)
           /\ But(x, Now, Now') /\ Holds(Now', x, f.data)
           /\ But(x, Durable, Durable') /\ Holds(Durable', x, Kept(f))
           /\ \A W \in Durables' : \E V \in Durables : But(x, V, W)
<1> DEFINE K == Len(inode) + 1
           d == Bind(dir, x, K)
           n == Len(dirs)
<1>0. Files
  BY DEF FilesOK
<1>1. /\ K \in Nat /\ dir \in Directory /\ n \in Nat \ {0} /\ dir = dirs[n] /\ Len(inode) \in Nat
      /\ \A i \in 1 .. n : \A y \in DOMAIN dirs[i] : dirs[i][y] \in 1 .. Len(inode)
      /\ \A y \in DOMAIN dir : dir[y] \in 1 .. Len(inode)
  BY <1>0, DirIsLast
<1>2. /\ d \in Directory /\ DOMAIN d = DOMAIN dir \cup {x} /\ d[x] = K
      /\ \A y \in DOMAIN dir : y # x => d[y] = dir[y]
  <2> HIDE DEF K
  <2>1. dir \in Directory /\ x \in Name /\ K \in Nat
    BY <1>1
  <2> QED
    BY ONLY <2>1, BindFacts, Zenon
<1>3. /\ dirs' \in Seq(Directory) /\ dirs' # << >> /\ Len(dirs') = n + 1
      /\ dir' = d /\ dirs'[n + 1] = d /\ \A i \in 1 .. n : dirs'[i] = dirs[i]
  BY <1>0, <1>2, Followed
<1>4. /\ inode' \in Seq(File) /\ Len(inode') = K /\ inode'[K] = f
      /\ \A k \in 1 .. Len(inode) : inode'[k] = inode[k]
  BY <1>0, AppendProperties DEF Files
<1> HIDE DEF d
<1>5. Files'
  <2>1. \A i \in 1 .. Len(inode') : inode'[i].synced <= Len(inode'[i].data)
    BY <1>0, <1>1, <1>4 DEF Files
  <2>2. ASSUME NEW i \in 1 .. n + 1, NEW y \in DOMAIN dirs'[i]
        PROVE  dirs'[i][y] \in 1 .. K
    <3>1. CASE i = n + 1
      BY <3>1, <1>1, <1>2, <1>3
    <3>2. CASE i # n + 1
      BY <3>2, <1>1, <1>3
    <3> QED
      BY <3>1, <3>2
  <2> QED
    BY <1>3, <1>4, <2>1, <2>2 DEF Files
<1>6. OneName'
  <2> SUFFICES ASSUME NEW i \in 1 .. n + 1, NEW j \in 1 .. n + 1,
                      NEW y \in DOMAIN dirs'[i], NEW z \in DOMAIN dirs'[j],
                      dirs'[i][y] = dirs'[j][z]
               PROVE  Alike(y, z)
    BY <1>3 DEF OneName, Alike, CURRENT
  <2>0. \A a, b \in 1 .. n : \A v \in DOMAIN dirs[a], w \in DOMAIN dirs[b] :
            dirs[a][v] = dirs[b][w] => Alike(v, w)
    BY DEF FilesOK, OneName
  <2>1. CASE i <= n /\ j <= n
    BY <2>0, <2>1, <1>1, <1>3
  <2>2. CASE i = n + 1 /\ j <= n
    <3>1. y # x
      BY <2>2, <1>1, <1>2, <1>3
    <3>2. y \in DOMAIN dirs[n] /\ dirs'[i][y] = dirs[n][y]
      BY <3>1, <2>2, <1>1, <1>2, <1>3
    <3>3. j \in 1 .. n /\ n \in 1 .. n /\ dirs'[j] = dirs[j]
      BY <2>2, <1>1, <1>3
    <3> QED
      BY <3>2, <3>3, <2>0
  <2>3. CASE i <= n /\ j = n + 1
    <3>1. z # x
      BY <2>3, <1>1, <1>2, <1>3
    <3>2. z \in DOMAIN dirs[n] /\ dirs'[j][z] = dirs[n][z]
      BY <3>1, <2>3, <1>1, <1>2, <1>3
    <3>3. i \in 1 .. n /\ n \in 1 .. n /\ dirs'[i] = dirs[i]
      BY <2>3, <1>1, <1>3
    <3> QED
      BY <3>2, <3>3, <2>0
  <2>4. CASE i = n + 1 /\ j = n + 1
    <3>1. CASE y = x \/ z = x
      BY <3>1, <2>4, <1>1, <1>2, <1>3 DEF Alike
    <3>2. CASE y # x /\ z # x
      <4>1. /\ y \in DOMAIN dirs[n] /\ z \in DOMAIN dirs[n] /\ n \in 1 .. n
            /\ dirs[n][y] = dirs[n][z]
        BY <3>2, <2>4, <1>1, <1>2, <1>3
      <4> QED
        BY <4>1, <2>0
    <3> QED
      BY <3>1, <3>2
  <2> QED
    BY <1>1, <2>1, <2>2, <2>3, <2>4
<1>7. CurrentStays'
  <2> SUFFICES ASSUME NEW i \in 1 .. n + 1, NEW j \in 1 .. n + 1, i <= j,
                      CURRENT \in DOMAIN dirs'[i]
               PROVE  /\ CURRENT \in DOMAIN dirs'[j]
                      /\ \A y \in DOMAIN dirs'[j] : y # CURRENT => dirs'[j][y] # dirs'[i][CURRENT]
    BY <1>3 DEF CurrentStays, CURRENT
  <2>1. CASE j <= n
    BY <2>1, <1>1, <1>3 DEF FilesOK, CurrentStays
  <2>2. CASE j = n + 1
    <3>1. PICK e \in 1 .. n : CURRENT \in DOMAIN dirs[e] /\ dirs'[i][CURRENT] = dirs[e][CURRENT]
      <4>1. CASE i <= n
        BY <4>1, <1>1, <1>3
      <4>2. CASE i = n + 1
        BY <4>2, <1>1, <1>2, <1>3
      <4> QED
        BY <1>1, <4>1, <4>2
    <3>2. /\ CURRENT \in DOMAIN dirs[n]
          /\ \A y \in DOMAIN dirs[n] : y # CURRENT => dirs[n][y] # dirs[e][CURRENT]
      BY <3>1, <1>1 DEF FilesOK, CurrentStays
    <3>3. dirs[e][CURRENT] # K
      BY <3>1, <1>1
    <3>4. dirs'[j] = d
      BY <2>2, <1>3
    <3>5. CURRENT \in DOMAIN d /\ \A y \in DOMAIN d : y # CURRENT => d[y] # dirs[e][CURRENT]
      BY <3>2, <3>3, <1>1, <1>2
    <3> QED
      BY <3>1, <3>4, <3>5
  <2> QED
    BY <1>1, <2>1, <2>2
<1>8. \A i \in 1 .. n : \A y \in DOMAIN dirs[i] : inode'[dirs[i][y]] = inode[dirs[i][y]]
  BY <1>1, <1>4
<1>9. \A y \in DOMAIN dir : y # x => inode'[d[y]] = inode[dir[y]]
  BY <1>1, <1>2, <1>4
<1>10. But(x, Now, Now') /\ Holds(Now', x, f.data)
  <2>1. /\ Now' = [y \in DOMAIN d |-> inode'[d[y]].data]
        /\ Now = [y \in DOMAIN dir |-> inode[dir[y]].data]
    BY <1>3 DEF Now
  <2> QED
    BY <2>1, <1>2, <1>4, <1>9 DEF But, Holds
<1>11. But(x, Durable, Durable') /\ Holds(Durable', x, Kept(f))
  <2>1. /\ Durable' = [y \in DOMAIN d |-> Kept(inode'[d[y]])]
        /\ Durable = [y \in DOMAIN dir |-> Kept(inode[dir[y]])]
    BY <1>3 DEF Durable, Kept
  <2> QED
    BY <2>1, <1>2, <1>4, <1>9 DEF But, Holds
<1>12. ASSUME NEW W \in Durables'
       PROVE  \E V \in Durables : But(x, V, W)
  <2>1. PICK i \in 1 .. n + 1 : W = [y \in DOMAIN dirs'[i] |-> Kept(inode'[dirs'[i][y]])]
    BY <1>3, <1>12 DEF Durables, DurableAt, Kept
  <2>2. CASE i <= n
    <3>1. DurableAt(i) = [y \in DOMAIN dirs[i] |-> Kept(inode[dirs[i][y]])] /\ DurableAt(i) \in Durables
      BY <2>2, <1>1 DEF DurableAt, Durables
    <3>2. dirs'[i] = dirs[i]
      BY <2>2, <1>1, <1>3
    <3>3. But(x, DurableAt(i), W)
      BY <1>8, <2>1, <2>2, <3>1, <3>2, <1>1 DEF But
    <3> QED
      BY <3>1, <3>3
  <2>3. CASE i = n + 1
    <3>1. W = Durable'
      BY <2>1, <2>3, <1>3 DEF Durable, Kept
    <3> QED
      BY <3>1, <1>0, <1>11, ViewFacts
  <2> QED
    BY <1>1, <2>2, <2>3
<1> QED
  BY <1>3, <1>5, <1>6, <1>7, <1>10, <1>11, <1>12 DEF FilesOK

\* One name has other contents, c now and k after a power failure.
Changed(x, c, k) ==
    /\ FilesOK' /\ x \in DOMAIN dir' /\ \A y \in DOMAIN dir : y # x => dir'[y] = dir[y]
    /\ But(x, Now, Now') /\ Holds(Now', x, c)
    /\ But(x, Durable, Durable') /\ Holds(Durable', x, k)
    /\ \A W \in Durables' : \E V \in Durables : But(x, V, W)

LEMMA CreateChanges ==
    ASSUME FilesOK, NEW x \in Name, x # CURRENT, NEW c \in Content, Create(x, c)
    PROVE  Changed(x, c, << >>) /\ dir'[x] = InodeOf(x) /\ dir'[x] # 0
<1> DEFINE f == [data |-> c, synced |-> 0]
<1>0. Files
  BY DEF FilesOK
<1>1. f \in File /\ f.synced <= Len(f.data) /\ f.data = c /\ f.synced = 0
  <2>1. f \in File /\ f.data = c /\ f.synced = 0
    BY DEF File
  <2>2. Len(c) \in Nat
    BY LenProperties DEF Content
  <2> QED
    BY <2>1, <2>2
<1>2. Kept(f) = << >>
  BY <1>1, KeptOfNew
<1> HIDE DEF f
<1>3. CASE x \in DOMAIN dir
  <2>1. dir[x] \in 1 .. Len(inode) /\ Len(inode) \in Nat
    BY <1>0, <1>3, DirIsLast
  <2>2. inode' = [inode EXCEPT ![dir[x]] = f] /\ dirs' = dirs
    BY <1>3, <2>1 DEF Create, f
  <2>3. /\ FilesOK' /\ dir' = dir
        /\ But(x, Now, Now') /\ Holds(Now', x, f.data)
        /\ But(x, Durable, Durable') /\ Holds(Durable', x, Kept(f))
        /\ \A W \in Durables' : \E V \in Durables : But(x, V, W)
    BY <1>1, <1>3, <2>2, Written
  <2> QED
    BY <1>1, <1>2, <1>3, <2>1, <2>3 DEF Changed, InodeOf
<1>4. CASE x \notin DOMAIN dir
  <2>1. Len(inode) \in Nat /\ dir \in Directory
    BY <1>0, DirIsLast
  <2>2. inode' = Append(inode, f) /\ dirs' = Append(dirs, Bind(dir, x, Len(inode) + 1))
    BY <1>4, <2>1 DEF Create, f
  <2>3. /\ FilesOK' /\ dir' = Bind(dir, x, Len(inode) + 1)
        /\ But(x, Now, Now') /\ Holds(Now', x, f.data)
        /\ But(x, Durable, Durable') /\ Holds(Durable', x, Kept(f))
        /\ \A W \in Durables' : \E V \in Durables : But(x, V, W)
    BY <1>1, <1>4, <2>2, Added
  <2>4. x \in DOMAIN dir' /\ dir'[x] = Len(inode) + 1
        /\ \A y \in DOMAIN dir : y # x => dir'[y] = dir[y]
    BY <2>1, <2>3 DEF Bind
  <2> QED
    BY <1>1, <1>2, <1>4, <2>1, <2>3, <2>4 DEF Changed, InodeOf
<1> QED
  BY <1>3, <1>4

LEMMA SyncChanges ==
    ASSUME FilesOK, NEW x \in DOMAIN dir, x # CURRENT, Sync(dir[x]), dirs' = dirs
    PROVE  Changed(x, Now[x], Now[x]) /\ Now' = Now /\ dir' = dir
<1> DEFINE f == [inode[dir[x]] EXCEPT !.synced = Len(inode[dir[x]].data)]
<1>0. Files
  BY DEF FilesOK
<1>1. inode[dir[x]] \in File /\ dir[x] \in 1 .. Len(inode) /\ inode \in Seq(File)
  BY <1>0, DirIsLast DEF Files
<1>2. Len(inode[dir[x]].data) \in Nat
  BY <1>1, LenProperties DEF File, Content
<1>3. f \in File /\ f.data = inode[dir[x]].data /\ f.synced = Len(f.data)
  BY <1>1, <1>2 DEF File
<1>4. inode' = [inode EXCEPT ![dir[x]] = f]
  BY DEF Sync
<1>5. Kept(f) = f.data
  <2> HIDE DEF f
  <2> QED
    BY <1>3, KeptOfAll
<1>6. Now[x] = f.data
  BY <1>0, <1>3, ViewFacts
<1>7. f.synced <= Len(f.data)
  BY <1>2, <1>3
<1> HIDE DEF f
<1>8. /\ FilesOK' /\ dir' = dir
      /\ But(x, Now, Now') /\ Holds(Now', x, f.data)
      /\ But(x, Durable, Durable') /\ Holds(Durable', x, Kept(f))
      /\ \A W \in Durables' : \E V \in Durables : But(x, V, W)
  BY <1>3, <1>4, <1>7, Written
<1>9. Now' = Now
  <2>1. /\ Now' = [y \in DOMAIN dir |-> inode'[dir[y]].data]
        /\ Now = [y \in DOMAIN dir |-> inode[dir[y]].data]
    BY <1>8 DEF Now
  <2>2. \A k \in 1 .. Len(inode) : inode'[k].data = inode[k].data
    BY <1>1, <1>3, <1>4, ExceptSeq
  <2>3. \A y \in DOMAIN dir : inode'[dir[y]].data = inode[dir[y]].data
    BY <1>0, <2>2, DirIsLast
  <2> QED
    BY <2>1, <2>3
<1> QED
  BY <1>5, <1>6, <1>8, <1>9 DEF Changed

LEMMA AddRecordChanges ==
    ASSUME FilesOK, NEW x \in DOMAIN dir, x # CURRENT, NEW r \in Record,
           AddRecord(dir[x], r), dirs' = dirs
    PROVE  /\ FilesOK' /\ dir' = dir /\ Durable' = Durable /\ Durables' = Durables
           /\ But(x, Now, Now') /\ Holds(Now', x, Append(Now[x], r))
           /\ Now[x] \in Content
<1> DEFINE f == [inode[dir[x]] EXCEPT !.data = Append(inode[dir[x]].data, r)]
<1>0. Files
  BY DEF FilesOK
<1>1. inode[dir[x]] \in File /\ dir[x] \in 1 .. Len(inode) /\ inode \in Seq(File)
      /\ inode[dir[x]].synced <= Len(inode[dir[x]].data)
  BY <1>0, DirIsLast DEF Files
<1>2. /\ f \in File /\ f.synced = inode[dir[x]].synced
      /\ f.data = Append(inode[dir[x]].data, r)
      /\ f.synced <= Len(f.data) /\ Kept(f) = Kept(inode[dir[x]])
  <2>1. f.synced = inode[dir[x]].synced /\ f.data = Append(inode[dir[x]].data, r)
    BY <1>1 DEF File
  <2> QED
    BY <1>1, <2>1, KeptOfMore
<1>3. inode' = [inode EXCEPT ![dir[x]] = f]
  BY DEF AddRecord
<1>4. Now[x] = inode[dir[x]].data
  BY <1>0, ViewFacts
<1> HIDE DEF f
<1>5. FilesOK' /\ dir' = dir /\ But(x, Now, Now') /\ Holds(Now', x, f.data)
  BY <1>2, <1>3, Written
<1>6. \A k \in 1 .. Len(inode) : Kept(inode'[k]) = Kept(inode[k])
  BY <1>1, <1>2, <1>3, ExceptSeq
<1>7. Durable' = Durable
  <2>1. /\ Durable' = [y \in DOMAIN dir |-> Kept(inode'[dir[y]])]
        /\ Durable = [y \in DOMAIN dir |-> Kept(inode[dir[y]])]
    BY <1>5 DEF Durable, Kept
  <2>2. \A y \in DOMAIN dir : Kept(inode'[dir[y]]) = Kept(inode[dir[y]])
    BY <1>0, <1>6, DirIsLast
  <2> QED
    BY <2>1, <2>2
<1>8. Durables' = Durables
  <2>1. /\ Durables' = {[y \in DOMAIN dirs[i] |-> Kept(inode'[dirs[i][y]])] : i \in 1 .. Len(dirs)}
        /\ Durables = {[y \in DOMAIN dirs[i] |-> Kept(inode[dirs[i][y]])] : i \in 1 .. Len(dirs)}
    BY DEF Durables, DurableAt, Kept
  <2>2. \A i \in 1 .. Len(dirs) : \A y \in DOMAIN dirs[i] :
            Kept(inode'[dirs[i][y]]) = Kept(inode[dirs[i][y]])
    BY <1>0, <1>6, DirIsLast
  <2>3. \A i \in 1 .. Len(dirs) : [y \in DOMAIN dirs[i] |-> Kept(inode'[dirs[i][y]])]
                                  = [y \in DOMAIN dirs[i] |-> Kept(inode[dirs[i][y]])]
    BY <2>2
  <2> QED
    BY <2>1, <2>3
<1> QED
  BY <1>1, <1>2, <1>4, <1>5, <1>7, <1>8 DEF File

\* A directory with some of the names, in which CURRENT may be a temporary file
\* of before.
Succeeds(d) ==
    /\ \A y \in DOMAIN d : y # CURRENT => y \in DOMAIN dir /\ d[y] = dir[y]
    /\ \/ /\ CURRENT \in DOMAIN dir <=> CURRENT \in DOMAIN d
          /\ CURRENT \in DOMAIN d => d[CURRENT] = dir[CURRENT]
       \/ \E t \in DOMAIN dir \ DOMAIN d : /\ t[1] = "dbtmp" /\ CURRENT \in DOMAIN d
                                           /\ d[CURRENT] = dir[t]

LEMMA Replaced ==
    ASSUME FilesOK, NEW d \in Directory, Succeeds(d), inode' = inode, dirs' = Append(dirs, d)
    PROVE  /\ FilesOK' /\ dir' = d /\ Durables' = Durables \cup {Durable'}
           /\ DOMAIN Now' = DOMAIN d /\ DOMAIN Durable' = DOMAIN d
           /\ \A y \in DOMAIN d : Now'[y] = inode[d[y]].data /\ Durable'[y] = Kept(inode[d[y]])
<1> DEFINE n == Len(dirs)
<1>0. Files
  BY DEF FilesOK
<1>1. /\ dir \in Directory /\ n \in Nat \ {0} /\ dir = dirs[n] /\ Len(inode) \in Nat
      /\ \A i \in 1 .. n : \A y \in DOMAIN dirs[i] : dirs[i][y] \in 1 .. Len(inode)
      /\ \A y \in DOMAIN dir : dir[y] \in 1 .. Len(inode)
  BY <1>0, DirIsLast
<1>2. /\ dirs' \in Seq(Directory) /\ dirs' # << >> /\ Len(dirs') = n + 1
      /\ dir' = d /\ dirs'[n + 1] = d /\ \A i \in 1 .. n : dirs'[i] = dirs[i]
  BY <1>0, Followed
<1>3. \A t : t[1] = "dbtmp" => t # CURRENT
  BY DEF CURRENT
\* Where an entry of the new directory comes from.
<1>4. ASSUME NEW y \in DOMAIN d
      PROVE  \E z \in DOMAIN dir : /\ d[y] = dir[z]
                                   /\ y # CURRENT => z = y
                                   /\ y = CURRENT => z = CURRENT \/ (z[1] = "dbtmp" /\ z \notin DOMAIN d)
  <2>1. CASE y # CURRENT
    BY <2>1, <1>4 DEF Succeeds
  <2>2. CASE y = CURRENT
    BY <2>2, <1>4 DEF Succeeds
  <2> QED
    BY <2>1, <2>2
<1>5. \A i \in 1 .. n : \A y \in DOMAIN dirs[i], z \in DOMAIN dir :
        dirs[i][y] = dir[z] => Alike(y, z) /\ Alike(z, y)
  BY <1>1 DEF FilesOK, OneName
<1>6. \A i \in 1 .. n : CURRENT \in DOMAIN dirs[i] =>
        /\ CURRENT \in DOMAIN dir
        /\ \A y \in DOMAIN dir : y # CURRENT => dir[y] # dirs[i][CURRENT]
  BY <1>1 DEF FilesOK, CurrentStays
<1>7. CURRENT \in DOMAIN dir => CURRENT \in DOMAIN d
  BY DEF Succeeds
<1>8. Files'
  <2>1. \A y \in DOMAIN d : d[y] \in 1 .. Len(inode)
    BY <1>1, <1>4
  <2>2. \A i \in 1 .. n + 1 : \A y \in DOMAIN dirs'[i] : dirs'[i][y] \in 1 .. Len(inode)
    <3> TAKE i \in 1 .. n + 1
    <3>1. CASE i = n + 1
      BY <3>1, <2>1, <1>2
    <3>2. CASE i # n + 1
      BY <3>2, <1>1, <1>2
    <3> QED
      BY <3>1, <3>2
  <2> QED
    BY <1>0, <1>2, <2>2 DEF Files
<1>9. ASSUME NEW i \in 1 .. n, NEW y \in DOMAIN dirs[i], NEW z \in DOMAIN d, dirs[i][y] = d[z]
      PROVE  Alike(y, z) /\ Alike(z, y)
  <2>1. PICK w \in DOMAIN dir : /\ d[z] = dir[w]
                                /\ z # CURRENT => w = z
                                /\ z = CURRENT => w = CURRENT \/ (w[1] = "dbtmp" /\ w \notin DOMAIN d)
    BY <1>4
  <2>2. Alike(y, w)
    BY <1>5, <1>9, <2>1
  <2>3. CASE w = z
    BY <2>2, <2>3 DEF Alike
  <2>4. CASE z = CURRENT /\ w[1] = "dbtmp"
    BY <2>2, <2>4, <1>3 DEF Alike
  <2> QED
    BY <2>1, <2>3, <2>4
<1>10. ASSUME NEW y \in DOMAIN d, NEW z \in DOMAIN d, d[y] = d[z]
       PROVE  y = z
  <2>1. PICK v \in DOMAIN dir : /\ d[y] = dir[v]
                                /\ y # CURRENT => v = y
                                /\ y = CURRENT => v = CURRENT \/ (v[1] = "dbtmp" /\ v \notin DOMAIN d)
    BY <1>4
  <2>2. PICK w \in DOMAIN dir : /\ d[z] = dir[w]
                                /\ z # CURRENT => w = z
                                /\ z = CURRENT => w = CURRENT \/ (w[1] = "dbtmp" /\ w \notin DOMAIN d)
    BY <1>4
  <2>3. \A i \in 1 .. n : i = n => \A p \in DOMAIN dir : p # CURRENT /\ CURRENT \in DOMAIN dir =>
            dir[p] # dir[CURRENT]
    BY <1>1, <1>6
  <2>4. n \in 1 .. n
    BY <1>1
  <2>5. v = w
    <3>1. Alike(v, w)
      BY <1>1, <1>5, <1>10, <2>1, <2>2, <2>4
    <3> QED
      BY <3>1, <2>1, <2>2, <2>3, <2>4, <1>10, <1>3 DEF Alike
  <2> QED
    BY <2>1, <2>2, <2>5, <1>3
<1>11. OneName'
  <2> SUFFICES ASSUME NEW i \in 1 .. n + 1, NEW j \in 1 .. n + 1,
                      NEW y \in DOMAIN dirs'[i], NEW z \in DOMAIN dirs'[j],
                      dirs'[i][y] = dirs'[j][z]
               PROVE  Alike(y, z)
    BY <1>2 DEF OneName, Alike, CURRENT
  <2>1. CASE i <= n /\ j <= n
    BY <2>1, <1>1, <1>2 DEF FilesOK, OneName
  <2>2. CASE i = n + 1 /\ j <= n
    BY <2>2, <1>2, <1>9
  <2>3. CASE i <= n /\ j = n + 1
    BY <2>3, <1>2, <1>9
  <2>4. CASE i = n + 1 /\ j = n + 1
    BY <2>4, <1>2, <1>10 DEF Alike
  <2> QED
    BY <1>1, <2>1, <2>2, <2>3, <2>4
<1>12. CurrentStays'
  <2> SUFFICES ASSUME NEW i \in 1 .. n + 1, NEW j \in 1 .. n + 1, i <= j,
                      CURRENT \in DOMAIN dirs'[i]
               PROVE  /\ CURRENT \in DOMAIN dirs'[j]
                      /\ \A y \in DOMAIN dirs'[j] : y # CURRENT => dirs'[j][y] # dirs'[i][CURRENT]
    BY <1>2 DEF CurrentStays, CURRENT
  <2>1. CASE j <= n
    BY <2>1, <1>1, <1>2 DEF FilesOK, CurrentStays
  <2>2. CASE j = n + 1 /\ i <= n
    <3>1. /\ CURRENT \in DOMAIN dir
          /\ \A y \in DOMAIN dir : y # CURRENT => dir[y] # dirs[i][CURRENT]
      BY <2>2, <1>2, <1>6
    <3>2. \A y \in DOMAIN d : y # CURRENT => d[y] # dirs[i][CURRENT]
      BY <3>1 DEF Succeeds
    <3> QED
      BY <2>2, <3>1, <3>2, <1>2, <1>7
  <2>3. CASE j = n + 1 /\ i = n + 1
    BY <2>3, <1>2, <1>10
  <2> QED
    BY <1>1, <2>1, <2>2, <2>3
<1>13. /\ Now' = [y \in DOMAIN d |-> inode[d[y]].data]
       /\ Durable' = [y \in DOMAIN d |-> Kept(inode[d[y]])]
  BY <1>2 DEF Now, Durable, Kept
<1>14. Durables' = Durables \cup {Durable'}
  <2>1. Durables = {DurableAt(i) : i \in 1 .. n}
    BY DEF Durables
  <2>2. Durables' = {[y \in DOMAIN dirs'[i] |-> Kept(inode[dirs'[i][y]])] : i \in 1 .. n + 1}
    BY <1>2 DEF Durables, DurableAt, Kept
  <2>3. \A i \in 1 .. n : [y \in DOMAIN dirs'[i] |-> Kept(inode[dirs'[i][y]])] = DurableAt(i)
    BY <1>2 DEF DurableAt
  <2>4. [y \in DOMAIN dirs'[n + 1] |-> Kept(inode[dirs'[n + 1][y]])] = Durable'
    BY <1>2, <1>13
  <2>5. \A i \in 1 .. n + 1 : i \in 1 .. n \/ i = n + 1
    BY <1>1
  <2>6. \A i \in 1 .. n : i \in 1 .. n + 1
    BY <1>1
  <2>7. n + 1 \in 1 .. n + 1
    BY <1>1
  <2> QED
    BY <2>1, <2>2, <2>3, <2>4, <2>5, <2>6, <2>7
<1> QED
  BY <1>2, <1>8, <1>11, <1>12, <1>13, <1>14 DEF FilesOK

\* Names are removed from the directory, not CURRENT.
LEMMA DropChanges ==
    ASSUME FilesOK, NEW G, CURRENT \notin G, inode' = inode,
           dirs' = Append(dirs, [y \in DOMAIN dir \ G |-> dir[y]])
    PROVE  /\ FilesOK' /\ Durables' = Durables \cup {Durable'}
           /\ DOMAIN dir' = DOMAIN dir \ G /\ \A y \in DOMAIN dir \ G : dir'[y] = dir[y]
           /\ DOMAIN Now' = DOMAIN Now \ G /\ \A y \in DOMAIN Now \ G : Now'[y] = Now[y]
           /\ DOMAIN Durable' = DOMAIN Durable \ G
           /\ \A y \in DOMAIN Durable \ G : Durable'[y] = Durable[y]
<1> DEFINE d == [y \in DOMAIN dir \ G |-> dir[y]]
<1>0. Files
  BY DEF FilesOK
<1>1. d \in Directory
  BY <1>0, DirIsLast, WithoutFacts
<1>2. DOMAIN d = DOMAIN dir \ G /\ \A y \in DOMAIN d : d[y] = dir[y]
  OBVIOUS
<1>3. dirs' = Append(dirs, d)
  OBVIOUS
<1> HIDE DEF d
<1>4. Succeeds(d)
  BY <1>2 DEF Succeeds
<1>5. /\ FilesOK' /\ dir' = d /\ Durables' = Durables \cup {Durable'}
      /\ DOMAIN Now' = DOMAIN d /\ DOMAIN Durable' = DOMAIN d
      /\ \A y \in DOMAIN d : Now'[y] = inode[d[y]].data /\ Durable'[y] = Kept(inode[d[y]])
  BY <1>1, <1>3, <1>4, Replaced
<1> QED
  BY <1>0, <1>2, <1>5, ViewFacts

\* RenameFile of the temporary file to CURRENT.
LEMMA RenameChanges ==
    ASSUME FilesOK, NEW t \in DOMAIN dir, t[1] = "dbtmp", inode' = inode,
           dirs' = Append(dirs, Bind(Unbind(dir, t), CURRENT, dir[t]))
    PROVE  /\ FilesOK' /\ Durables' = Durables \cup {Durable'}
           /\ \A y \in DOMAIN dir \ {t, CURRENT} :
                /\ y \in DOMAIN dir' /\ dir'[y] = dir[y]
                /\ y \in DOMAIN Now' /\ Now'[y] = Now[y]
                /\ y \in DOMAIN Durable' /\ Durable'[y] = Durable[y]
           /\ CURRENT \in DOMAIN dir' /\ DOMAIN dir' = (DOMAIN dir \cup {CURRENT}) \ {t}
           /\ Holds(Now', CURRENT, Now[t]) /\ Holds(Durable', CURRENT, Durable[t])
<1> DEFINE u == Unbind(dir, t)
           d == Bind(u, CURRENT, dir[t])
<1>0. Files
  BY DEF FilesOK
<1>1. t # CURRENT /\ CURRENT \in Name
  <2>1. t # CURRENT
    BY DEF CURRENT
  <2>2. CURRENT \in Name
    BY DEF CURRENT, Name
  <2> QED
    BY <2>1, <2>2
<1>2. u \in Directory
  BY <1>0, DirIsLast, WithoutFacts DEF Unbind
<1>3. DOMAIN u = DOMAIN dir \ {t} /\ \A y \in DOMAIN u : u[y] = dir[y]
  BY DEF Unbind
<1>4. dir[t] \in Nat
  BY <1>0, DirIsLast
<1>5. dirs' = Append(dirs, d)
  OBVIOUS
<1> HIDE DEF u
<1>6. /\ d \in Directory /\ DOMAIN d = DOMAIN u \cup {CURRENT} /\ d[CURRENT] = dir[t]
      /\ \A y \in DOMAIN u : y # CURRENT => d[y] = u[y]
  <2> DEFINE b(k) == Bind(u, CURRENT, k)
  <2>1. ASSUME NEW k \in Nat
        PROVE  /\ b(k) \in Directory /\ DOMAIN b(k) = DOMAIN u \cup {CURRENT} /\ b(k)[CURRENT] = k
               /\ \A y \in DOMAIN u : y # CURRENT => b(k)[y] = u[y]
    BY ONLY <1>1, <1>2, <2>1, BindFacts
  <2>2. d = b(dir[t])
    OBVIOUS
  <2> HIDE DEF b, d
  <2> QED
    BY ONLY <1>4, <2>1, <2>2
<1> HIDE DEF d
<1>7. Succeeds(d)
  BY <1>1, <1>3, <1>6 DEF Succeeds
<1>8. /\ FilesOK' /\ dir' = d /\ Durables' = Durables \cup {Durable'}
      /\ DOMAIN Now' = DOMAIN d /\ DOMAIN Durable' = DOMAIN d
      /\ \A y \in DOMAIN d : Now'[y] = inode[d[y]].data /\ Durable'[y] = Kept(inode[d[y]])
  BY <1>5, <1>6, <1>7, Replaced
<1>9. \A y \in DOMAIN dir : Now[y] = inode[dir[y]].data /\ Durable[y] = Kept(inode[dir[y]])
  BY <1>0, ViewFacts
<1>10. \A y \in DOMAIN dir \ {t, CURRENT} :
                /\ y \in DOMAIN dir' /\ dir'[y] = dir[y]
                /\ y \in DOMAIN Now' /\ Now'[y] = Now[y]
                /\ y \in DOMAIN Durable' /\ Durable'[y] = Durable[y]
  BY <1>3, <1>6, <1>8, <1>9
<1>11. CURRENT \in DOMAIN dir' /\ DOMAIN dir' = (DOMAIN dir \cup {CURRENT}) \ {t}
  BY <1>1, <1>3, <1>6, <1>8
<1>12. Holds(Now', CURRENT, Now[t]) /\ Holds(Durable', CURRENT, Durable[t])
  BY <1>6, <1>8, <1>9, <1>11 DEF Holds
<1> QED
  BY <1>8, <1>10, <1>11, <1>12

\* The directory is synced: a power failure can go back to no other.
LEMMA DirSyncChanges ==
    ASSUME FilesOK, inode' = inode, dirs' = <<dir>>
    PROVE  /\ FilesOK' /\ dir' = dir /\ Now' = Now /\ Durable' = Durable
           /\ Durables' = {Durable} /\ Len(dirs') = 1
<1>0. Files
  BY DEF FilesOK
<1>1. dir \in Directory /\ dir = dirs[Len(dirs)] /\ Len(dirs) \in 1 .. Len(dirs)
      /\ \A y \in DOMAIN dir : dir[y] \in 1 .. Len(inode)
  BY <1>0, DirIsLast
<1>2. dirs' \in Seq(Directory) /\ dirs' # << >> /\ Len(dirs') = 1 /\ dirs'[1] = dir
  BY <1>1
<1>3. dir' = dir
  BY <1>2 DEF dir, Last
<1>4. Files'
  BY <1>0, <1>1, <1>2 DEF Files
<1>5. OneName'
  <2>1. \A y, z \in DOMAIN dir : dir[y] = dir[z] => Alike(y, z)
    BY <1>1 DEF FilesOK, OneName
  <2> QED
    BY <1>2, <2>1 DEF OneName, Alike, CURRENT
<1>6. CurrentStays'
  <2>1. CURRENT \in DOMAIN dir => \A y \in DOMAIN dir : y # CURRENT => dir[y] # dir[CURRENT]
    BY <1>1 DEF FilesOK, CurrentStays
  <2> QED
    BY <1>2, <2>1 DEF CurrentStays, CURRENT
<1>7. Now' = Now /\ Durable' = Durable
  BY <1>3 DEF Now, Durable, Kept
<1>8. Durables' = {Durable}
  <2>1. Durables' = {[y \in DOMAIN dirs'[i] |-> Kept(inode[dirs'[i][y]])] : i \in 1 .. 1}
    BY <1>2 DEF Durables, DurableAt, Kept
  <2>2. Durable = [y \in DOMAIN dir |-> Kept(inode[dir[y]])]
    BY DEF Durable
  <2>3. \A i \in 1 .. 1 : [y \in DOMAIN dirs'[i] |-> Kept(inode[dirs'[i][y]])] = Durable
    BY <1>2, <2>2
  <2> QED
    BY <2>1, <2>3
<1> QED
  BY <1>2, <1>3, <1>4, <1>5, <1>6, <1>7, <1>8 DEF FilesOK

\* The power fails: of the views that were possible one is left.
LEMMA PowerChanges ==
    ASSUME FilesOK, NEW p \in 1 .. Len(dirs), dirs' = <<dirs[p]>>,
           inode' = [i \in 1 .. Len(inode) |-> Lost(inode[i])]
    PROVE  /\ FilesOK' /\ Durables' = {Now'} /\ Durable' = Now'
           /\ Now' \in Durables
<1>0. Files
  BY DEF FilesOK
<1> DEFINE d == dirs[p]
<1>1. d \in Directory /\ Len(inode) \in Nat
      /\ \A y \in DOMAIN d : d[y] \in 1 .. Len(inode) /\ inode[d[y]] \in File
  BY <1>0, DirIsLast
<1>k. \A k \in 1 .. Len(inode) : inode[k] \in File /\ inode[k].synced <= Len(inode[k].data)
  BY <1>0, DirIsLast
<1>d. d = dirs[p]
  OBVIOUS
<1> HIDE DEF d
<1>2. dirs' \in Seq(Directory) /\ dirs' # << >> /\ Len(dirs') = 1 /\ dirs'[1] = d /\ dir' = d
  BY <1>1, <1>d DEF dir, Last
<1>3. \A k \in 1 .. Len(inode) :
        /\ inode'[k] \in File /\ inode'[k].data = Kept(inode[k])
        /\ Kept(inode'[k]) = Kept(inode[k]) /\ inode'[k].synced <= Len(inode'[k].data)
  <2> TAKE k \in 1 .. Len(inode)
  <2>1. inode'[k] = Lost(inode[k])
    OBVIOUS
  <2>2. inode[k] \in File /\ inode[k].synced <= Len(inode[k].data)
    BY <1>k, Zenon
  <2> QED
    BY ONLY <2>1, <2>2, KeptIsKept
<1>4. inode' \in Seq(File) /\ Len(inode') = Len(inode)
  <2>1. inode' \in [1 .. Len(inode) -> File]
    BY <1>3
  <2> QED
    BY <1>1, <2>1
<1>5. Files'
  BY <1>1, <1>2, <1>3, <1>4 DEF Files
<1>6. OneName'
  <2>1. \A y, z \in DOMAIN d : d[y] = d[z] => Alike(y, z)
    BY <1>d DEF FilesOK, OneName
  <2> QED
    BY <1>2, <2>1 DEF OneName, Alike, CURRENT
<1>7. CurrentStays'
  <2>1. CURRENT \in DOMAIN d => \A y \in DOMAIN d : y # CURRENT => d[y] # d[CURRENT]
    BY <1>d DEF FilesOK, CurrentStays
  <2> QED
    BY <1>2, <2>1 DEF CurrentStays, CURRENT
<1>8. DurableAt(p) \in Durables
  BY DEF Durables
<1>9. Now' = DurableAt(p)
  <2>1. Now' = [y \in DOMAIN d |-> inode'[d[y]].data]
    BY <1>2 DEF Now
  <2>2. DurableAt(p) = [y \in DOMAIN d |-> Kept(inode[d[y]])]
    BY <1>d DEF DurableAt
  <2> QED
    BY <1>1, <1>3, <2>1, <2>2
<1>10. Durable' = DurableAt(p)
  <2>1. Durable' = [y \in DOMAIN d |-> Kept(inode'[d[y]])]
    BY <1>2 DEF Durable, Kept
  <2>2. DurableAt(p) = [y \in DOMAIN d |-> Kept(inode[d[y]])]
    BY <1>d DEF DurableAt
  <2> QED
    BY <1>1, <1>3, <2>1, <2>2
<1>11. Durables' = {Durable'}
  <2>1. Durables' = {[y \in DOMAIN dirs'[i] |-> Kept(inode'[dirs'[i][y]])] : i \in 1 .. 1}
    BY <1>2 DEF Durables, DurableAt, Kept
  <2>2. Durable' = [y \in DOMAIN d |-> Kept(inode'[d[y]])]
    BY <1>2 DEF Durable, Kept
  <2>3. [y \in DOMAIN dirs'[1] |-> Kept(inode'[dirs'[1][y]])] = Durable'
    BY <1>2, <2>2
  <2>4. 1 .. 1 = {1}
    OBVIOUS
  <2> QED
    BY ONLY <2>1, <2>3, <2>4
<1> QED
  BY <1>5, <1>6, <1>7, <1>8, <1>9, <1>10, <1>11 DEF FilesOK

\* With one directory there is one view after a power failure.
LEMMA OneView ==
    ASSUME FilesOK, Len(dirs) = 1
    PROVE  Durables = {Durable}
<1>1. dir = dirs[1] /\ Durables = {DurableAt(i) : i \in 1 .. 1}
  BY DEF dir, Last, Durables
<1>2. DurableAt(1) = Durable
  BY <1>1 DEF DurableAt, Durable
<1>3. 1 .. 1 = {1}
  OBVIOUS
<1> QED
  BY ONLY <1>1, <1>2, <1>3

-----------------------------------------------------------------------------
(***************************************************************************)
(* What a view says                                                        *)
(***************************************************************************)
\* The manifest that CURRENT names, its records, and the last number in it.
Called(V) == V[CURRENT][1]
LogOf(V) == V[Descriptor(Called(V))]
LastNext(es) == es[Len(es)].next

\* A manifest es of number n: what it says is in T, a table that it names is the one
\* it was if it is there, and no number is yet to be given.
Sound(V, es, n, T) ==
    /\ es \in Seq(Record) /\ n < LastNext(es) /\ Replay(es) \in T
    /\ \A t \in Replay(es) :
        /\ t.number < LastNext(es)
        /\ Table(t.number) \in DOMAIN V => V[Table(t.number)] = <<t.stamp>>

\* All tables that the manifest names are there.
Complete(V) ==
    CURRENT \in DOMAIN V /\ LogOf(V) # << >> =>
        \A t \in Replay(LogOf(V)) : Table(t.number) \in DOMAIN V

\* A database that can be opened; or, if it need not be there, one that Open will
\* make or find corrupt.
Good(V, T, created) ==
    /\ CURRENT \notin DOMAIN V => ~created /\ {} \in T
    /\ CURRENT \in DOMAIN V =>
        /\ V[CURRENT] = <<Called(V)>> /\ Called(V) \in Nat
        /\ Descriptor(Called(V)) \in DOMAIN V
        /\ created => LogOf(V) # << >>
        /\ LogOf(V) # << >> => Sound(V, LogOf(V), Called(V), T)

\* All numbers of a view are below n.
Below(V, n) ==
    CURRENT \in DOMAIN V =>
        Called(V) < n /\ (LogOf(V) # << >> => LastNext(LogOf(V)) <= n)

\* Names that no view with numbers below n needs.
Free(x, n) ==
    \/ \E m : x = Temp(m)
    \/ \E m \in Nat : n <= m /\ (x = Table(m) \/ x = Descriptor(m))

\* A view does not need the names G.
Spares(G, V) ==
    /\ CURRENT \notin G
    /\ CURRENT \in DOMAIN V =>
        /\ Descriptor(Called(V)) \notin G
        /\ LogOf(V) # << >> => \A t \in Replay(LogOf(V)) : Table(t.number) \notin G

ButIn(G, V, W) ==
    \A y : y \notin G => /\ y \in DOMAIN W <=> y \in DOMAIN V
                         /\ y \in DOMAIN V => W[y] = V[y]

\* Two views say the same.
Same(V, W) ==
    /\ CURRENT \in DOMAIN W <=> CURRENT \in DOMAIN V
    /\ CURRENT \in DOMAIN V => W[CURRENT] = V[CURRENT] /\ LogOf(W) = LogOf(V)

LEMMA NamesDiffer ==
    ASSUME NEW m, NEW n
    PROVE  /\ CURRENT # Descriptor(m) /\ CURRENT # Table(m) /\ CURRENT # Temp(m)
           /\ Descriptor(m) # Table(n) /\ Descriptor(m) # Temp(n) /\ Table(m) # Temp(n)
           /\ Descriptor(m) = Descriptor(n) => m = n
           /\ Table(m) = Table(n) => m = n
           /\ Temp(m)[1] = "dbtmp"
BY DEF CURRENT, Descriptor, Table, Temp

LEMMA NamesAreNames ==
    ASSUME NEW m \in Nat
    PROVE  Descriptor(m) \in Name /\ Table(m) \in Name /\ Temp(m) \in Name
BY DEF Descriptor, Table, Temp, Name

LEMMA LogFacts ==
    ASSUME NEW es \in Seq(Record), es # << >>
    PROVE  /\ Len(es) \in Nat \ {0} /\ DOMAIN es = 1 .. Len(es)
           /\ \A i \in 1 .. Len(es) : es[i] \in Record
           /\ LastNext(es) \in Nat
<1>1. Len(es) \in Nat \ {0} /\ DOMAIN es = 1 .. Len(es)
  BY EmptySeq, LenProperties
<1>2. \A i \in 1 .. Len(es) : es[i] \in Record
  BY ElementOfSeq
<1>3. Len(es) \in 1 .. Len(es)
  BY <1>1
<1> QED
  BY <1>1, <1>2, <1>3 DEF LastNext, Record

\* The tables that a manifest names are items.
LEMMA ReplayType ==
    ASSUME NEW es \in Seq(Record)
    PROVE  Replay(es) \subseteq Item
<1>1. DOMAIN es = 1 .. Len(es) /\ \A i \in 1 .. Len(es) : es[i] \in Record
  BY LenProperties, ElementOfSeq
<1>2. \A i \in DOMAIN es : es[i].add \subseteq Item
  BY <1>1 DEF Record
<1> QED
  BY <1>2 DEF Replay, ReplayAdded

LEMMA SoundIfThere ==
    ASSUME NEW V, NEW es \in Seq(Record), NEW n, NEW T, n < LastNext(es), Replay(es) \in T,
           \A t \in Replay(es) : t.number < LastNext(es) /\ Holds(V, Table(t.number), <<t.stamp>>)
    PROVE  Sound(V, es, n, T)
BY DEF Sound, Holds

\* A view that differs in names that are not needed says the same.
LEMMA Frame ==
    ASSUME NEW V, NEW W, NEW G, NEW T, NEW U, NEW c \in BOOLEAN,
           Good(V, T, c), Spares(G, V), ButIn(G, V, W), T \subseteq U
    PROVE  Good(W, U, c) /\ Same(V, W)
<1>1. CURRENT \in DOMAIN W <=> CURRENT \in DOMAIN V
  BY DEF ButIn, Spares
<1>2. CASE CURRENT \notin DOMAIN V
  BY <1>1, <1>2 DEF Good, Same
<1>3. CASE CURRENT \in DOMAIN V
  <2>1. W[CURRENT] = V[CURRENT] /\ Called(W) = Called(V)
    BY <1>3 DEF ButIn, Spares, Called
  <2>2. LogOf(W) = LogOf(V) /\ Descriptor(Called(V)) \in DOMAIN W
    BY <1>3, <2>1 DEF ButIn, Spares, LogOf, Good
  <2>3. ASSUME LogOf(V) # << >>
        PROVE  Sound(W, LogOf(V), Called(V), U)
    <3>1. Sound(V, LogOf(V), Called(V), T)
      BY <1>3, <2>3 DEF Good
    <3>2. \A t \in Replay(LogOf(V)) : Table(t.number) \notin G
      BY <1>3, <2>3 DEF Spares
    <3>3. \A t \in Replay(LogOf(V)) :
            Table(t.number) \in DOMAIN W => W[Table(t.number)] = <<t.stamp>>
      BY <3>1, <3>2 DEF Sound, ButIn
    <3> QED
      BY <3>1, <3>3 DEF Sound
  <2>4. Good(W, U, c)
    BY <1>1, <1>3, <2>1, <2>2, <2>3 DEF Good
  <2> QED
    BY <1>1, <2>1, <2>2, <2>4 DEF Same
<1> QED
  BY <1>2, <1>3

\* It has the tables that the other one has.
LEMMA FrameComplete ==
    ASSUME NEW V, NEW W, NEW G, Complete(V), Spares(G, V), ButIn(G, V, W), Same(V, W)
    PROVE  Complete(W)
<1> SUFFICES ASSUME CURRENT \in DOMAIN W, LogOf(W) # << >>, NEW t \in Replay(LogOf(W))
             PROVE  Table(t.number) \in DOMAIN W
  BY DEF Complete
<1>1. CURRENT \in DOMAIN V /\ LogOf(V) = LogOf(W)
  BY DEF Same
<1>2. Table(t.number) \in DOMAIN V /\ Table(t.number) \notin G
  BY <1>1 DEF Complete, Spares
<1> QED
  BY <1>2 DEF ButIn

\* A view from which files are deleted, but not its manifest, says the same.
LEMMA FrameDrop ==
    ASSUME NEW V, NEW W, NEW G, NEW T, NEW c \in BOOLEAN, Good(V, T, c),
           CURRENT \in DOMAIN V, CURRENT \notin G, Descriptor(Called(V)) \notin G,
           DOMAIN W = DOMAIN V \ G, \A y \in DOMAIN V \ G : W[y] = V[y]
    PROVE  Good(W, T, c) /\ Same(V, W)
<1>1. CURRENT \in DOMAIN W /\ W[CURRENT] = V[CURRENT] /\ Called(W) = Called(V)
  BY DEF Called
<1>2. Descriptor(Called(V)) \in DOMAIN W /\ LogOf(W) = LogOf(V)
  BY <1>1 DEF LogOf, Good
<1>3. ASSUME LogOf(V) # << >>
      PROVE  Sound(W, LogOf(V), Called(V), T)
  <2>1. Sound(V, LogOf(V), Called(V), T)
    BY <1>3 DEF Good
  <2> QED
    BY <2>1 DEF Sound
<1>4. Good(W, T, c)
  BY <1>1, <1>2, <1>3 DEF Good
<1> QED
  BY <1>1, <1>2, <1>4 DEF Same

LEMMA FreeIsSpared ==
    ASSUME NEW V, NEW T, NEW c, Good(V, T, c), NEW n \in Nat, Below(V, n),
           NEW G, \A x \in G : Free(x, n)
    PROVE  Spares(G, V)
<1>1. CURRENT \notin G
  BY NamesDiffer DEF Free
<1>2. CASE CURRENT \in DOMAIN V
  <2>1. Called(V) \in Nat /\ Called(V) < n
    BY <1>2 DEF Good, Below
  <2>2. Descriptor(Called(V)) \notin G
    BY <2>1, NamesDiffer DEF Free
  <2>3. ASSUME LogOf(V) # << >>, NEW t \in Replay(LogOf(V))
        PROVE  Table(t.number) \notin G
    <3>1. LogOf(V) \in Seq(Record) /\ t.number < LastNext(LogOf(V)) /\ LastNext(LogOf(V)) <= n
      BY <1>2, <2>3 DEF Good, Sound, Below
    <3>2. t.number \in Nat /\ LastNext(LogOf(V)) \in Nat
      BY <3>1, <2>3, ReplayType, LogFacts DEF Item
    <3>3. t.number < n
      BY <3>1, <3>2
    <3> QED
      BY <3>2, <3>3, NamesDiffer DEF Free
  <2> QED
    BY <1>1, <2>2, <2>3 DEF Spares
<1>3. CASE CURRENT \notin DOMAIN V
  BY <1>1, <1>3 DEF Spares
<1> QED
  BY <1>2, <1>3

LEMMA SameBelow ==
    ASSUME NEW V, NEW W, NEW n, Same(V, W), Below(V, n)
    PROVE  Below(W, n)
BY DEF Same, Below, Called

\* One more record takes its deletions from what there was and adds its tables.
LEMMA ReplayMore ==
    ASSUME NEW es \in Seq(Record), NEW e \in Record
    PROVE  /\ Append(es, e) \in Seq(Record) /\ Append(es, e) # << >>
           /\ LastNext(Append(es, e)) = e.next
           /\ Replay(Append(es, e)) = (Replay(es) \ e.del) \cup e.add
<1> DEFINE n == Len(es)
           as == Append(es, e)
<1>1. /\ n \in Nat /\ DOMAIN es = 1 .. n /\ as \in Seq(Record) /\ as # << >> /\ Len(as) = n + 1
      /\ \A i \in 1 .. n : as[i] = es[i]
      /\ as[n + 1] = e
  BY AppendProperties, LenProperties
<1>2. DOMAIN as = 1 .. n + 1
  BY <1>1, LenProperties
<1> HIDE DEF as, n
<1>3. LastNext(as) = e.next
  BY <1>1 DEF LastNext
<1>4. ASSUME NEW t \in Replay(as)
      PROVE  t \in (Replay(es) \ e.del) \cup e.add
  <2>1. PICK i \in 1 .. n + 1 : t \in as[i].add /\ \A j \in i + 1 .. n + 1 : t \notin as[j].del
    BY <1>1, <1>2, <1>4 DEF Replay
  <2>2. CASE i = n + 1
    BY <1>1, <2>1, <2>2
  <2>3. CASE i \in 1 .. n
    <3>0. ASSUME NEW j \in i + 1 .. n
          PROVE  t \notin es[j].del
      <4>1. j \in 1 .. n /\ j \in i + 1 .. n + 1
        BY <1>1
      <4> QED
        BY <1>1, <2>1, <4>1
    <3>1. t \in es[i].add /\ \A j \in i + 1 .. n : t \notin es[j].del
      BY <1>1, <2>1, <2>3, <3>0
    <3>2. t \notin e.del
      <4>1. n + 1 \in i + 1 .. n + 1
        BY <1>1, <2>3
      <4> QED
        BY <1>1, <2>1, <4>1
    <3>3. Len(es) = n
      BY DEF n
    <3>4. t \in Replay(es)
      BY <1>1, <2>3, <3>1, <3>3 DEF Replay, ReplayAdded
    <3> QED
      BY <3>2, <3>4
  <2> QED
    BY <1>1, <2>1, <2>2, <2>3
<1>5. ASSUME NEW t \in Replay(es), t \notin e.del
      PROVE  t \in Replay(as)
  <2>1. Len(es) = n
    BY DEF n
  <2>2. PICK i \in 1 .. n : t \in es[i].add /\ \A j \in i + 1 .. n : t \notin es[j].del
    BY <1>1, <1>5, <2>1 DEF Replay
  <2>3. t \in as[i].add /\ \A j \in i + 1 .. n + 1 : t \notin as[j].del
    <3>1. ASSUME NEW j \in i + 1 .. n + 1
          PROVE  t \notin as[j].del
      <4>1. CASE j = n + 1
        BY <4>1, <1>1, <1>5
      <4>2. CASE j # n + 1
        <5>1. j \in 1 .. n /\ j \in i + 1 .. n
          BY <4>2, <1>1
        <5> QED
          BY <5>1, <1>1, <2>2
      <4> QED
        BY <4>1, <4>2
    <3> QED
      BY <1>1, <2>2, <3>1
  <2>4. i \in 1 .. n + 1
    BY <1>1
  <2> QED
    BY <1>1, <1>2, <2>3, <2>4 DEF Replay, ReplayAdded
<1>6. ASSUME NEW t \in e.add
      PROVE  t \in Replay(as)
  <2>1. n + 1 \in 1 .. n + 1 /\ \A j \in n + 1 + 1 .. n + 1 : FALSE
    BY <1>1
  <2> QED
    BY <1>1, <1>2, <1>6, <2>1 DEF Replay, ReplayAdded
<1>7. Replay(as) = (Replay(es) \ e.del) \cup e.add
  BY <1>4, <1>5, <1>6
<1> QED
  BY <1>1, <1>3, <1>7 DEF as

LEMMA ReplayOne ==
    ASSUME NEW e \in Record
    PROVE  /\ <<e>> \in Seq(Record) /\ <<e>> # << >> /\ LastNext(<<e>>) = e.next
           /\ Replay(<<e>>) = e.add
<1>1. <<e>> \in Seq(Record) /\ <<e>> # << >> /\ Len(<<e>>) = 1 /\ <<e>>[1] = e
      /\ DOMAIN <<e>> = 1 .. 1
  OBVIOUS
<1> QED
  BY <1>1 DEF LastNext, Replay, ReplayAdded

\* A new manifest: a snapshot and then an edit.
LEMMA ReplayTwo ==
    ASSUME NEW d \in Record, NEW e \in Record
    PROVE  /\ <<d, e>> \in Seq(Record) /\ <<d, e>> # << >> /\ LastNext(<<d, e>>) = e.next
           /\ Replay(<<d, e>>) = (d.add \ e.del) \cup e.add
           /\ <<d, e>> = Append(<<d>>, e)
<1>1. <<d, e>> = Append(<<d>>, e)
  OBVIOUS
<1> QED
  BY <1>1, ReplayOne, ReplayMore

\* Recover takes the last number of a manifest.
LEMMA NextFileIsLast ==
    ASSUME NEW es \in Seq(Record), es # << >>, LastNext(es) # 0
    PROVE  Numbers(es) # {} /\ NextFile(es) = LastNext(es)
<1> DEFINE n == Len(es)
<1>1. n \in Nat \ {0} /\ DOMAIN es = 1 .. n /\ \A i \in 1 .. n : es[i] \in Record
  BY LogFacts
<1>2. ToSet(es) = {es[i] : i \in 1 .. n}
  BY <1>1 DEF ToSet
<1>3. n \in 1 .. n /\ es[n].next = LastNext(es)
  BY <1>1 DEF LastNext
<1> HIDE DEF n
<1>4. LastNext(es) \in Numbers(es)
  BY <1>2, <1>3 DEF Numbers
<1>5. Len(es) = n
  BY DEF n
<1>6. \A j \in n + 1 .. n : FALSE
  BY <1>1
<1>7. \E i \in 1 .. n : es[i].next = LastNext(es) /\ \A j \in i + 1 .. n : es[j].next = 0
  BY <1>3, <1>6
<1>8. ASSUME NEW m, NEW i \in 1 .. n, es[i].next = m, \A j \in i + 1 .. n : es[j].next = 0
      PROVE  m = LastNext(es)
  <2>1. CASE i = n
    BY <2>1, <1>3, <1>8
  <2>2. CASE i # n
    <3>1. n \in i + 1 .. n
      BY <2>2, <1>1
    <3> QED
      BY <3>1, <1>3, <1>8
  <2> QED
    BY <2>1, <2>2
<1> QED
  BY <1>4, <1>5, <1>7, <1>8 DEF NextFile

-----------------------------------------------------------------------------
(***************************************************************************)
(* The invariant of the views                                              *)
(***************************************************************************)
Opens == CURRENT \in DOMAIN Now /\ LogOf(Now) # << >>
Bound == LastNext(LogOf(Now))

\* Every view is good, none has a number beyond those of the present manifest,
\* and the tables of that one have been synced.
Goods ==
    /\ \A V \in Durables : Good(V, tried, scope.created)
    /\ Good(Now, tried, scope.created)
    /\ Opens => /\ \A V \in Durables : Below(V, Bound)
                /\ \A t \in Replay(LogOf(Now)) :
                    Table(t.number) \in DOMAIN Now => Holds(Durable, Table(t.number), <<t.stamp>>)

\* The tables are there, now and after a power failure; but an Open that went on
\* with records that are not synced may have deleted what would be named without
\* them.
Relied ==
    /\ reliance \in {"none", "unsynced", "lost"}
    /\ reliance # "lost" => Complete(Now)
    /\ reliance = "none" => \A V \in Durables : Complete(V)
    /\ reliance = "lost" => Durables = {Now}

Views == Goods /\ Relied

\* A name that no view needs.
Unused(x) == x # CURRENT /\ (CURRENT \in DOMAIN dir => Opens /\ Free(x, Bound))

LEMMA OpensFacts ==
    ASSUME Views, Opens
    PROVE  /\ LogOf(Now) \in Seq(Record) /\ LogOf(Now) # << >> /\ Bound \in Nat
           /\ Called(Now) \in Nat /\ Called(Now) < Bound
           /\ Now[CURRENT] = <<Called(Now)>> /\ Descriptor(Called(Now)) \in DOMAIN Now
           /\ Replay(LogOf(Now)) \in tried /\ Replay(LogOf(Now)) \subseteq Item
           /\ \A t \in Replay(LogOf(Now)) :
                /\ t.number \in Nat /\ t.number < Bound
                /\ Complete(Now) => /\ Holds(Now, Table(t.number), <<t.stamp>>)
                                    /\ Holds(Durable, Table(t.number), <<t.stamp>>)
           /\ Below(Now, Bound)
           /\ reliance # "lost" => Complete(Now)
<1>1. /\ LogOf(Now) # << >> /\ Sound(Now, LogOf(Now), Called(Now), tried)
      /\ Called(Now) \in Nat /\ Now[CURRENT] = <<Called(Now)>>
      /\ Descriptor(Called(Now)) \in DOMAIN Now
  BY DEF Views, Goods, Opens, Good
<1>2. LogOf(Now) \in Seq(Record) /\ Called(Now) < Bound /\ Replay(LogOf(Now)) \in tried
      /\ \A t \in Replay(LogOf(Now)) :
            /\ t.number < Bound
            /\ Table(t.number) \in DOMAIN Now => Now[Table(t.number)] = <<t.stamp>>
  BY <1>1 DEF Sound, Bound
<1>3. Bound \in Nat
  BY <1>1, <1>2, LogFacts DEF Bound
<1>4. Replay(LogOf(Now)) \subseteq Item
  BY <1>2, ReplayType
<1>5. \A t \in Replay(LogOf(Now)) : t.number \in Nat
  BY <1>4 DEF Item
<1>6. Below(Now, Bound)
  BY <1>2, <1>3 DEF Below, Bound
<1>7. \A t \in Replay(LogOf(Now)) :
        Complete(Now) => /\ Holds(Now, Table(t.number), <<t.stamp>>)
                         /\ Holds(Durable, Table(t.number), <<t.stamp>>)
  BY <1>2 DEF Views, Goods, Complete, Holds, Opens
<1>8. reliance # "lost" => Complete(Now)
  BY DEF Views, Relied
<1> QED
  BY <1>1, <1>2, <1>3, <1>4, <1>5, <1>6, <1>7, <1>8

LEMMA UnusedIsSpared ==
    ASSUME FilesOK, Views, NEW G, \A x \in G : Unused(x)
    PROVE  /\ Spares(G, Now) /\ Spares(G, Durable) /\ \A V \in Durables : Spares(G, V)
           /\ CURRENT \notin G
<1>0. /\ Durable \in Durables /\ DOMAIN Now = DOMAIN dir
      /\ \A V \in Durables : CURRENT \notin DOMAIN dir => CURRENT \notin DOMAIN V
  BY ViewFacts, CurrentIsNew DEF FilesOK
<1>1. CURRENT \notin G
  BY DEF Unused
<1>2. CASE CURRENT \notin DOMAIN dir
  BY <1>0, <1>1, <1>2 DEF Spares
<1>3. CASE CURRENT \in DOMAIN dir /\ G # {}
  <2>1. Opens /\ \A x \in G : Free(x, Bound)
    BY <1>3 DEF Unused
  <2>2. Bound \in Nat /\ Below(Now, Bound)
    BY <2>1, OpensFacts
  <2>3. /\ Good(Now, tried, scope.created)
        /\ \A V \in Durables : Good(V, tried, scope.created) /\ Below(V, Bound)
    BY <2>1 DEF Views, Goods
  <2>4. Spares(G, Now)
    BY <2>1, <2>2, <2>3, FreeIsSpared
  <2>5. \A V \in Durables : Spares(G, V)
    BY <2>1, <2>2, <2>3, FreeIsSpared
  <2> QED
    BY <1>0, <1>1, <2>4, <2>5
<1>4. CASE G = {}
  BY <1>0, <1>4 DEF Spares
<1> QED
  BY <1>2, <1>3, <1>4

\* A step that changes only what the views do not need.
LEMMA QuietStep ==
    ASSUME FilesOK, Views, NEW G, Spares(G, Now), Spares(G, Durable),
           scope.created \in BOOLEAN, scope' = scope, tried \subseteq tried',
           reliance # "lost", reliance' = reliance,
           ButIn(G, Now, Now'), ButIn(G, Durable, Durable'),
           \A W \in Durables' : \E V \in Durables : W = V \/ (Spares(G, V) /\ ButIn(G, V, W))
    PROVE  /\ Views' /\ Same(Now, Now') /\ Same(Durable, Durable')
           /\ Opens' <=> Opens
           /\ Opens => Bound' = Bound /\ LogOf(Now') = LogOf(Now) /\ Called(Now') = Called(Now)
<1>1. Good(Now, tried, scope.created) /\ \A V \in Durables : Good(V, tried, scope.created)
  BY DEF Views, Goods
<1>2. Good(Now', tried', scope'.created) /\ Same(Now, Now')
  BY <1>1, Frame
<1>3. Same(Durable, Durable')
  <2>1. Good(Durable, tried, scope.created)
    BY <1>1, ViewFacts DEF FilesOK
  <2> QED
    BY <2>1, Frame
<1>4. ASSUME NEW V \in Durables, NEW W, W = V \/ (Spares(G, V) /\ ButIn(G, V, W))
      PROVE  /\ Good(W, tried', scope'.created) /\ Same(V, W)
             /\ Complete(V) => Complete(W)
  <2>1. ButIn({}, V, V) /\ Spares({}, V)
    BY DEF ButIn, Spares
  <2>2. CASE W = V
    BY <1>1, <2>1, <2>2, Frame
  <2>3. CASE Spares(G, V) /\ ButIn(G, V, W)
    BY <1>1, <2>3, Frame, FrameComplete
  <2> QED
    BY <1>4, <2>2, <2>3
<1>5. \A W \in Durables' : \E V \in Durables :
        Good(W, tried', scope'.created) /\ Same(V, W) /\ (Complete(V) => Complete(W))
  BY <1>4
<1>6. /\ Opens' <=> Opens
      /\ Opens => Bound' = Bound /\ LogOf(Now') = LogOf(Now) /\ Called(Now') = Called(Now)
  <2>1. CURRENT \in DOMAIN Now' <=> CURRENT \in DOMAIN Now
    BY <1>2 DEF Same
  <2>2. CURRENT \in DOMAIN Now => LogOf(Now') = LogOf(Now) /\ Called(Now') = Called(Now)
    BY <1>2 DEF Same, Called
  <2> QED
    BY <2>1, <2>2 DEF Opens, Bound
<1>7. ASSUME Opens'
      PROVE  /\ \A W \in Durables' : Below(W, Bound')
             /\ \A t \in Replay(LogOf(Now')) :
                    Table(t.number) \in DOMAIN Now' => Holds(Durable', Table(t.number), <<t.stamp>>)
  <2>1. Opens /\ Bound' = Bound /\ LogOf(Now') = LogOf(Now)
    BY <1>6, <1>7
  <2>2. \A V \in Durables : Below(V, Bound)
    BY <2>1 DEF Views, Goods
  <2>3. \A W \in Durables' : Below(W, Bound)
    BY <1>5, <2>2, SameBelow
  <2>4. \A t \in Replay(LogOf(Now)) : Holds(Durable, Table(t.number), <<t.stamp>>)
    BY <2>1, OpensFacts
  <2>5. \A t \in Replay(LogOf(Now)) : Table(t.number) \notin G
    BY <2>1 DEF Spares, Opens
  <2>6. \A t \in Replay(LogOf(Now)) : Holds(Durable', Table(t.number), <<t.stamp>>)
    BY <2>4, <2>5 DEF Holds, ButIn
  <2> QED
    BY <2>1, <2>3, <2>6
<1>8. Goods'
  BY <1>2, <1>5, <1>7 DEF Goods, Bound
<1>9. Complete(Now')
  BY <1>2, FrameComplete DEF Views, Relied
<1>10. Relied'
  BY <1>5, <1>9 DEF Views, Relied
<1> QED
  BY <1>2, <1>3, <1>6, <1>8, <1>10 DEF Views

-----------------------------------------------------------------------------
(***************************************************************************)
(* What the database has done at each place                                *)
(***************************************************************************)
MemoryOK ==
    /\ scope \in [created : BOOLEAN, reuse : SUBSET BOOLEAN]
    /\ version \subseteq Item /\ nextFile \in 2 .. MaxNumber
    /\ manifest \in Nat /\ descriptor \in Nat /\ stamp \in Nat
    /\ edit \in Record /\ fresh \in BOOLEAN
    /\ \A t \in version : t.number < nextFile

\* descriptor_file_ is the manifest of that number.
Described == Descriptor(manifest) \in DOMAIN dir /\ descriptor = dir[Descriptor(manifest)]

\* The present manifest is the one that CURRENT names.
Serving == Opens /\ Now[CURRENT] = <<manifest>> /\ Described

\* NewDB is under way: nobody has seen a database yet.
Making ==
    /\ fresh /\ descriptor = 0 /\ manifest = 1 /\ CURRENT \notin DOMAIN dir
    /\ version = {} /\ edit = NoEdit /\ nextFile = 2

\* A new manifest is under way, of which CURRENT knows nothing yet.
Renewing ==
    /\ fresh /\ Opens /\ Bound = manifest /\ version = Replay(LogOf(Now))
    /\ edit = [add |-> {}, del |-> {}, next |-> manifest + 2] /\ nextFile = manifest + 2
Snapshot == [add |-> version, del |-> {}, next |-> 0]

\* A new table is being recorded.
NewTable == [number |-> nextFile - 1, stamp |-> stamp]
Recording ==
    /\ ~fresh /\ Serving
    /\ edit.add = {NewTable} /\ edit.next = nextFile
    /\ \A t \in version : t.number < nextFile - 1
    /\ Holds(Now, Table(nextFile - 1), <<stamp>>)
Unrecorded == version = Replay(LogOf(Now)) /\ Bound < nextFile
Edited == (version \ edit.del) \cup edit.add

\* SetCurrentFile: the manifest that CURRENT shall name is complete and, but for
\* that of NewDB, synced.
FirstRecord == [add |-> {}, del |-> {}, next |-> 2]
FirstMade ==
    /\ Making /\ Holds(Now, Descriptor(1), <<FirstRecord>>)
    /\ Holds(Durable, Descriptor(1), << >>)
Renewed ==
    /\ descriptor # 0 /\ Renewing /\ Described
    /\ Holds(Now, Descriptor(manifest), <<Snapshot, edit>>)
    /\ Holds(Durable, Descriptor(manifest), <<Snapshot, edit>>)
Setting == FirstMade \/ Renewed

AtNew == /\ ~fresh /\ descriptor = 0 /\ CURRENT \notin DOMAIN dir
         /\ version = {} /\ edit = NoEdit /\ nextFile = 2
AtNewRecord == /\ Making /\ Holds(Now, Descriptor(1), << >>)
               /\ Holds(Durable, Descriptor(1), << >>)
AtSyncTemp == Setting /\ Holds(Now, Temp(manifest), <<manifest>>)
AtRename == /\ Setting /\ Holds(Now, Temp(manifest), <<manifest>>)
            /\ Holds(Durable, Temp(manifest), <<manifest>>)
AtRecover == CURRENT \in DOMAIN dir /\ version = {} /\ descriptor = 0
AtSnapshot == Renewing /\ descriptor = 0
AtAddRecord ==
    \/ Renewing /\ Described /\ Holds(Now, Descriptor(manifest), <<Snapshot>>)
    \/ Recording /\ Unrecorded /\ Holds(Durable, Table(nextFile - 1), <<stamp>>)
AtSync ==
    \/ Renewing /\ Described /\ Holds(Now, Descriptor(manifest), <<Snapshot, edit>>)
    \/ Recording /\ Edited = Replay(LogOf(Now)) /\ Bound = nextFile
Synced == Holds(Durable, CURRENT, <<manifest>>) /\ Holds(Durable, Descriptor(manifest), LogOf(Now))
AtInstall ==
    /\ Serving /\ Synced /\ Edited = Replay(LogOf(Now)) /\ Bound = nextFile
    /\ ~fresh => Len(dirs) = 1
AtOpen == ~fresh /\ Serving /\ version = Replay(LogOf(Now)) /\ Bound <= nextFile

\* The tables of the version are there.
TablesThere == \A t \in version : Holds(Now, Table(t.number), <<t.stamp>>)

Phase ==
    /\ pc = "new" => AtNew
    /\ pc = "newrecord" => AtNewRecord
    /\ pc = "settemp" => Setting
    /\ pc = "synctemp" => AtSyncTemp
    /\ pc = "rename" => AtRename
    /\ pc = "recover" => AtRecover
    /\ pc = "snapshot" => AtSnapshot
    /\ pc = "addrecord" => AtAddRecord
    /\ pc \in {"syncdir", "sync"} => AtSync
    /\ pc = "sync" => Len(dirs) = 1
    /\ pc = "install" => AtInstall
    /\ pc = "delete" => AtOpen /\ (reliance = "none" => Synced)
    /\ pc = "open" => AtOpen
    /\ pc = "synctable" => Recording /\ Unrecorded
    /\ pc = "failed" => ~fresh /\ (descriptor # 0 => Described)
    /\ pc = "corrupt" => ~scope.created \/ reliance = "lost"

Places == {"closed", "new", "newrecord", "settemp", "synctemp", "rename", "recover", "corrupt",
           "snapshot", "addrecord", "syncdir", "sync", "install", "delete", "open", "synctable",
           "failed"}

\* The inductive invariant.
Inv ==
    /\ FilesOK /\ MemoryOK /\ Views /\ pc \in Places /\ Phase
    /\ pc \notin {"closed", "new", "newrecord", "recover", "corrupt"} => TablesThere
    /\ reliance = "lost" => pc \in {"closed", "recover", "corrupt"}

-----------------------------------------------------------------------------
(***************************************************************************)
(* Every step keeps the invariant                                          *)
(***************************************************************************)
\* Nothing happens to the files.
LEMMA StillFiles ==
    ASSUME FilesOK, Views, UNCHANGED <<inode, dirs, scope, tried>>
    PROVE  /\ FilesOK' /\ Goods' /\ (reliance' = reliance => Views') /\ dir' = dir
           /\ Now' = Now /\ Durable' = Durable /\ Durables' = Durables
           /\ (Opens' <=> Opens) /\ Bound' = Bound
<1>1. dir' = dir /\ Now' = Now /\ Durable' = Durable
  BY DEF dir, Now, Durable, Kept
<1>2. Durables' = Durables
  BY DEF Durables, DurableAt, Kept
<1>3. FilesOK'
  BY DEF FilesOK, Files, OneName, CurrentStays
<1>4. (Opens' <=> Opens) /\ Bound' = Bound
  BY <1>1 DEF Opens, Bound
<1>5. Goods'
  BY <1>1, <1>2, <1>4 DEF Views, Goods
<1>6. reliance' = reliance => Views'
  BY <1>1, <1>2, <1>5 DEF Views, Relied
<1> QED
  BY <1>1, <1>2, <1>3, <1>4, <1>5, <1>6

\* What Recover reads.
LEMMA RecoverReads ==
    ASSUME FilesOK, Views, CURRENT \in DOMAIN dir
    PROVE  /\ Named = Called(Now) /\ Named \in Nat /\ Descriptor(Named) \in DOMAIN dir
           /\ Now[CURRENT] = <<Named>>
           /\ inode[dir[Descriptor(Named)]].data = LogOf(Now)
           /\ Readable <=> Opens
           /\ Opens => NextFile(LogOf(Now)) = Bound
           /\ Whole <=> Opens /\ Complete(Now)
<1>0. DOMAIN Now = DOMAIN dir /\ \A x \in DOMAIN dir : Now[x] = inode[dir[x]].data
  BY ViewFacts DEF FilesOK
<1>1. Now[CURRENT] = <<Called(Now)>> /\ Called(Now) \in Nat /\ Descriptor(Called(Now)) \in DOMAIN dir
  BY <1>0 DEF Views, Goods, Good
<1>2. Named = Called(Now)
  BY <1>0, <1>1 DEF Named
<1>3. inode[dir[Descriptor(Named)]].data = LogOf(Now)
  BY <1>0, <1>1, <1>2 DEF LogOf
<1>4. ASSUME Opens
      PROVE  Numbers(LogOf(Now)) # {} /\ NextFile(LogOf(Now)) = Bound
  <2>1. LogOf(Now) \in Seq(Record) /\ LogOf(Now) # << >> /\ LastNext(LogOf(Now)) # 0
    BY <1>4, OpensFacts DEF Bound
  <2> QED
    BY <2>1, NextFileIsLast DEF Bound
<1>5. ASSUME ~Opens
      PROVE  Numbers(LogOf(Now)) = {}
  <2>1. LogOf(Now) = << >>
    BY <1>0, <1>5 DEF Opens
  <2>2. ToSet(<< >>) = {}
    BY DEF ToSet
  <2> QED
    BY <2>1, <2>2 DEF Numbers
<1>6. Readable <=> Opens
  BY <1>1, <1>2, <1>3, <1>4, <1>5 DEF Readable
<1>7. Whole <=> Opens /\ Complete(Now)
  BY <1>0, <1>3, <1>6 DEF Whole, Complete, Opens
<1> QED
  BY <1>1, <1>2, <1>3, <1>4, <1>6, <1>7

\* CURRENT is never there without its contents.
LEMMA CurrentIsDurable ==
    ASSUME FilesOK, Views, CURRENT \in DOMAIN dir
    PROVE  Holds(Durable, CURRENT, Now[CURRENT])
<1> DEFINE f == inode[dir[CURRENT]]
<1>0. /\ DOMAIN Durable = DOMAIN dir /\ DOMAIN Now = DOMAIN dir /\ Durable \in Durables
      /\ Now[CURRENT] = f.data /\ Durable[CURRENT] = Kept(f)
  BY ViewFacts DEF FilesOK
<1>1. f \in File /\ f.synced <= Len(f.data)
  BY DirIsLast DEF FilesOK
<1> HIDE DEF f
<1>2. PICK m, n : f.data = <<m>> /\ Kept(f) = <<n>>
  BY <1>0 DEF Views, Goods, Good
<1>3. f.synced = Len(f.data)
  <2>1. Len(Kept(f)) = f.synced
    BY <1>1, KeptType
  <2>2. Len(<<m>>) = 1 /\ Len(<<n>>) = 1
    OBVIOUS
  <2> QED
    BY <1>2, <2>1, <2>2
<1>4. Kept(f) = f.data
  BY <1>1, <1>3, KeptOfAll
<1> QED
  BY <1>0, <1>4 DEF Holds

LEMMA InvInit ==
    ASSUME Init
    PROVE  Inv
<1> USE SettingAssumption
<1>1. MemoryOK /\ pc \in Places /\ Phase
  <2>1. NoEdit \in Record
    BY DEF NoEdit, Record
  <2>2. MemoryOK
    <3>1. scope \in [created : BOOLEAN, reuse : SUBSET BOOLEAN]
      BY DEF Init
    <3>2. 2 \in 2 .. MaxNumber
      OBVIOUS
    <3>3. /\ version = {} /\ nextFile = 2 /\ manifest = 0 /\ descriptor = 0 /\ stamp = 0
          /\ edit = NoEdit /\ fresh = FALSE
      BY DEF Init
    <3> QED
      BY ONLY <2>1, <3>1, <3>2, <3>3 DEF MemoryOK
  <2>3. pc = "closed"
    BY DEF Init
  <2> QED
    BY <2>2, <2>3 DEF Places, Phase
<1>2. CASE ~scope.created
  <2>1. inode = << >> /\ Len(inode) = 0 /\ dirs = <<[x \in {} |-> 0]>> /\ Len(dirs) = 1
        /\ dirs[1] = [x \in {} |-> 0] /\ DOMAIN dirs[1] = {}
    BY <1>2 DEF Init
  <2>2. [x \in {} |-> 0] \in [{} -> Nat] /\ {} \in SUBSET Name
    OBVIOUS
  <2>3. [x \in {} |-> 0] \in Directory
    BY <2>2 DEF Directory
  <2>4. FilesOK
    BY <2>1, <2>3 DEF FilesOK, Files, OneName, CurrentStays
  <2>5. DOMAIN Now = {} /\ \A V \in Durables : DOMAIN V = {}
    BY <2>1 DEF Now, Durables, DurableAt, dir, Last
  <2>6. Views
    BY <1>2, <2>5 DEF Views, Goods, Relied, Complete, Good, Opens, Init
  <2> QED
    BY <1>1, <2>4, <2>6 DEF Inv, Init
<1>3. CASE scope.created
  <2> DEFINE e == [add |-> {}, del |-> {}, next |-> 2]
  <2>1. inode = OldInodes /\ dirs = <<OldDir>> /\ tried = {{}}
    BY <1>3 DEF Init
  <2>2. /\ Len(inode) = 2 /\ inode[1] = [data |-> <<e>>, synced |-> 1]
        /\ inode[2] = [data |-> <<1>>, synced |-> 1]
    BY <2>1 DEF OldInodes
  <2>3. e \in Record /\ <<e>> \in Content /\ <<1>> \in Content
    BY DEF Record, Content
  <2>4. inode \in Seq(File)
    BY <2>1, <2>3 DEF OldInodes, File
  <2>5. CURRENT # Descriptor(1) /\ CURRENT \in Name /\ Descriptor(1) \in Name
    BY NamesDiffer, NamesAreNames DEF CURRENT, Name
  <2>6. /\ DOMAIN OldDir = {Descriptor(1), CURRENT}
        /\ OldDir[CURRENT] = 2 /\ OldDir[Descriptor(1)] = 1
    BY <2>5 DEF OldDir
  <2>7. OldDir \in Directory
    <3>1. OldDir \in [{Descriptor(1), CURRENT} -> Nat] /\ {Descriptor(1), CURRENT} \in SUBSET Name
      BY <2>5 DEF OldDir
    <3> QED
      BY <3>1 DEF Directory
  <2>8. Len(dirs) = 1 /\ dirs[1] = OldDir /\ dir = OldDir /\ dirs \in Seq(Directory) /\ dirs # << >>
    BY <2>1, <2>7 DEF dir, Last
  <2>9. FilesOK
    <3>1. \A i \in 1 .. Len(inode) : inode[i].synced <= Len(inode[i].data)
      BY <2>2
    <3>2. \A i \in 1 .. Len(dirs) : \A x \in DOMAIN dirs[i] : dirs[i][x] \in 1 .. Len(inode)
      BY <2>2, <2>6, <2>8
    <3>3. OneName
      BY <2>6, <2>8 DEF OneName, Alike
    <3>4. CurrentStays
      BY <2>6, <2>8 DEF CurrentStays
    <3> QED
      BY <2>4, <2>8, <3>1, <3>2, <3>3, <3>4 DEF FilesOK, Files
  <2>10. Kept(inode[1]) = <<e>> /\ Kept(inode[2]) = <<1>>
    <3>1. inode[1].data = <<e>> /\ inode[1].synced = 1 /\ inode[2].data = <<1>> /\ inode[2].synced = 1
      BY <2>2
    <3>2. Len(<<e>>) = 1 /\ Len(<<1>>) = 1
      OBVIOUS
    <3>3. inode[1] \in File /\ inode[2] \in File
      BY <2>2, <2>3 DEF File
    <3> HIDE DEF e
    <3> QED
      BY <3>1, <3>2, <3>3, KeptOfAll
  <2>11. /\ DOMAIN Now = {Descriptor(1), CURRENT} /\ Now[CURRENT] = <<1>> /\ Now[Descriptor(1)] = <<e>>
         /\ Durable = Now
    <3>1. inode[1].data = <<e>> /\ inode[2].data = <<1>>
      BY <2>2
    <3> HIDE DEF e
    <3>2. /\ Now = [x \in DOMAIN OldDir |-> inode[OldDir[x]].data]
          /\ Durable = [x \in DOMAIN OldDir |-> Kept(inode[OldDir[x]])]
      BY <2>8 DEF Now, Durable
    <3> QED
      BY <2>6, <2>10, <3>1, <3>2
  <2>12. Durables = {Durable}
    BY <2>8 DEF Durables, DurableAt, Durable
  <2>13. Called(Now) = 1 /\ LogOf(Now) = <<e>>
    BY <2>11 DEF Called, LogOf
  <2>14. <<e>> \in Seq(Record) /\ <<e>> # << >> /\ LastNext(<<e>>) = 2 /\ Replay(<<e>>) = {}
    <3>1. <<e>> \in Seq(Record) /\ <<e>> # << >> /\ LastNext(<<e>>) = e.next /\ Replay(<<e>>) = e.add
      BY <2>3, ReplayOne
    <3> QED
      BY <3>1
  <2> HIDE DEF e
  <2>15. Good(Now, tried, scope.created)
    BY <2>1, <2>11, <2>13, <2>14 DEF Good, Sound
  <2>16. Below(Now, Bound)
    BY <2>13, <2>14 DEF Below, Bound
  <2>17. Goods
    BY <2>11, <2>12, <2>13, <2>14, <2>15, <2>16 DEF Goods
  <2>18. Relied
    BY <2>11, <2>12, <2>13, <2>14 DEF Relied, Complete, Init
  <2> QED
    BY <1>1, <2>9, <2>17, <2>18 DEF Inv, Views, Init
<1> QED
  BY <1>2, <1>3

LEMMA InvOpen ==
    ASSUME Inv, Open
    PROVE  Inv'
<1> USE SettingAssumption DEF Open
<1>1. /\ FilesOK' /\ Goods' /\ (reliance' = reliance => Views') /\ dir' = dir
      /\ Now' = Now /\ Durables' = Durables
  BY StillFiles DEF Inv
<1>2. MemoryOK'
  <2>1. NoEdit \in Record /\ 2 \in 2 .. MaxNumber
    BY DEF NoEdit, Record
  <2>2. scope' \in [created : BOOLEAN, reuse : SUBSET BOOLEAN] /\ stamp' \in Nat
    BY DEF Inv, MemoryOK, past
  <2> QED
    BY <2>1, <2>2 DEF MemoryOK
<1>3. CASE CURRENT \in DOMAIN dir
  <2>1. pc' = "recover" /\ AtRecover'
    BY <1>1, <1>3 DEF AtRecover
  <2>2. Views'
    BY <1>1, <1>3
  <2> QED
    BY <1>1, <1>2, <2>1, <2>2 DEF Inv, Places, Phase
<1>4. CASE CURRENT \notin DOMAIN dir
  <2>1. pc' = "new" /\ AtNew'
    BY <1>1, <1>4 DEF AtNew
  <2>2. Relied' /\ reliance' = "none"
    <3>1. CURRENT \notin DOMAIN Now /\ \A V \in Durables : CURRENT \notin DOMAIN V
      BY <1>4, CurrentIsNew DEF Inv, Now
    <3> QED
      BY <1>1, <1>4, <3>1 DEF Relied, Complete
  <2> QED
    BY <1>1, <1>2, <2>1, <2>2 DEF Inv, Places, Phase, Views
<1> QED
  BY <1>3, <1>4

LEMMA InvRecover ==
    ASSUME Inv, Recover
    PROVE  Inv'
<1> USE SettingAssumption
<1>0. FilesOK /\ Views /\ MemoryOK /\ pc = "recover" /\ CURRENT \in DOMAIN dir
  BY DEF Inv, Phase, AtRecover, Recover
<1>1. /\ FilesOK' /\ Goods' /\ dir' = dir
      /\ Now' = Now /\ Durable' = Durable /\ Durables' = Durables /\ (Opens' <=> Opens) /\ Bound' = Bound
  BY <1>0, StillFiles DEF Recover
<1>3. /\ Opens /\ Named \in Nat /\ Now[CURRENT] = <<Named>> /\ Descriptor(Named) \in DOMAIN dir
      /\ inode[dir[Descriptor(Named)]].data = LogOf(Now)
      /\ NextFile(LogOf(Now)) = Bound /\ Complete(Now)
  BY <1>0, RecoverReads DEF Recover
<1>4. /\ Bound \in Nat /\ Bound > 0 /\ Replay(LogOf(Now)) \subseteq Item
      /\ \A t \in Replay(LogOf(Now)) :
            t.number \in Nat /\ t.number < Bound /\ Holds(Now, Table(t.number), <<t.stamp>>)
  BY <1>0, <1>3, OpensFacts
<1> DEFINE d == dir[Descriptor(Named)]
<1>5. /\ version' = Replay(LogOf(Now)) /\ nextFile' = Bound + 2 /\ Bound + 2 <= MaxNumber
      /\ \/ /\ manifest' = Named /\ descriptor' = d /\ pc' = "delete"
            /\ fresh' = FALSE /\ edit' = NoEdit
            /\ reliance' = IF d \in Unsynced THEN "unsynced" ELSE Found
         \/ /\ manifest' = Bound /\ descriptor' = 0 /\ pc' = "snapshot" /\ fresh' = TRUE
            /\ edit' = [NoEdit EXCEPT !.next = Bound + 2] /\ reliance' = Found
      /\ UNCHANGED <<scope, tried, stamp>>
  BY <1>3 DEF Recover
<1>6. MemoryOK'
  <2>1. d \in Nat
    BY <1>0, <1>3, DirIsLast DEF FilesOK
  <2>2. NoEdit \in Record /\ [NoEdit EXCEPT !.next = Bound + 2] \in Record
    BY <1>4 DEF NoEdit, Record
  <2>3. manifest' \in Nat /\ descriptor' \in Nat /\ edit' \in Record /\ fresh' \in BOOLEAN
    <3>1. 0 \in Nat /\ TRUE \in BOOLEAN /\ FALSE \in BOOLEAN
      OBVIOUS
    <3> HIDE DEF d
    <3> QED
      BY ONLY <1>3, <1>4, <1>5, <2>1, <2>2, <3>1, Zenon
  <2>4. nextFile' \in 2 .. MaxNumber /\ \A t \in version' : t.number < nextFile'
    <3>1. PICK b \in Nat : b = Bound
      BY <1>4
    <3>2. MaxNumber \in Nat
      OBVIOUS
    <3>3. nextFile' = b + 2 /\ b + 2 <= MaxNumber
      BY ONLY <1>5, <3>1
    <3>4. \A t \in version' : t.number \in Nat /\ t.number < b
      BY ONLY <1>4, <1>5, <3>1
    <3> QED
      BY ONLY <3>1, <3>2, <3>3, <3>4
  <2>5. scope' \in [created : BOOLEAN, reuse : SUBSET BOOLEAN] /\ stamp' \in Nat
    BY <1>0, <1>5 DEF MemoryOK
  <2> QED
    BY <1>4, <1>5, <2>3, <2>4, <2>5 DEF MemoryOK
<1>7. TablesThere'
  BY <1>1, <1>4, <1>5 DEF TablesThere
\* The tables are there, and if the power has failed before this is the only view.
<1>8. Relied' /\ reliance' # "lost"
  <2>1. /\ reliance \in {"none", "unsynced", "lost"}
        /\ reliance = "none" => \A V \in Durables : Complete(V)
        /\ reliance = "lost" => Durables = {Now}
    BY <1>0 DEF Views, Relied
  <2>2. /\ reliance' \in {"none", "unsynced"}
        /\ reliance' = "none" => reliance \in {"none", "lost"}
    BY <1>5, <2>1 DEF Found
  <2> QED
    BY <1>1, <1>3, <2>1, <2>2 DEF Relied
<1>9. Views'
  BY <1>1, <1>8 DEF Views
<1>10. CASE pc' = "delete"
  <2>1. /\ manifest' = Named /\ descriptor' = d /\ fresh' = FALSE
        /\ reliance' = IF d \in Unsynced THEN "unsynced" ELSE Found
    BY <1>5, <1>10
  <2>2. AtOpen'
    BY <1>1, <1>3, <1>4, <1>5, <2>1 DEF AtOpen, Serving, Described
  <2>3. ASSUME reliance' = "none"
        PROVE  Synced'
    <3>1. d \notin Unsynced
      BY <2>1, <2>3
    <3>2. /\ d \in 1 .. Len(inode) /\ inode[d] \in File /\ inode[d].synced <= Len(inode[d].data)
          /\ Descriptor(Named) \in DOMAIN Durable /\ Durable[Descriptor(Named)] = Kept(inode[d])
      BY <1>0, <1>3, DirIsLast, ViewFacts DEF FilesOK
    <3> HIDE DEF d
    <3>3. inode[d].synced \in Nat /\ Len(inode[d].data) \in Nat
      BY <3>2, LenProperties DEF File, Content
    <3>4. ~(inode[d].synced < Len(inode[d].data))
      BY <3>1, <3>2 DEF Unsynced
    <3>5. inode[d].synced = Len(inode[d].data)
      BY ONLY <3>2, <3>3, <3>4
    <3>6. Kept(inode[d]) = inode[d].data
      BY <3>2, <3>5, KeptOfAll
    <3>7. inode[d].data = LogOf(Now)
      BY <1>3 DEF d
    <3>8. Holds(Durable, Descriptor(Named), LogOf(Now))
      BY <3>2, <3>6, <3>7 DEF Holds
    <3>9. Holds(Durable, CURRENT, <<Named>>)
      BY <1>0, <1>3, CurrentIsDurable
    <3> QED
      BY <1>1, <2>1, <3>8, <3>9 DEF Synced
  <2> QED
    BY <1>1, <1>6, <1>7, <1>8, <1>9, <1>10, <2>2, <2>3 DEF Inv, Places, Phase
<1>11. CASE pc' = "snapshot"
  <2>1. /\ manifest' = Bound /\ descriptor' = 0 /\ fresh' = TRUE
        /\ edit' = [NoEdit EXCEPT !.next = Bound + 2]
    BY <1>5, <1>11
  <2>2. edit' = [add |-> {}, del |-> {}, next |-> Bound + 2]
    BY <2>1 DEF NoEdit
  <2>3. AtSnapshot'
    BY <1>1, <1>3, <1>5, <2>1, <2>2 DEF AtSnapshot, Renewing
  <2> QED
    BY <1>1, <1>6, <1>7, <1>8, <1>9, <1>11, <2>3 DEF Inv, Places, Phase
<1> QED
  BY <1>5, <1>10, <1>11

LEMMA InvCorrupted ==
    ASSUME Inv, Corrupted
    PROVE  Inv'
<1>0. FilesOK /\ Views /\ CURRENT \in DOMAIN dir
  BY DEF Inv, Phase, AtRecover, Corrupted
<1>1. FilesOK' /\ Views' /\ scope' = scope /\ reliance' = reliance /\ pc' = "corrupt"
  BY <1>0, StillFiles DEF Corrupted, past
<1>2. MemoryOK'
  BY DEF Inv, MemoryOK, Corrupted, mem, past
<1>3. (~Opens \/ ~Complete(Now)) /\ DOMAIN Now = DOMAIN dir
  BY <1>0, RecoverReads, ViewFacts DEF Corrupted, FilesOK
<1>4. CASE ~Opens
  <2>1. ~scope.created
    BY <1>0, <1>3, <1>4 DEF Views, Goods, Good, Opens
  <2> QED
    BY <1>1, <1>2, <2>1 DEF Inv, Places, Phase
<1>5. CASE ~Complete(Now)
  <2>1. reliance = "lost"
    BY <1>0, <1>5 DEF Views, Relied
  <2> QED
    BY <1>1, <1>2, <2>1 DEF Inv, Places, Phase
<1> QED
  BY <1>3, <1>4, <1>5

\* Close and Exit keep the files and forget the rest.
LEMMA InvClosed ==
    ASSUME Inv, Close \/ Exit
    PROVE  Inv'
<1>1. UNCHANGED <<inode, dirs, mem, scope, tried, stamp, reliance>> /\ pc' = "closed"
  BY DEF Close, Exit, Die, past
<1>2. FilesOK' /\ Views'
  BY <1>1, StillFiles DEF Inv
<1>3. MemoryOK'
  BY <1>1 DEF Inv, MemoryOK, mem
<1> QED
  BY <1>1, <1>2, <1>3 DEF Inv, Places, Phase

LEMMA InvStutter ==
    ASSUME Inv, UNCHANGED vars
    PROVE  Inv'
<1>1. UNCHANGED <<inode, dirs, mem, scope, tried, stamp, pc, reliance>>
  BY DEF vars, mem
<1>2. /\ FilesOK' /\ Views' /\ dir' = dir
      /\ Now' = Now /\ Durable' = Durable /\ Durables' = Durables /\ (Opens' <=> Opens) /\ Bound' = Bound
  BY <1>1, StillFiles DEF Inv
<1>3. MemoryOK' /\ (TablesThere' <=> TablesThere)
  BY <1>1, <1>2 DEF Inv, MemoryOK, TablesThere, mem
<1>4. /\ Described' = Described /\ Serving' = Serving /\ Making' = Making /\ Renewing' = Renewing
      /\ Snapshot' = Snapshot /\ NewTable' = NewTable /\ Edited' = Edited
      /\ Unrecorded' = Unrecorded /\ Synced' = Synced
  BY <1>1, <1>2 DEF Described, Serving, Making, Renewing, Snapshot, NewTable, Edited, Unrecorded,
                    Synced, mem
<1>5. /\ Recording' = Recording /\ Setting' = Setting /\ AtNew' = AtNew
  BY <1>1, <1>2, <1>4 DEF Recording, Setting, FirstMade, Renewed, AtNew, mem
<1>6. /\ AtNewRecord' = AtNewRecord /\ AtSyncTemp' = AtSyncTemp /\ AtRename' = AtRename
      /\ AtRecover' = AtRecover /\ AtSnapshot' = AtSnapshot /\ AtAddRecord' = AtAddRecord
      /\ AtSync' = AtSync /\ AtInstall' = AtInstall /\ AtOpen' = AtOpen
  BY <1>1, <1>2, <1>4, <1>5 DEF AtNewRecord, AtSyncTemp, AtRename, AtRecover, AtSnapshot,
                    AtAddRecord, AtSync, AtInstall, AtOpen, mem
<1>7. Phase'
  BY <1>1, <1>2, <1>4, <1>5, <1>6 DEF Inv, Phase, mem
<1> QED
  BY <1>1, <1>2, <1>3, <1>7 DEF Inv

LEMMA InvInstall ==
    ASSUME Inv, Install
    PROVE  Inv'
<1>1. /\ UNCHANGED <<inode, dirs, nextFile, manifest, descriptor, scope, stamp, reliance>>
      /\ pc' = "delete" /\ version' = Edited /\ fresh' = FALSE /\ edit' = NoEdit
      /\ tried' = IF fresh THEN tried ELSE {Edited}
  BY DEF Install, Edited
<1>2. AtInstall /\ FilesOK /\ Views /\ MemoryOK /\ reliance # "lost"
  BY DEF Inv, Phase, Install
<1>3. /\ Opens /\ Serving /\ Synced /\ Edited = Replay(LogOf(Now)) /\ Bound = nextFile
      /\ ~fresh => Durables = {Durable}
  BY <1>2, OneView DEF AtInstall, Serving
<1>4. /\ LogOf(Now) \in Seq(Record) /\ LogOf(Now) # << >> /\ Bound \in Nat
      /\ Called(Now) \in Nat /\ Called(Now) < Bound
      /\ Now[CURRENT] = <<Called(Now)>> /\ Descriptor(Called(Now)) \in DOMAIN Now
      /\ Replay(LogOf(Now)) \in tried /\ Replay(LogOf(Now)) \subseteq Item
      /\ \A t \in Replay(LogOf(Now)) :
            /\ t.number \in Nat /\ t.number < Bound
            /\ Holds(Now, Table(t.number), <<t.stamp>>)
            /\ Holds(Durable, Table(t.number), <<t.stamp>>)
  BY <1>2, <1>3, OpensFacts
<1>5. Called(Now) = manifest
  BY <1>3 DEF Serving, Called
\* What is durable and what is there now say the same.
<1>6. /\ CURRENT \in DOMAIN Durable /\ Durable[CURRENT] = <<manifest>> /\ Called(Durable) = manifest
      /\ Descriptor(manifest) \in DOMAIN Durable /\ LogOf(Durable) = LogOf(Now)
  BY <1>3 DEF Synced, Holds, Called, LogOf
<1>7. dir' = dir /\ Now' = Now /\ Durable' = Durable /\ Durables' = Durables
  BY <1>1 DEF dir, Now, Durable, Kept, Durables, DurableAt
<1>8. FilesOK' /\ Opens' /\ Bound' = Bound
  BY <1>1, <1>2, <1>3, <1>7 DEF FilesOK, Files, OneName, CurrentStays, Opens, Bound
<1>9. Views'
  <2>1. CASE fresh
    BY <1>1, <1>2, <2>1, StillFiles
  <2>2. CASE ~fresh
    <3>1. tried' = {Replay(LogOf(Now))} /\ scope' = scope
      BY <1>1, <1>3, <2>2
    <3>2. /\ Sound(Now, LogOf(Now), manifest, tried')
          /\ Sound(Durable, LogOf(Now), manifest, tried')
      BY <1>4, <1>5, <3>1 DEF Sound, Bound, Holds
    <3>3. CURRENT \in DOMAIN Now
      BY <1>3 DEF Opens
    <3>4. Good(Now, tried', scope.created)
      BY <1>4, <1>5, <3>2, <3>3 DEF Good
    <3>5. Good(Durable, tried', scope.created)
      BY <1>4, <1>5, <1>6, <3>2 DEF Good
    <3>6. Durables' = {Durable} /\ \A V \in Durables : Below(V, Bound)
      BY <1>2, <1>3, <1>7, <2>2 DEF Views, Goods
    <3>7. Goods'
      BY <1>3, <1>4, <1>7, <1>8, <3>1, <3>4, <3>5, <3>6 DEF Goods
    <3>8. Relied'
      BY <1>1, <1>2, <1>7 DEF Views, Relied
    <3> QED
      BY <3>7, <3>8 DEF Views
  <2> QED
    BY <2>1, <2>2
<1>10. MemoryOK'
  <2>1. NoEdit \in Record
    BY DEF NoEdit, Record
  <2>2. version' \subseteq Item /\ \A t \in version' : t.number < nextFile
    BY <1>1, <1>3, <1>4
  <2> QED
    BY <1>1, <1>2, <2>1, <2>2 DEF MemoryOK
<1>11. AtOpen' /\ Synced' /\ TablesThere'
  <2>1. Serving'
    BY <1>1, <1>3, <1>7, <1>8 DEF Serving, Described
  <2>2. Synced'
    BY <1>1, <1>3, <1>7 DEF Synced
  <2>3. TablesThere'
    BY <1>1, <1>3, <1>4, <1>7 DEF TablesThere
  <2>4. Bound' <= nextFile'
    BY <1>1, <1>3, <1>4, <1>8
  <2> QED
    BY <1>1, <1>3, <1>7, <2>1, <2>2, <2>3, <2>4 DEF AtOpen
<1> QED
  BY <1>1, <1>2, <1>8, <1>9, <1>10, <1>11 DEF Inv, Places, Phase

\* One name has other contents that no view needs.
LEMMA QuietChange ==
    ASSUME FilesOK, Views, scope.created \in BOOLEAN, scope' = scope, tried \subseteq tried',
           reliance # "lost", reliance' = reliance,
           NEW x, Unused(x), NEW c, NEW k, Changed(x, c, k)
    PROVE  /\ FilesOK' /\ Views' /\ x \in DOMAIN dir' /\ Holds(Now', x, c) /\ Holds(Durable', x, k)
           /\ \A y \in DOMAIN dir : y # x => y \in DOMAIN dir' /\ dir'[y] = dir[y]
           /\ \A y, z : y # x /\ Holds(Now, y, z) => Holds(Now', y, z)
           /\ \A y, z : y # x /\ Holds(Durable, y, z) => Holds(Durable', y, z)
           /\ CURRENT \in DOMAIN dir' <=> CURRENT \in DOMAIN dir
           /\ Opens' <=> Opens
           /\ Opens => /\ Bound' = Bound /\ LogOf(Now') = LogOf(Now)
                       /\ Now'[CURRENT] = Now[CURRENT]
<1> DEFINE G == {x}
<1>1. \A y \in G : Unused(y)
  OBVIOUS
<1>2. x \in G /\ \A y \in G : y = x
  OBVIOUS
<1> HIDE DEF G
<1>3. /\ Spares(G, Now) /\ Spares(G, Durable) /\ \A V \in Durables : Spares(G, V)
      /\ CURRENT \notin G
  BY <1>1, UnusedIsSpared
<1>4. \A V, W : But(x, V, W) => ButIn(G, V, W)
  BY <1>2 DEF But, ButIn
<1>5. /\ But(x, Now, Now') /\ But(x, Durable, Durable')
      /\ \A W \in Durables' : \E V \in Durables : But(x, V, W)
      /\ FilesOK' /\ x \in DOMAIN dir' /\ Holds(Now', x, c) /\ Holds(Durable', x, k)
      /\ \A y \in DOMAIN dir : y # x => dir'[y] = dir[y]
  BY DEF Changed
<1>6. /\ ButIn(G, Now, Now') /\ ButIn(G, Durable, Durable')
      /\ \A W \in Durables' : \E V \in Durables : W = V \/ (Spares(G, V) /\ ButIn(G, V, W))
  BY <1>3, <1>4, <1>5
<1>7. /\ Views' /\ Same(Now, Now') /\ (Opens' <=> Opens)
      /\ Opens => Bound' = Bound /\ LogOf(Now') = LogOf(Now)
  BY <1>3, <1>6, QuietStep
<1>8. DOMAIN Now = DOMAIN dir /\ DOMAIN Now' = DOMAIN dir'
  BY DEF Now
<1>9. /\ CURRENT \in DOMAIN dir' <=> CURRENT \in DOMAIN dir
      /\ Opens => Now'[CURRENT] = Now[CURRENT]
  BY <1>7, <1>8 DEF Same, Opens
<1>10. /\ \A y, z : y # x /\ Holds(Now, y, z) => Holds(Now', y, z)
       /\ \A y, z : y # x /\ Holds(Durable, y, z) => Holds(Durable', y, z)
  BY <1>5 DEF But, Holds
<1>11. \A y \in DOMAIN dir : y # x => y \in DOMAIN dir'
  BY <1>5, <1>8 DEF But
<1> QED
  BY <1>5, <1>7, <1>9, <1>10, <1>11

LEMMA AddRecordChanged ==
    ASSUME FilesOK, NEW x \in DOMAIN dir, x # CURRENT, NEW r \in Record,
           AddRecord(dir[x], r), dirs' = dirs
    PROVE  /\ Changed(x, Append(Now[x], r), Durable[x]) /\ dir' = dir
           /\ Durable' = Durable /\ Durables' = Durables
<1>1. /\ FilesOK' /\ dir' = dir /\ Durable' = Durable /\ Durables' = Durables
      /\ But(x, Now, Now') /\ Holds(Now', x, Append(Now[x], r))
  BY AddRecordChanges
<1>2. DOMAIN Durable = DOMAIN dir
  BY DEF Durable
<1> QED
  BY <1>1, <1>2 DEF Changed, But, Holds

LEMMA InvNewDB ==
    ASSUME Inv, NewDB
    PROVE  Inv'
<1>0. FilesOK /\ Views /\ MemoryOK /\ scope.created \in BOOLEAN /\ DOMAIN Now = DOMAIN dir
      /\ reliance # "lost" /\ reliance' = reliance
  BY DEF Inv, MemoryOK, Now, NewDB, past
<1>1. Descriptor(1) \in Name /\ Descriptor(1) # CURRENT
  BY NamesAreNames, NamesDiffer
<1>2. CURRENT \notin DOMAIN dir /\ version = {} /\ edit = NoEdit /\ nextFile = 2 /\ descriptor = 0
  BY DEF Inv, Phase, NewDB, AtNew, AtNewRecord, Making
<1>3. Unused(Descriptor(1))
  BY <1>1, <1>2 DEF Unused
<1>4. CASE pc = "new"
  <2>1. /\ Create(Descriptor(1), << >>) /\ pc' = "newrecord" /\ manifest' = 1 /\ fresh' = TRUE
        /\ UNCHANGED <<version, nextFile, descriptor, edit, past>>
    BY <1>4 DEF NewDB
  <2>2. << >> \in Content
    BY DEF Content
  <2>3. Changed(Descriptor(1), << >>, << >>)
    BY <1>0, <1>1, <2>1, <2>2, CreateChanges
  <2>4. /\ FilesOK' /\ Views' /\ CURRENT \notin DOMAIN dir'
        /\ Holds(Now', Descriptor(1), << >>) /\ Holds(Durable', Descriptor(1), << >>)
    BY <1>0, <1>2, <1>3, <2>1, <2>3, QuietChange DEF past
  <2>5. MemoryOK'
    BY <1>0, <2>1 DEF MemoryOK, past
  <2>6. AtNewRecord'
    BY <1>2, <2>1, <2>4 DEF AtNewRecord, Making
  <2> QED
    BY <1>0, <2>1, <2>4, <2>5, <2>6 DEF Inv, Places, Phase
<1>5. CASE pc = "newrecord"
  <2>1. /\ AddRecord(dir[Descriptor(1)], FirstRecord) /\ pc' = "settemp"
        /\ UNCHANGED <<dirs, mem, past>>
    BY <1>5 DEF NewDB, FirstRecord
  <2>2. /\ Making /\ Holds(Now, Descriptor(1), << >>) /\ Holds(Durable, Descriptor(1), << >>)
    BY <1>5 DEF Inv, Phase, AtNewRecord
  <2>3. Descriptor(1) \in DOMAIN dir /\ Now[Descriptor(1)] = << >> /\ Durable[Descriptor(1)] = << >>
    BY <1>0, <2>2 DEF Holds
  <2>4. FirstRecord \in Record
    BY DEF FirstRecord, Record
  <2>5. Changed(Descriptor(1), Append(<< >>, FirstRecord), << >>)
    BY <1>0, <1>1, <2>1, <2>3, <2>4, AddRecordChanged
  <2>6. Append(<< >>, FirstRecord) = <<FirstRecord>>
    OBVIOUS
  <2>7. /\ FilesOK' /\ Views' /\ CURRENT \notin DOMAIN dir'
        /\ Holds(Now', Descriptor(1), <<FirstRecord>>) /\ Holds(Durable', Descriptor(1), << >>)
    BY <1>0, <1>2, <1>3, <2>1, <2>5, <2>6, QuietChange DEF past
  <2>8. MemoryOK'
    BY <1>0, <2>1 DEF MemoryOK, past, mem
  <2>9. Setting'
    BY <2>1, <2>2, <2>7 DEF Setting, FirstMade, Making, FirstRecord, mem
  <2>10. TablesThere'
    BY <1>2, <2>1 DEF TablesThere, mem
  <2> QED
    BY <1>0, <2>1, <2>7, <2>8, <2>9, <2>10 DEF Inv, Places, Phase
<1> QED
  BY <1>4, <1>5 DEF NewDB

\* SetCurrentFile writes a temporary file, which the new manifest does not mind.
LEMMA SettingStays ==
    ASSUME Inv, Setting, reliance # "lost", UNCHANGED <<mem, past>>,
           NEW c, NEW k, Changed(Temp(manifest), c, k)
    PROVE  /\ FilesOK' /\ Views' /\ MemoryOK' /\ Setting'
           /\ Holds(Now', Temp(manifest), c) /\ Holds(Durable', Temp(manifest), k)
           /\ TablesThere => TablesThere'
<1>0. FilesOK /\ Views /\ MemoryOK /\ scope.created \in BOOLEAN /\ manifest \in Nat
  BY DEF Inv, MemoryOK
<1>1. Temp(manifest) # CURRENT /\ \A n : Temp(manifest) # Descriptor(n) /\ Temp(manifest) # Table(n)
  BY NamesDiffer
<1>2. Unused(Temp(manifest))
  BY <1>1 DEF Unused, Free, Setting, FirstMade, Making, Renewed, Renewing
<1>3. scope' = scope /\ tried' = tried /\ reliance' = reliance
  BY DEF past
<1>4. /\ FilesOK' /\ Views' /\ Holds(Now', Temp(manifest), c) /\ Holds(Durable', Temp(manifest), k)
      /\ \A y \in DOMAIN dir : y # Temp(manifest) => y \in DOMAIN dir' /\ dir'[y] = dir[y]
      /\ \A y, z : y # Temp(manifest) /\ Holds(Now, y, z) => Holds(Now', y, z)
      /\ \A y, z : y # Temp(manifest) /\ Holds(Durable, y, z) => Holds(Durable', y, z)
      /\ CURRENT \in DOMAIN dir' <=> CURRENT \in DOMAIN dir
      /\ Opens' <=> Opens
      /\ Opens => /\ Bound' = Bound /\ LogOf(Now') = LogOf(Now)
  BY <1>0, <1>2, <1>3, QuietChange
<1>5. MemoryOK'
  BY <1>0 DEF MemoryOK, mem, past
<1>6. CASE FirstMade
  <2>1. FirstMade'
    BY <1>1, <1>4, <1>6 DEF FirstMade, Making, FirstRecord, mem
  <2> QED
    BY <1>1, <1>4, <1>5, <2>1 DEF Setting, TablesThere, mem
<1>7. CASE Renewed
  <2>1. Renewing' /\ Described'
    BY <1>1, <1>4, <1>7 DEF Renewed, Renewing, Described, mem
  <2>2. Snapshot' = Snapshot /\ edit' = edit /\ manifest' = manifest /\ descriptor' = descriptor
    BY DEF Snapshot, mem
  <2>3. Renewed'
    BY <1>1, <1>4, <1>7, <2>1, <2>2 DEF Renewed
  <2> QED
    BY <1>1, <1>4, <1>5, <2>3 DEF Setting, TablesThere, mem
<1> QED
  BY <1>6, <1>7 DEF Setting

LEMMA InvSetTemp ==
    ASSUME Inv, SetCurrentFile, pc # "rename"
    PROVE  Inv'
<1>0. FilesOK /\ Views /\ manifest \in Nat /\ DOMAIN Now = DOMAIN dir
      /\ Temp(manifest) \in Name /\ Temp(manifest) # CURRENT
  BY NamesAreNames, NamesDiffer DEF Inv, MemoryOK, Now
<1>1. UNCHANGED <<mem, past>> /\ manifest' = manifest /\ reliance' = reliance
  BY DEF SetCurrentFile, mem, past
<1>2. Setting /\ TablesThere /\ reliance # "lost"
  BY DEF Inv, Phase, SetCurrentFile, AtSyncTemp
<1>3. CASE pc = "settemp"
  <2>1. Create(Temp(manifest), <<manifest>>) /\ pc' = "synctemp"
    BY <1>3 DEF SetCurrentFile
  <2>2. <<manifest>> \in Content
    BY <1>0 DEF Content
  <2>3. Changed(Temp(manifest), <<manifest>>, << >>)
    BY <1>0, <2>1, <2>2, CreateChanges
  <2>4. /\ FilesOK' /\ Views' /\ MemoryOK' /\ Setting' /\ TablesThere'
        /\ Holds(Now', Temp(manifest), <<manifest>>)
    BY <1>1, <1>2, <2>3, SettingStays
  <2>5. AtSyncTemp'
    BY <1>1, <2>4 DEF AtSyncTemp
  <2> QED
    BY <1>1, <1>2, <2>1, <2>4, <2>5 DEF Inv, Places, Phase
<1>4. CASE pc = "synctemp"
  <2>1. Sync(dir[Temp(manifest)]) /\ dirs' = dirs /\ pc' = "rename"
    BY <1>4 DEF SetCurrentFile
  <2>2. Temp(manifest) \in DOMAIN dir /\ Now[Temp(manifest)] = <<manifest>>
    BY <1>0, <1>4 DEF Inv, Phase, AtSyncTemp, Holds
  <2>3. Changed(Temp(manifest), <<manifest>>, <<manifest>>)
    BY <1>0, <2>1, <2>2, SyncChanges
  <2>4. /\ FilesOK' /\ Views' /\ MemoryOK' /\ Setting' /\ TablesThere'
        /\ Holds(Now', Temp(manifest), <<manifest>>) /\ Holds(Durable', Temp(manifest), <<manifest>>)
    BY <1>1, <1>2, <2>3, SettingStays
  <2>5. AtRename'
    BY <1>1, <2>4 DEF AtRename
  <2> QED
    BY <1>1, <1>2, <2>1, <2>4, <2>5 DEF Inv, Places, Phase
<1> QED
  BY <1>3, <1>4 DEF SetCurrentFile

LEMMA InvWriteSnapshot ==
    ASSUME Inv, WriteSnapshot
    PROVE  Inv'
<1>0. /\ FilesOK /\ Views /\ MemoryOK /\ scope.created \in BOOLEAN /\ DOMAIN Now = DOMAIN dir
      /\ Renewing /\ TablesThere /\ reliance # "lost" /\ reliance' = reliance
  BY DEF Inv, MemoryOK, Now, Phase, WriteSnapshot, AtSnapshot, past
<1>1. /\ Create(Descriptor(manifest), <<Snapshot>>) /\ pc' = "addrecord"
      /\ descriptor' = InodeOf(Descriptor(manifest))
      /\ UNCHANGED <<version, nextFile, manifest, edit, fresh, past>>
  BY DEF WriteSnapshot, Snapshot
<1>2. /\ manifest \in Nat /\ Descriptor(manifest) \in Name /\ Descriptor(manifest) # CURRENT
      /\ \A n : Descriptor(manifest) # Table(n)
  BY <1>0, NamesAreNames, NamesDiffer DEF MemoryOK
<1>3. Unused(Descriptor(manifest))
  BY <1>0, <1>2 DEF Unused, Free, Renewing
<1>4. <<Snapshot>> \in Content
  <2>1. Snapshot \in Record
    BY <1>0 DEF Snapshot, Record, MemoryOK
  <2> QED
    BY <2>1 DEF Content
<1>5. /\ Changed(Descriptor(manifest), <<Snapshot>>, << >>)
      /\ dir'[Descriptor(manifest)] = InodeOf(Descriptor(manifest))
  BY <1>0, <1>1, <1>2, <1>4, CreateChanges
<1>6. /\ FilesOK' /\ Views' /\ Holds(Now', Descriptor(manifest), <<Snapshot>>)
      /\ Descriptor(manifest) \in DOMAIN dir'
      /\ \A y, z : y # Descriptor(manifest) /\ Holds(Now, y, z) => Holds(Now', y, z)
      /\ Opens' <=> Opens
      /\ Opens => /\ Bound' = Bound /\ LogOf(Now') = LogOf(Now)
  BY <1>0, <1>1, <1>3, <1>5, QuietChange DEF past
<1>7. MemoryOK'
  <2>1. descriptor' \in Nat
    <3>1. dir'[Descriptor(manifest)] \in 1 .. Len(inode')
      BY <1>6 DEF FilesOK, Files, dir, Last
    <3>2. Len(inode') \in Nat
      BY <1>6, LenProperties DEF FilesOK, Files
    <3> QED
      BY <1>1, <1>5, <3>1, <3>2
  <2> QED
    BY <1>0, <1>1, <2>1 DEF MemoryOK, past
<1>8. Renewing' /\ Described' /\ Snapshot' = Snapshot /\ TablesThere'
  BY <1>0, <1>1, <1>2, <1>5, <1>6 DEF Renewing, Described, Snapshot, TablesThere
<1>9. AtAddRecord'
  BY <1>1, <1>6, <1>8 DEF AtAddRecord
<1> QED
  BY <1>0, <1>1, <1>6, <1>7, <1>8, <1>9 DEF Inv, Places, Phase

LEMMA InvWriteTable ==
    ASSUME Inv, NEW del \in SUBSET version, WriteTable(del)
    PROVE  Inv'
<1>0. /\ FilesOK /\ Views /\ MemoryOK /\ scope.created \in BOOLEAN /\ DOMAIN Now = DOMAIN dir
      /\ AtOpen /\ TablesThere /\ reliance # "lost" /\ reliance' = reliance
  BY DEF Inv, MemoryOK, Now, Phase, WriteTable
<1>1. /\ Create(Table(nextFile), <<stamp + 1>>) /\ pc' = "synctable" /\ nextFile < MaxNumber
      /\ edit' = [add |-> {[number |-> nextFile, stamp |-> stamp + 1]}, del |-> del,
                  next |-> nextFile + 1]
      /\ stamp' = stamp + 1 /\ nextFile' = nextFile + 1
      /\ UNCHANGED <<version, manifest, descriptor, fresh, scope, tried>>
  BY DEF WriteTable
<1>2. /\ nextFile \in Nat /\ Table(nextFile) \in Name /\ Table(nextFile) # CURRENT
      /\ \A n : Table(nextFile) # Descriptor(n)
      /\ stamp + 1 \in Nat /\ nextFile + 1 - 1 = nextFile
  BY <1>0, NamesAreNames, NamesDiffer DEF MemoryOK
<1>3. Opens /\ Serving /\ Bound <= nextFile /\ ~fresh /\ version = Replay(LogOf(Now)) /\ Bound \in Nat
  BY <1>0, OpensFacts DEF AtOpen, Serving
<1>4. Unused(Table(nextFile))
  BY <1>2, <1>3 DEF Unused, Free
<1>5. <<stamp + 1>> \in Content
  BY <1>2 DEF Content
<1>6. Changed(Table(nextFile), <<stamp + 1>>, << >>)
  BY <1>0, <1>1, <1>2, <1>5, CreateChanges
<1>7. /\ FilesOK' /\ Views' /\ Holds(Now', Table(nextFile), <<stamp + 1>>)
      /\ \A y \in DOMAIN dir : y # Table(nextFile) => y \in DOMAIN dir' /\ dir'[y] = dir[y]
      /\ \A y, z : y # Table(nextFile) /\ Holds(Now, y, z) => Holds(Now', y, z)
      /\ Opens' /\ Bound' = Bound /\ LogOf(Now') = LogOf(Now) /\ Now'[CURRENT] = Now[CURRENT]
  BY <1>0, <1>1, <1>3, <1>4, <1>6, QuietChange
<1>8. \A t \in version : t.number \in Nat /\ t.number < nextFile
  BY <1>0 DEF MemoryOK, Item
<1>9. MemoryOK'
  <2>1. edit' \in Record
    <3>1. [number |-> nextFile, stamp |-> stamp + 1] \in Item
      BY <1>2 DEF Item
    <3>2. del \subseteq Item
      BY <1>0 DEF MemoryOK
    <3> QED
      BY <1>1, <1>2, <3>1, <3>2 DEF Record
  <2>2. nextFile' \in 2 .. MaxNumber
    BY <1>0, <1>1, SettingAssumption DEF MemoryOK
  <2>3. \A t \in version' : t.number < nextFile'
    BY <1>1, <1>2, <1>8
  <2> QED
    BY <1>0, <1>1, <1>2, <2>1, <2>2, <2>3 DEF MemoryOK
<1>10. TablesThere'
  <2>1. \A t \in version : Table(t.number) # Table(nextFile)
    BY <1>2, <1>8, NamesDiffer
  <2> QED
    BY <1>0, <1>1, <1>7, <2>1 DEF TablesThere
<1>11. Recording' /\ Unrecorded'
  <2>1. Serving'
    BY <1>1, <1>2, <1>3, <1>7 DEF Serving, Described
  <2>2. Unrecorded'
    BY <1>1, <1>2, <1>3, <1>7 DEF Unrecorded
  <2>3. nextFile' - 1 = nextFile
    BY <1>1, <1>2
  <2>4. edit'.add = {NewTable'} /\ edit'.next = nextFile'
    BY <1>1, <2>3 DEF NewTable
  <2>5. \A t \in version' : t.number < nextFile' - 1
    BY <1>1, <1>8, <2>3
  <2> QED
    BY <1>1, <1>3, <1>7, <2>1, <2>2, <2>3, <2>4, <2>5 DEF Recording
<1> QED
  BY <1>0, <1>1, <1>7, <1>9, <1>10, <1>11 DEF Inv, Places, Phase

LEMMA InvSyncTable ==
    ASSUME Inv, SyncTable
    PROVE  Inv'
<1> DEFINE x == Table(nextFile - 1)
<1>0. /\ FilesOK /\ Views /\ MemoryOK /\ scope.created \in BOOLEAN /\ DOMAIN Now = DOMAIN dir
      /\ Recording /\ Unrecorded /\ TablesThere /\ reliance # "lost" /\ reliance' = reliance
  BY DEF Inv, MemoryOK, Now, Phase, SyncTable, past
<1>1. Sync(dir[x]) /\ pc' = "addrecord" /\ UNCHANGED <<dirs, mem, past>>
  BY DEF SyncTable
<1>2. /\ x # CURRENT /\ \A n : x # Descriptor(n)
      /\ nextFile - 1 \in Nat /\ nextFile \in Nat
  BY <1>0, NamesDiffer DEF MemoryOK
<1>3. /\ Opens /\ Serving /\ Bound < nextFile /\ version = Replay(LogOf(Now)) /\ Bound \in Nat
      /\ Holds(Now, x, <<stamp>>)
  BY <1>0, OpensFacts DEF Recording, Unrecorded, Serving
<1>4. x = Table(nextFile - 1)
  OBVIOUS
<1> HIDE DEF x
<1>5. Unused(x)
  <2>1. Bound <= nextFile - 1
    BY <1>2, <1>3
  <2> QED
    BY <1>2, <1>3, <1>4, <2>1 DEF Unused, Free
<1>6. x \in DOMAIN dir /\ Now[x] = <<stamp>>
  BY <1>0, <1>3 DEF Holds
<1>7. Changed(x, <<stamp>>, <<stamp>>) /\ Now' = Now /\ dir' = dir
  BY <1>0, <1>1, <1>2, <1>6, SyncChanges
<1>8. FilesOK' /\ Views' /\ Holds(Durable', x, <<stamp>>) /\ Opens' /\ Bound' = Bound
  BY <1>0, <1>1, <1>3, <1>5, <1>7, QuietChange DEF past
<1>9. MemoryOK' /\ TablesThere'
  BY <1>0, <1>1, <1>7 DEF MemoryOK, TablesThere, mem, past
<1>10. Recording' /\ Unrecorded'
  <2>1. Serving'
    BY <1>1, <1>3, <1>7, <1>8 DEF Serving, Described, mem
  <2>2. Unrecorded'
    BY <1>1, <1>3, <1>7, <1>8 DEF Unrecorded, mem
  <2> QED
    BY <1>0, <1>1, <1>7, <2>1, <2>2 DEF Recording, NewTable, mem, past
<1>11. AtAddRecord'
  BY <1>1, <1>4, <1>8, <1>10 DEF AtAddRecord, mem, past
<1> QED
  BY <1>0, <1>1, <1>8, <1>9, <1>11 DEF Inv, Places, Phase

LEMMA InvSyncDir ==
    ASSUME Inv, SyncDirIfManifest
    PROVE  Inv'
<1>0. /\ FilesOK /\ Views /\ MemoryOK /\ AtSync /\ TablesThere
      /\ reliance # "lost" /\ reliance' = reliance
  BY DEF Inv, Phase, SyncDirIfManifest, past
<1>1. inode' = inode /\ dirs' = <<dir>> /\ UNCHANGED <<mem, past>> /\ pc' = "sync"
  BY DEF SyncDirIfManifest, SyncedDir
<1>2. /\ FilesOK' /\ dir' = dir /\ Now' = Now /\ Durable' = Durable
      /\ Durables' = {Durable} /\ Len(dirs') = 1
  BY <1>0, <1>1, DirSyncChanges
<1>3. (Opens' <=> Opens) /\ Bound' = Bound
  BY <1>2 DEF Opens, Bound
<1>4. Durable \in Durables
  BY <1>0, ViewFacts DEF FilesOK
<1>5. Views'
  <2>1. Goods'
    BY <1>0, <1>1, <1>2, <1>3, <1>4 DEF Views, Goods, past
  <2>2. Relied'
    BY <1>0, <1>2, <1>4 DEF Views, Relied
  <2> QED
    BY <2>1, <2>2 DEF Views
<1>6. MemoryOK' /\ TablesThere'
  BY <1>0, <1>1, <1>2 DEF MemoryOK, TablesThere, mem, past
<1>7. AtSync'
  <2>1. CASE Renewing /\ Described /\ Holds(Now, Descriptor(manifest), <<Snapshot, edit>>)
    <3>1. Renewing' /\ Described' /\ Snapshot' = Snapshot
      BY <1>1, <1>2, <1>3, <2>1 DEF Renewing, Described, Snapshot, mem
    <3> QED
      BY <1>1, <1>2, <2>1, <3>1 DEF AtSync, mem
  <2>2. CASE Recording /\ Edited = Replay(LogOf(Now)) /\ Bound = nextFile
    <3>1. Serving' /\ Edited' = Edited /\ NewTable' = NewTable
      BY <1>1, <1>2, <1>3, <2>2 DEF Recording, Serving, Described, Edited, NewTable, mem, past
    <3>2. Recording'
      BY <1>1, <1>2, <2>2, <3>1 DEF Recording, mem, past
    <3> QED
      BY <1>1, <1>2, <1>3, <2>2, <3>1, <3>2 DEF AtSync, mem
  <2> QED
    BY <1>0, <2>1, <2>2 DEF AtSync
<1> QED
  BY <1>0, <1>1, <1>2, <1>5, <1>6, <1>7 DEF Inv, Places, Phase

\* What more was tried, and a greater bound, make no view worse.
LEMMA GoodMore ==
    ASSUME NEW V, NEW T, NEW U, NEW c \in BOOLEAN, Good(V, T, c), T \subseteq U
    PROVE  Good(V, U, c)
BY DEF Good, Sound

LEMMA BelowMore ==
    ASSUME NEW V, NEW T, NEW c, Good(V, T, c), NEW m \in Nat, NEW n \in Nat, m <= n, Below(V, m)
    PROVE  Below(V, n)
<1> SUFFICES ASSUME CURRENT \in DOMAIN V
             PROVE  Called(V) < n /\ (LogOf(V) # << >> => LastNext(LogOf(V)) <= n)
  BY DEF Below
<1>1. Called(V) \in Nat /\ Called(V) < m
  BY DEF Good, Below
<1>2. ASSUME LogOf(V) # << >>
      PROVE  LastNext(LogOf(V)) \in Nat /\ LastNext(LogOf(V)) <= m
  BY <1>2, LogFacts DEF Good, Sound, Below
<1> QED
  BY <1>1, <1>2

\* A running database records a table in its manifest.
LEMMA TableIsRecorded ==
    ASSUME Inv, pc = "addrecord", Recording, Unrecorded,
           Holds(Durable, Table(nextFile - 1), <<stamp>>),
           AddRecord(descriptor, edit), tried' = tried \cup {Edited},
           UNCHANGED <<dirs, mem, scope, stamp, reliance>>
    PROVE  /\ FilesOK' /\ Views' /\ MemoryOK' /\ TablesThere' /\ Recording'
           /\ Edited' = Replay(LogOf(Now'))
           /\ Bound' = nextFile'
<1> DEFINE x == Descriptor(manifest)
<1>0. /\ FilesOK /\ Views /\ MemoryOK /\ scope.created \in BOOLEAN /\ DOMAIN Now = DOMAIN dir
      /\ TablesThere /\ reliance # "lost" /\ reliance' = reliance
  BY DEF Inv, MemoryOK, Now
<1>1. /\ manifest \in Nat /\ edit \in Record /\ nextFile \in Nat /\ x # CURRENT
      /\ \A n : x # Table(n)
  BY <1>0, NamesDiffer DEF MemoryOK
<1>2. Described /\ x \in DOMAIN dir /\ descriptor = dir[x]
  BY DEF Recording, Serving, Described
<1>3. MemoryOK' /\ Edited' = Edited /\ NewTable' = NewTable
  BY <1>0 DEF MemoryOK, Edited, NewTable, mem
<1>4. /\ Opens /\ Now[CURRENT] = <<manifest>> /\ version = Replay(LogOf(Now)) /\ Bound < nextFile
      /\ edit.add = {NewTable} /\ edit.next = nextFile
      /\ NewTable.number = nextFile - 1 /\ NewTable.stamp = stamp
      /\ Holds(Now, Table(nextFile - 1), <<stamp>>) /\ Serving
      /\ \A t \in version : t.number < nextFile - 1
  BY DEF Recording, Unrecorded, Serving, NewTable
<1>5. /\ LogOf(Now) \in Seq(Record) /\ LogOf(Now) # << >> /\ Bound \in Nat
      /\ Called(Now) < Bound
      /\ \A t \in version : /\ t.number \in Nat /\ t.number < Bound
                            /\ Holds(Now, Table(t.number), <<t.stamp>>)
                            /\ Holds(Durable, Table(t.number), <<t.stamp>>)
  BY <1>0, <1>4, OpensFacts
<1>6. Called(Now) = manifest /\ LogOf(Now) = Now[x]
  BY <1>4 DEF Called, LogOf
<1> DEFINE es == Append(LogOf(Now), edit)
<1>7. /\ FilesOK' /\ dir' = dir /\ Durable' = Durable /\ Durables' = Durables
      /\ But(x, Now, Now') /\ Holds(Now', x, es)
  BY <1>0, <1>1, <1>2, <1>6, AddRecordChanges
<1>8. /\ es \in Seq(Record) /\ es # << >> /\ LastNext(es) = nextFile /\ Replay(es) = Edited
  BY <1>1, <1>4, <1>5, ReplayMore DEF Edited
<1> HIDE DEF es
<1>9. /\ CURRENT \in DOMAIN Now' /\ Now'[CURRENT] = <<manifest>> /\ Called(Now') = manifest
      /\ LogOf(Now') = es /\ x \in DOMAIN Now'
  BY <1>1, <1>4, <1>7 DEF Opens, But, Holds, Called, LogOf
<1>10. Opens' /\ Bound' = nextFile
  BY <1>8, <1>9 DEF Opens, Bound
<1>11. \A y, z : y # x /\ Holds(Now, y, z) => Holds(Now', y, z)
  BY <1>7 DEF But, Holds
<1>12. ASSUME NEW t \in Edited
      PROVE  /\ t.number < nextFile /\ Holds(Now', Table(t.number), <<t.stamp>>)
             /\ Holds(Durable', Table(t.number), <<t.stamp>>)
  <2>1. CASE t \in version
    BY <1>1, <1>4, <1>5, <1>7, <1>11, <2>1
  <2>2. CASE t = NewTable
    BY <1>1, <1>4, <1>7, <1>11, <2>2
  <2> QED
    BY <1>4, <1>12, <2>1, <2>2 DEF Edited
<1>13. Sound(Now', es, manifest, tried')
  <2>1. manifest < LastNext(es) /\ Replay(es) \in tried'
    BY <1>1, <1>4, <1>5, <1>6, <1>8
  <2>2. \A t \in Replay(es) : t.number < LastNext(es) /\ Holds(Now', Table(t.number), <<t.stamp>>)
    BY <1>8, <1>12
  <2> QED
    BY <1>8, <2>1, <2>2, SoundIfThere
<1>14. Good(Now', tried', scope'.created)
  BY <1>1, <1>8, <1>9, <1>13 DEF Good
<1>15. \A V \in Durables : Good(V, tried', scope.created)
  BY <1>0, GoodMore DEF Views, Goods
<1>16. \A V \in Durables : Below(V, nextFile)
  BY <1>0, <1>1, <1>4, <1>5, BelowMore DEF Views, Goods
<1>17. Views'
  <2>1. scope' = scope
    OBVIOUS
  <2>2. Goods'
    BY <1>7, <1>8, <1>9, <1>10, <1>12, <1>14, <1>15, <1>16, <2>1 DEF Goods
  <2>3. Complete(Now')
    BY <1>8, <1>9, <1>12 DEF Complete, Holds
  <2>4. Relied'
    BY <1>0, <1>7, <2>3 DEF Views, Relied
  <2> QED
    BY <2>2, <2>4 DEF Views
<1>18. TablesThere'
  BY <1>0, <1>1, <1>11 DEF TablesThere, mem
<1>19. Serving'
  BY <1>2, <1>7, <1>9, <1>10 DEF Serving, Described, mem
<1>20. Recording'
  BY <1>1, <1>3, <1>11, <1>19 DEF Recording, mem
<1> QED
  BY <1>3, <1>7, <1>8, <1>9, <1>10, <1>17, <1>18, <1>20 DEF mem

LEMMA InvLogAndApply ==
    ASSUME Inv, LogAndApply
    PROVE  Inv'
<1> DEFINE x == Descriptor(manifest)
<1>0. /\ FilesOK /\ Views /\ MemoryOK /\ scope.created \in BOOLEAN /\ DOMAIN Now = DOMAIN dir
      /\ AtAddRecord /\ TablesThere /\ reliance # "lost"
  BY DEF Inv, MemoryOK, Now, Phase, LogAndApply
<1>1. /\ AddRecord(descriptor, edit) /\ pc' = "syncdir" /\ tried' = tried \cup {Edited}
      /\ UNCHANGED <<dirs, mem, scope, stamp, reliance>>
  BY DEF LogAndApply, Edited
<1>2. /\ manifest \in Nat /\ edit \in Record /\ nextFile \in Nat /\ x # CURRENT
      /\ \A n : x # Table(n)
  BY <1>0, NamesDiffer DEF MemoryOK
<1>3. Described
  BY <1>0 DEF AtAddRecord, Recording, Serving
<1>4. x \in DOMAIN dir /\ descriptor = dir[x]
  BY <1>3 DEF Described
<1>5. MemoryOK' /\ Snapshot' = Snapshot /\ Edited' = Edited /\ NewTable' = NewTable
  BY <1>0, <1>1 DEF MemoryOK, Snapshot, Edited, NewTable, mem
<1>6. CASE Renewing /\ Holds(Now, x, <<Snapshot>>)
  <2>1. Unused(x)
    BY <1>2, <1>6 DEF Unused, Free, Renewing
  <2>2. Changed(x, Append(<<Snapshot>>, edit), Durable[x]) /\ dir' = dir
    BY <1>0, <1>1, <1>2, <1>4, <1>6, AddRecordChanged DEF Holds
  <2>3. Append(<<Snapshot>>, edit) = <<Snapshot, edit>>
    <3>1. Snapshot \in Record
      BY <1>0 DEF Snapshot, Record, MemoryOK
    <3> QED
      BY <1>2, <3>1, ReplayTwo
  <2>4. /\ FilesOK' /\ Views' /\ Holds(Now', x, <<Snapshot, edit>>)
        /\ \A y, z : y # x /\ Holds(Now, y, z) => Holds(Now', y, z)
        /\ Opens' <=> Opens
        /\ Opens => Bound' = Bound /\ LogOf(Now') = LogOf(Now)
    BY <1>0, <1>1, <2>1, <2>2, <2>3, QuietChange
  <2>5. Renewing' /\ Described' /\ TablesThere'
    BY <1>0, <1>1, <1>2, <1>3, <1>6, <2>2, <2>4 DEF Renewing, Described, TablesThere, mem
  <2>6. AtSync'
    BY <1>1, <1>5, <2>4, <2>5 DEF AtSync, mem
  <2> QED
    BY <1>0, <1>1, <1>5, <2>4, <2>5, <2>6 DEF Inv, Places, Phase
<1>7. CASE Recording /\ Unrecorded /\ Holds(Durable, Table(nextFile - 1), <<stamp>>)
  <2>1. /\ FilesOK' /\ Views' /\ MemoryOK' /\ TablesThere' /\ Recording'
        /\ Edited' = Replay(LogOf(Now')) /\ Bound' = nextFile'
    BY <1>1, <1>7, TableIsRecorded DEF LogAndApply
  <2>2. AtSync'
    BY <2>1 DEF AtSync
  <2> QED
    BY <1>0, <1>1, <2>1, <2>2 DEF Inv, Places, Phase
<1> QED
  BY <1>0, <1>6, <1>7 DEF AtAddRecord

LEMMA InvSyncFd ==
    ASSUME Inv, SyncFd
    PROVE  Inv'
<1> DEFINE x == Descriptor(manifest)
<1>0. /\ FilesOK /\ Views /\ MemoryOK /\ scope.created \in BOOLEAN /\ DOMAIN Now = DOMAIN dir
      /\ AtSync /\ Len(dirs) = 1 /\ TablesThere /\ reliance # "lost"
  BY DEF Inv, MemoryOK, Now, Phase, SyncFd
<1>1. /\ Sync(descriptor) /\ pc' = IF fresh THEN "settemp" ELSE "install"
      /\ reliance' = IF fresh THEN reliance ELSE "none"
      /\ UNCHANGED <<dirs, mem, scope, tried, stamp>>
  BY DEF SyncFd, SyncManifest
<1>2. /\ manifest \in Nat /\ x # CURRENT /\ \A n : x # Table(n)
  BY <1>0, NamesDiffer DEF MemoryOK
<1>3. Described
  BY <1>0 DEF AtSync, Recording, Serving
<1>4. x \in DOMAIN dir /\ descriptor = dir[x]
  BY <1>3 DEF Described
<1>5. Changed(x, Now[x], Now[x]) /\ Now' = Now /\ dir' = dir
  BY <1>0, <1>1, <1>2, <1>4, SyncChanges
<1>6. MemoryOK' /\ Snapshot' = Snapshot /\ Edited' = Edited /\ TablesThere' /\ Described'
  BY <1>0, <1>1, <1>3, <1>5 DEF MemoryOK, Snapshot, Edited, TablesThere, Described, mem
<1>7. (Opens' <=> Opens) /\ Bound' = Bound
  BY <1>5 DEF Opens, Bound
<1>8. CASE Renewing /\ Holds(Now, x, <<Snapshot, edit>>)
  <2>1. Unused(x) /\ reliance' = reliance
    BY <1>1, <1>2, <1>8 DEF Unused, Free, Renewing
  <2>2. FilesOK' /\ Views' /\ Holds(Durable', x, Now[x])
    BY <1>0, <1>1, <1>5, <2>1, QuietChange
  <2>3. Renewing' /\ pc' = "settemp"
    BY <1>1, <1>5, <1>7, <1>8 DEF Renewing, mem
  <2>4. descriptor # 0
    BY <1>0, <1>4, DirIsLast DEF FilesOK
  <2>5. Renewed'
    BY <1>1, <1>5, <1>6, <1>8, <2>2, <2>3, <2>4 DEF Renewed, Holds, mem
  <2> QED
    BY <1>0, <1>6, <2>1, <2>2, <2>3, <2>5 DEF Inv, Places, Phase, Setting
<1>9. CASE Recording /\ Edited = Replay(LogOf(Now)) /\ Bound = nextFile
  <2>1. Opens /\ Serving /\ Now[CURRENT] = <<manifest>> /\ pc' = "install" /\ ~fresh
    BY <1>1, <1>9 DEF Recording, Serving
  <2>2. /\ LogOf(Now) \in Seq(Record) /\ LogOf(Now) # << >> /\ Bound \in Nat
        /\ Called(Now) < Bound /\ Replay(LogOf(Now)) \in tried
        /\ \A t \in Replay(LogOf(Now)) : /\ t.number < Bound
                                         /\ Holds(Durable, Table(t.number), <<t.stamp>>)
    BY <1>0, <2>1, OpensFacts
  <2>3. Called(Now) = manifest /\ LogOf(Now) = Now[x]
    BY <2>1 DEF Called, LogOf
  <2>4. FilesOK' /\ But(x, Durable, Durable') /\ Holds(Durable', x, LogOf(Now))
    BY <1>5, <2>3 DEF Changed
  <2>5. Durables' = {Durable'}
    <3>1. Len(dirs') = 1 /\ dirs'[1] = dir'
      BY <1>0, <1>1, <1>5 DEF dir, Last
    <3>2. Durables' = {[y \in DOMAIN dirs'[i] |-> Kept(inode'[dirs'[i][y]])] : i \in 1 .. 1}
      BY <3>1 DEF Durables, DurableAt, Kept
    <3>3. [y \in DOMAIN dirs'[1] |-> Kept(inode'[dirs'[1][y]])] = Durable'
      BY <3>1 DEF Durable, Kept
    <3>4. 1 .. 1 = {1}
      OBVIOUS
    <3> QED
      BY ONLY <3>2, <3>3, <3>4
  <2>6. Holds(Durable, CURRENT, <<manifest>>)
    BY <1>0, <2>1, CurrentIsDurable DEF Opens
  <2>7. \A y, z : y # x /\ Holds(Durable, y, z) => Holds(Durable', y, z)
    BY <2>4 DEF But, Holds
  <2>8. Holds(Durable', CURRENT, <<manifest>>)
    BY <1>2, <2>6, <2>7
  <2>9. /\ CURRENT \in DOMAIN Durable' /\ Durable'[CURRENT] = <<manifest>>
        /\ Called(Durable') = manifest /\ x \in DOMAIN Durable' /\ LogOf(Durable') = LogOf(Now)
    BY <2>4, <2>8 DEF Holds, Called, LogOf
  <2>10. \A t \in Replay(LogOf(Now)) : Holds(Durable', Table(t.number), <<t.stamp>>)
    BY <1>2, <2>2, <2>7
  <2>11. Sound(Durable', LogOf(Now), manifest, tried)
    BY <2>2, <2>3, <2>10 DEF Sound, Bound, Holds
  <2>12. Good(Durable', tried, scope.created)
    BY <1>2, <2>2, <2>9, <2>11 DEF Good
  <2>13. Below(Durable', Bound)
    BY <2>2, <2>3, <2>9 DEF Below, Bound
  <2>14. Views'
    <3>1. scope' = scope /\ tried' = tried /\ reliance' = "none"
      BY <1>1, <2>1
    <3>2. Goods'
      BY <1>0, <1>5, <1>7, <2>5, <2>10, <2>12, <2>13, <3>1 DEF Views, Goods
    <3>3. Complete(Durable') /\ Complete(Now')
      BY <1>0, <1>5, <2>9, <2>10 DEF Complete, Holds, Views, Relied
    <3>4. Relied'
      BY <2>5, <3>1, <3>3 DEF Relied
    <3> QED
      BY <3>2, <3>4 DEF Views
  <2>15. AtInstall'
    <3>1. Serving'
      BY <1>1, <1>5, <1>6, <1>7, <2>1 DEF Serving, mem
    <3>2. Synced'
      BY <1>1, <1>5, <2>4, <2>8 DEF Synced, mem
    <3> QED
      BY <1>0, <1>1, <1>5, <1>6, <1>7, <1>9, <3>1, <3>2 DEF AtInstall, mem
  <2> QED
    BY <1>1, <1>6, <2>1, <2>4, <2>14, <2>15 DEF Inv, Places, Phase
<1> QED
  BY <1>0, <1>8, <1>9 DEF AtSync

\* CURRENT now names the new manifest.
LEMMA InvRename ==
    ASSUME Inv, SetCurrentFile, pc = "rename"
    PROVE  Inv'
<1> DEFINE t == Temp(manifest)
           x == Descriptor(manifest)
<1>0. /\ FilesOK /\ Views /\ MemoryOK /\ DOMAIN Now = DOMAIN dir /\ DOMAIN Durable = DOMAIN dir
      /\ Setting /\ Holds(Now, t, <<manifest>>) /\ Holds(Durable, t, <<manifest>>) /\ TablesThere
      /\ reliance # "lost"
  BY DEF Inv, Now, Durable, Phase, AtRename
<1>1. /\ pc' = IF descriptor = 0 THEN "recover" ELSE "install"
      /\ dirs' = Append(dirs, Bind(Unbind(dir, t), CURRENT, dir[t]))
      /\ inode' = inode /\ UNCHANGED <<mem, past>>
  BY DEF SetCurrentFile
<1>2. /\ manifest \in Nat /\ t[1] = "dbtmp" /\ t # x /\ x # CURRENT /\ t # CURRENT
      /\ \A n : t # Table(n) /\ Table(n) # CURRENT /\ x # Table(n)
  BY <1>0, NamesDiffer DEF MemoryOK
<1>3. t \in DOMAIN dir /\ Now[t] = <<manifest>> /\ Durable[t] = <<manifest>>
  BY <1>0 DEF Holds
<1> HIDE DEF t, x
<1>4. /\ FilesOK' /\ Durables' = Durables \cup {Durable'}
      /\ \A y \in DOMAIN dir \ {t, CURRENT} :
            /\ y \in DOMAIN dir' /\ dir'[y] = dir[y]
            /\ y \in DOMAIN Now' /\ Now'[y] = Now[y]
            /\ y \in DOMAIN Durable' /\ Durable'[y] = Durable[y]
      /\ CURRENT \in DOMAIN dir'
      /\ Holds(Now', CURRENT, <<manifest>>) /\ Holds(Durable', CURRENT, <<manifest>>)
  <2>1. /\ FilesOK' /\ Durables' = Durables \cup {Durable'}
        /\ \A y \in DOMAIN dir \ {t, CURRENT} :
            /\ y \in DOMAIN dir' /\ dir'[y] = dir[y]
            /\ y \in DOMAIN Now' /\ Now'[y] = Now[y]
            /\ y \in DOMAIN Durable' /\ Durable'[y] = Durable[y]
        /\ CURRENT \in DOMAIN dir' /\ DOMAIN dir' = (DOMAIN dir \cup {CURRENT}) \ {t}
        /\ Holds(Now', CURRENT, Now[t]) /\ Holds(Durable', CURRENT, Durable[t])
    BY ONLY <1>0, <1>1, <1>2, <1>3, RenameChanges, Zenon
  <2> QED
    BY <1>3, <2>1
<1>5. /\ \A y, z : y # t /\ y # CURRENT /\ Holds(Now, y, z) => Holds(Now', y, z)
      /\ \A y, z : y # t /\ y # CURRENT /\ Holds(Durable, y, z) => Holds(Durable', y, z)
  BY <1>0, <1>4 DEF Holds
<1>6. x = Descriptor(manifest)
  BY DEF x
<1>7. /\ CURRENT \in DOMAIN Now' /\ Now'[CURRENT] = <<manifest>> /\ Called(Now') = manifest
      /\ CURRENT \in DOMAIN Durable' /\ Durable'[CURRENT] = <<manifest>>
      /\ Called(Durable') = manifest
  BY <1>4 DEF Holds, Called
<1>8. LogOf(Now') = Now'[x] /\ LogOf(Durable') = Durable'[x]
  BY <1>6, <1>7 DEF LogOf
<1>9. MemoryOK' /\ scope' = scope /\ tried' = tried /\ version' = version /\ edit' = edit
      /\ reliance' = reliance
      /\ nextFile' = nextFile /\ descriptor' = descriptor /\ manifest' = manifest /\ fresh' = fresh
  BY <1>0, <1>1 DEF MemoryOK, mem, past
<1>10. TablesThere'
  BY <1>0, <1>2, <1>5, <1>9 DEF TablesThere
<1>11. CASE FirstMade
  <2>1. /\ manifest = 1 /\ CURRENT \notin DOMAIN dir /\ version = {} /\ descriptor = 0
        /\ Holds(Now, x, <<FirstRecord>>) /\ Holds(Durable, x, << >>)
    BY <1>6, <1>11 DEF FirstMade, Making
  <2>2. Holds(Now', x, <<FirstRecord>>) /\ Holds(Durable', x, << >>)
    BY <1>2, <1>5, <2>1
  <2>3. /\ x \in DOMAIN Now' /\ LogOf(Now') = <<FirstRecord>>
        /\ x \in DOMAIN Durable' /\ LogOf(Durable') = << >>
    BY <1>8, <2>2 DEF Holds
  <2>4. ~scope.created /\ {} \in tried
    BY <1>0, <2>1 DEF Views, Goods, Good
  <2>5. /\ <<FirstRecord>> \in Seq(Record) /\ <<FirstRecord>> # << >>
        /\ LastNext(<<FirstRecord>>) = 2 /\ Replay(<<FirstRecord>>) = {}
    <3>1. FirstRecord \in Record /\ FirstRecord.next = 2 /\ FirstRecord.add = {}
      BY DEF FirstRecord, Record
    <3> QED
      BY <3>1, ReplayOne
  <2>6. Good(Now', tried, scope.created)
    <3>1. Sound(Now', <<FirstRecord>>, 1, tried)
      BY <2>4, <2>5 DEF Sound
    <3> QED
      BY <1>6, <1>7, <2>1, <2>3, <2>5, <3>1 DEF Good
  <2>7. Good(Durable', tried, scope.created)
    BY <1>6, <1>7, <2>1, <2>3, <2>4 DEF Good
  <2>8. Bound' = 2 /\ Opens'
    BY <1>7, <2>3, <2>5 DEF Bound, Opens
  <2>9. \A V \in Durables' : Good(V, tried, scope.created) /\ Below(V, 2)
    <3>1. ASSUME NEW V \in Durables
          PROVE  Good(V, tried, scope.created) /\ Below(V, 2)
      BY <1>0, <2>1, CurrentIsNew DEF Views, Goods, Below
    <3>2. Below(Durable', 2)
      BY <1>7, <2>1, <2>3 DEF Below
    <3> QED
      BY <1>4, <2>7, <3>1, <3>2
  <2>10. Views'
    <3>1. Goods'
      BY <1>9, <2>3, <2>5, <2>6, <2>8, <2>9 DEF Goods
    <3>2. Complete(Now') /\ Complete(Durable')
      BY <2>3, <2>5 DEF Complete
    <3>3. Relied'
      BY <1>0, <1>4, <1>9, <3>2 DEF Views, Relied
    <3> QED
      BY <3>1, <3>3 DEF Views
  <2>11. AtRecover' /\ pc' = "recover"
    BY <1>1, <1>4, <1>9, <2>1 DEF AtRecover
  <2> QED
    BY <1>0, <1>4, <1>9, <2>10, <2>11 DEF Inv, Places, Phase
<1>12. CASE Renewed
  <2> DEFINE es == <<Snapshot, edit>>
  <2>1. /\ descriptor # 0 /\ fresh /\ Opens /\ Bound = manifest /\ version = Replay(LogOf(Now))
        /\ edit.del = {} /\ edit.add = {} /\ edit.next = manifest + 2 /\ nextFile = manifest + 2
        /\ x \in DOMAIN dir /\ descriptor = dir[x]
        /\ Holds(Now, x, es) /\ Holds(Durable, x, es)
    BY <1>6, <1>12 DEF Renewed, Renewing, Described
  <2>2. /\ es \in Seq(Record) /\ es # << >> /\ LastNext(es) = manifest + 2 /\ Replay(es) = version
    <3>1. Snapshot \in Record /\ Snapshot.add = version /\ edit \in Record
      BY <1>0 DEF Snapshot, Record, MemoryOK
    <3>2. /\ es \in Seq(Record) /\ es # << >> /\ LastNext(es) = edit.next
          /\ Replay(es) = (Snapshot.add \ edit.del) \cup edit.add
      BY ONLY <3>1, ReplayTwo, Zenon
    <3> HIDE DEF es
    <3> QED
      BY <2>1, <3>1, <3>2
  <2> HIDE DEF es
  <2>3. Holds(Now', x, es) /\ Holds(Durable', x, es)
    BY <1>2, <1>5, <2>1
  <2>4. /\ x \in DOMAIN Now' /\ LogOf(Now') = es
        /\ x \in DOMAIN Durable' /\ LogOf(Durable') = es
    BY <1>8, <2>3 DEF Holds
  <2>5. /\ version \in tried
        /\ \A v \in version : /\ v.number \in Nat /\ v.number < manifest
                              /\ Holds(Now, Table(v.number), <<v.stamp>>)
                              /\ Holds(Durable, Table(v.number), <<v.stamp>>)
    BY <1>0, <2>1, OpensFacts
  <2>6. \A v \in version : /\ v.number < manifest + 2
                           /\ Holds(Now', Table(v.number), <<v.stamp>>)
                           /\ Holds(Durable', Table(v.number), <<v.stamp>>)
    <3> TAKE v \in version
    <3>1. v.number < manifest + 2
      <4>1. v.number \in Nat /\ v.number < manifest /\ manifest \in Nat
        BY <1>2, <2>5
      <4> QED
        BY ONLY <4>1
    <3>2. Table(v.number) # t /\ Table(v.number) # CURRENT
      BY <1>2
    <3> QED
      BY <1>5, <2>5, <3>1, <3>2
  <2>7. Sound(Now', es, manifest, tried) /\ Sound(Durable', es, manifest, tried)
    <3>1. manifest < LastNext(es) /\ Replay(es) \in tried /\ es \in Seq(Record)
      BY <1>2, <2>2, <2>5
    <3>2. \A v \in Replay(es) : /\ v.number < LastNext(es)
                                /\ Holds(Now', Table(v.number), <<v.stamp>>)
                                /\ Holds(Durable', Table(v.number), <<v.stamp>>)
      BY <2>2, <2>6
    <3> QED
      BY <3>1, <3>2, SoundIfThere
  <2>8. Good(Now', tried, scope.created)
    BY <1>2, <1>6, <1>7, <2>2, <2>4, <2>7 DEF Good
  <2>9. Good(Durable', tried, scope.created)
    BY <1>2, <1>6, <1>7, <2>2, <2>4, <2>7 DEF Good
  <2>10. Bound' = manifest + 2 /\ Opens'
    BY <1>7, <2>2, <2>4 DEF Bound, Opens
  <2>11. \A V \in Durables' : Good(V, tried, scope.created) /\ Below(V, manifest + 2)
    <3>1. ASSUME NEW V \in Durables
          PROVE  Good(V, tried, scope.created) /\ Below(V, manifest + 2)
      <4>1. Good(V, tried, scope.created) /\ Below(V, manifest)
        BY <1>0, <2>1 DEF Views, Goods
      <4>2. manifest + 2 \in Nat /\ manifest <= manifest + 2
        BY <1>2
      <4> QED
        BY <1>2, <4>1, <4>2, BelowMore
    <3>2. Below(Durable', manifest + 2)
      BY <1>2, <1>7, <2>2, <2>4 DEF Below
    <3> QED
      BY <1>4, <2>9, <3>1, <3>2
  <2>12. Views'
    <3>1. Goods'
      BY <1>9, <2>2, <2>4, <2>6, <2>8, <2>10, <2>11 DEF Goods
    <3>2. Complete(Now') /\ Complete(Durable')
      BY <2>2, <2>4, <2>6 DEF Complete, Holds
    <3>3. Relied'
      BY <1>0, <1>4, <1>9, <3>2 DEF Views, Relied
    <3> QED
      BY <3>1, <3>3 DEF Views
  <2>13. AtInstall' /\ pc' = "install"
    <3>1. Serving'
      BY <1>2, <1>4, <1>6, <1>7, <1>9, <2>1, <2>10 DEF Serving, Described
    <3>2. Synced'
      BY <1>4, <1>6, <1>9, <2>3, <2>4 DEF Synced
    <3>3. Edited' = version
      BY <1>9, <2>1 DEF Edited
    <3> QED
      BY <1>1, <1>9, <2>1, <2>2, <2>4, <2>10, <3>1, <3>2, <3>3 DEF AtInstall
  <2> QED
    BY <1>0, <1>4, <1>9, <1>10, <2>12, <2>13 DEF Inv, Places, Phase
<1> QED
  BY <1>0, <1>11, <1>12 DEF Setting

LEMMA InvDeleteObsolete ==
    ASSUME Inv, DeleteObsolete
    PROVE  Inv'
<1>0. /\ FilesOK /\ Views /\ MemoryOK /\ scope.created \in BOOLEAN
      /\ DOMAIN Now = DOMAIN dir /\ DOMAIN Durable = DOMAIN dir
      /\ AtOpen /\ (reliance = "none" => Synced) /\ TablesThere /\ reliance # "lost"
  BY DEF Inv, Now, Durable, MemoryOK, Phase, DeleteObsolete
<1>1. inode' = inode /\ UNCHANGED <<mem, past>> /\ scope' = scope /\ tried' = tried
      /\ reliance' = reliance
  BY DEF DeleteObsolete, past
<1>2. MemoryOK'
  BY <1>0, <1>1 DEF MemoryOK, mem, past
<1>3. /\ Opens /\ Now[CURRENT] = <<manifest>> /\ Described /\ version = Replay(LogOf(Now))
      /\ ~fresh /\ Bound <= nextFile
  BY <1>0 DEF AtOpen, Serving
<1>4. CASE Obsolete = {} /\ pc' = "open" /\ dirs' = dirs
  <2>1. FilesOK' /\ Views' /\ dir' = dir /\ Now' = Now /\ (Opens' <=> Opens) /\ Bound' = Bound
    BY <1>0, <1>1, <1>4, StillFiles
  <2>2. AtOpen' /\ TablesThere'
    BY <1>0, <1>1, <1>3, <2>1 DEF AtOpen, Serving, Described, TablesThere, mem
  <2> QED
    BY <1>0, <1>1, <1>2, <1>4, <2>1, <2>2 DEF Inv, Places, Phase
<1>5. ASSUME NEW x \in Obsolete, dirs' = Append(dirs, Unbind(dir, x)), pc' = pc
      PROVE  Inv'
  <2> DEFINE G == {x}
  <2>1. dirs' = Append(dirs, [y \in DOMAIN dir \ G |-> dir[y]])
    BY <1>5 DEF Unbind
  <2>2. /\ x # CURRENT /\ x # Descriptor(manifest)
        /\ \A t \in version : x # Table(t.number)
    <3>1. manifest \in Nat
      BY <1>0 DEF MemoryOK
    <3>2. x # CURRENT
      BY <1>5 DEF Obsolete, CURRENT
    <3>3. x # Descriptor(manifest)
      BY <1>5, <3>1 DEF Obsolete, Descriptor
    <3>4. \A t \in version : x # Table(t.number)
      BY <1>5 DEF Obsolete, Table
    <3> QED
      BY <3>2, <3>3, <3>4
  <2>3. x \in G /\ \A y \in G : y = x
    OBVIOUS
  <2> HIDE DEF G
  <2>4. CURRENT \notin G /\ Descriptor(manifest) \notin G /\ \A t \in version : Table(t.number) \notin G
    BY <2>2, <2>3
  <2>5. /\ FilesOK' /\ Durables' = Durables \cup {Durable'}
        /\ DOMAIN dir' = DOMAIN dir \ G /\ \A y \in DOMAIN dir \ G : dir'[y] = dir[y]
        /\ DOMAIN Now' = DOMAIN Now \ G /\ \A y \in DOMAIN Now \ G : Now'[y] = Now[y]
        /\ DOMAIN Durable' = DOMAIN Durable \ G
        /\ \A y \in DOMAIN Durable \ G : Durable'[y] = Durable[y]
    BY <1>0, <1>1, <2>1, <2>4, DropChanges
  <2>6. ButIn(G, Now, Now') /\ ButIn(G, Durable, Durable')
    BY <2>5 DEF ButIn
  <2>7. Called(Now) = manifest
    BY <1>3 DEF Called
  <2>8. Spares(G, Now)
    BY <1>3, <2>4, <2>7 DEF Spares
  <2>9. ASSUME reliance = "none"
        PROVE  Views' /\ Same(Now, Now')
    <3>1. Called(Durable) = manifest /\ LogOf(Durable) = LogOf(Now)
      BY <1>0, <2>9 DEF Synced, Holds, Called, LogOf
    <3>2. Spares(G, Durable)
      BY <1>3, <2>4, <3>1 DEF Spares
    <3>3. \A W \in Durables' : \E V \in Durables : W = V \/ (Spares(G, V) /\ ButIn(G, V, W))
      <4>1. Durable \in Durables
        BY <1>0, ViewFacts DEF FilesOK
      <4> QED
        BY <2>5, <2>6, <3>2, <4>1
    <3> QED
      BY <1>0, <1>1, <2>6, <2>8, <3>2, <3>3, QuietStep
  \* The manifest has records that may be lost, and with them the deletion of the
  \* tables that go; what is left is good all the same.
  <2>10. ASSUME reliance # "none"
         PROVE  Views' /\ Same(Now, Now')
    <3>1. /\ Good(Now, tried, scope.created) /\ Durable \in Durables
          /\ \A V \in Durables : Good(V, tried, scope.created) /\ Below(V, Bound)
          /\ reliance = "unsynced" /\ Complete(Now)
      BY <1>0, <1>3, <2>10, ViewFacts DEF Views, Goods, Relied, FilesOK
    <3>2. Good(Now', tried, scope.created) /\ Same(Now, Now') /\ Complete(Now')
      <4>1. Good(Now', tried, scope.created) /\ Same(Now, Now')
        BY <1>0, <2>6, <2>8, <3>1, Frame
      <4> QED
        BY <2>6, <2>8, <3>1, <4>1, FrameComplete
    <3>3. Holds(Durable, CURRENT, <<manifest>>)
      BY <1>0, <1>3, CurrentIsDurable DEF Opens
    <3>4. CURRENT \in DOMAIN Durable /\ Called(Durable) = manifest
      BY <3>3 DEF Holds, Called
    <3>5. Good(Durable', tried, scope.created) /\ Same(Durable, Durable')
      <4>1. Good(Durable, tried, scope.created) /\ scope.created \in BOOLEAN
        BY <1>0, <3>1
      <4>2. CURRENT \notin G /\ Descriptor(Called(Durable)) \notin G
        BY <2>4, <3>4
      <4> QED
        BY <2>5, <3>4, <4>1, <4>2, FrameDrop
    <3>6. Opens' /\ Bound' = Bound /\ LogOf(Now') = LogOf(Now)
      BY <1>3, <3>2 DEF Same, Opens, Bound
    <3>7. \A V \in Durables' : Good(V, tried, scope.created) /\ Below(V, Bound)
      BY <2>5, <3>1, <3>5, SameBelow
    <3>8. \A t \in Replay(LogOf(Now)) : Holds(Durable', Table(t.number), <<t.stamp>>)
      <4>1. \A t \in Replay(LogOf(Now)) : Holds(Durable, Table(t.number), <<t.stamp>>)
        BY <1>0, <1>3, <3>1, OpensFacts
      <4> QED
        BY <1>3, <2>4, <2>5, <4>1 DEF Holds
    <3>9. Goods'
      BY <1>1, <3>2, <3>6, <3>7, <3>8 DEF Goods
    <3>10. Relied'
      BY <1>1, <3>1, <3>2 DEF Relied
    <3> QED
      BY <3>2, <3>9, <3>10 DEF Views
  <2>a. /\ Views' /\ Same(Now, Now') /\ Opens' /\ Bound' = Bound /\ LogOf(Now') = LogOf(Now)
    <3>1. Views' /\ Same(Now, Now')
      BY <2>9, <2>10
    <3> QED
      BY <1>3, <3>1 DEF Same, Opens, Bound
  <2>11. /\ \A y, z : y \notin G /\ Holds(Now, y, z) => Holds(Now', y, z)
         /\ \A y, z : y \notin G /\ Holds(Durable, y, z) => Holds(Durable', y, z)
    BY <2>5 DEF Holds
  <2>12. Serving'
    <3>1. Now'[CURRENT] = <<manifest>>
      BY <1>3, <2>a DEF Same, Opens
    <3> QED
      BY <1>1, <1>3, <2>4, <2>5, <2>a, <3>1 DEF Serving, Described, mem
  <2>13. AtOpen' /\ (reliance' = "none" => Synced') /\ TablesThere'
    BY <1>0, <1>1, <1>3, <2>4, <2>a, <2>11, <2>12 DEF AtOpen, Synced, TablesThere, mem
  <2> QED
    BY <1>0, <1>1, <1>2, <1>5, <2>5, <2>a, <2>13 DEF Inv, Places, Phase, DeleteObsolete
<1> QED
  BY <1>4, <1>5 DEF DeleteObsolete

\* A call that fails deletes only a file that nobody needs.
LEMMA AbandonedIsUnused ==
    ASSUME Inv, pc \in Failing, NEW x \in Abandoned
    PROVE  Unused(x)
<1>0. /\ FilesOK /\ Views /\ MemoryOK
  BY DEF Inv
<1>1. CASE x = Temp(manifest) /\ InSetCurrent
  <2>1. Setting
    BY <1>1 DEF Inv, Phase, InSetCurrent, AtSyncTemp, AtRename
  <2>2. CURRENT \in DOMAIN dir => Opens
    BY <2>1 DEF Setting, FirstMade, Making, Renewed, Renewing
  <2> QED
    BY <1>1, <2>2, NamesDiffer DEF Unused, Free
<1>2. CASE x = Table(nextFile - 1) /\ pc = "synctable"
  <2>1. Opens /\ Bound < nextFile
    BY <1>2 DEF Inv, Phase, Recording, Serving, Unrecorded
  <2>2. nextFile - 1 \in Nat /\ Bound <= nextFile - 1
    BY <1>0, <2>1, OpensFacts DEF MemoryOK
  <2> QED
    BY <1>2, <2>1, <2>2, NamesDiffer DEF Unused, Free
<1>3. CASE x = Descriptor(manifest) /\ fresh /\ ~(descriptor = 0 /\ InSetCurrent)
  <2>1. CURRENT \notin DOMAIN dir \/ (Opens /\ Bound = manifest)
    <3>1. CASE pc = "new"
      BY <1>3, <3>1 DEF Inv, Phase, AtNew
    <3>2. CASE pc = "newrecord"
      BY <3>2 DEF Inv, Phase, AtNewRecord, Making
    <3>3. CASE InSetCurrent
      <4>1. Setting /\ descriptor # 0
        BY <1>3, <3>3 DEF Inv, Phase, InSetCurrent, AtSyncTemp, AtRename
      <4> QED
        BY <4>1 DEF Setting, FirstMade, Making, Renewed, Renewing
    <3>4. CASE pc = "snapshot"
      BY <3>4 DEF Inv, Phase, AtSnapshot, Renewing
    <3>5. CASE pc = "addrecord"
      <4>1. AtAddRecord
        BY <3>5 DEF Inv, Phase
      <4> QED
        BY <1>3, <4>1 DEF AtAddRecord, Renewing, Recording
    <3>6. CASE pc \in {"syncdir", "sync"}
      <4>1. AtSync
        BY <3>6 DEF Inv, Phase
      <4> QED
        BY <1>3, <4>1 DEF AtSync, Renewing, Recording
    <3>7. CASE pc = "synctable"
      BY <1>3, <3>7 DEF Inv, Phase, Recording
    <3> QED
      BY <3>1, <3>2, <3>3, <3>4, <3>5, <3>6, <3>7 DEF Failing, InSetCurrent
  <2>2. manifest \in Nat
    BY <1>0 DEF MemoryOK
  <2>3. CURRENT \in DOMAIN dir => Opens /\ manifest \in Nat /\ Bound <= manifest
    BY <2>1, <2>2
  <2> QED
    BY <1>3, <2>3, NamesDiffer DEF Unused, Free
<1> QED
  BY <1>1, <1>2, <1>3 DEF Abandoned

\* A running database, where a call fails.
LEMMA FailsRunning ==
    ASSUME Inv, pc \in Failing, ~fresh
    PROVE  \/ pc = "new" /\ AtNew /\ Abandoned = {}
           \/ /\ pc \in {"addrecord", "syncdir", "sync"} /\ Recording /\ Abandoned = {}
              /\ pc = "addrecord" => Unrecorded /\ Holds(Durable, Table(nextFile - 1), <<stamp>>)
           \/ pc = "synctable" /\ Recording /\ Abandoned \subseteq {Table(nextFile - 1)}
<1>1. pc \notin {"newrecord", "settemp", "synctemp", "rename", "snapshot"}
  BY DEF Inv, Phase, AtNewRecord, Making, AtSyncTemp, AtRename, Setting, FirstMade, Renewed,
         AtSnapshot, Renewing
<1>2. ~InSetCurrent
  BY <1>1 DEF InSetCurrent
<1>3. Abandoned \subseteq {Table(nextFile - 1)} /\ (pc # "synctable" => Abandoned = {})
  BY <1>2 DEF Abandoned
<1>4. CASE pc = "new"
  BY <1>3, <1>4 DEF Inv, Phase
<1>5. CASE pc = "addrecord"
  <2>1. AtAddRecord
    BY <1>5 DEF Inv, Phase
  <2> QED
    BY <1>3, <1>5, <2>1 DEF AtAddRecord, Renewing
<1>6. CASE pc \in {"syncdir", "sync"}
  <2>1. AtSync
    BY <1>6 DEF Inv, Phase
  <2> QED
    BY <1>3, <1>6, <2>1 DEF AtSync, Renewing
<1>7. CASE pc = "synctable"
  BY <1>3, <1>7 DEF Inv, Phase
<1> QED
  BY <1>1, <1>4, <1>5, <1>6, <1>7 DEF Failing

LEMMA InvFail ==
    ASSUME Inv, Fail
    PROVE  Inv'
<1> DEFINE G == Abandoned
<1>0. /\ FilesOK /\ Views /\ MemoryOK /\ scope.created \in BOOLEAN
      /\ DOMAIN Now = DOMAIN dir /\ DOMAIN Durable = DOMAIN dir /\ reliance # "lost"
  BY DEF Inv, Now, Durable, MemoryOK, Fail, Failing
<1>1. /\ pc \in Failing /\ UNCHANGED <<mem, scope, stamp, reliance>>
      /\ dirs' = IF G = {} THEN dirs ELSE Append(dirs, [y \in DOMAIN dir \ G |-> dir[y]])
      /\ tried' = IF pc = "addrecord" THEN tried \cup {Edited} ELSE tried
      /\ \/ fresh /\ pc' = "closed" /\ inode' = inode
         \/ ~fresh /\ pc' = "failed" /\ inode' = inode
         \/ ~fresh /\ pc = "addrecord" /\ pc' = "failed" /\ AddRecord(descriptor, edit)
  BY DEF Fail, AfterError, Edited
<1>2. MemoryOK'
  BY <1>0, <1>1 DEF MemoryOK, mem
<1>3. \A x \in G : Unused(x)
  BY <1>1, AbandonedIsUnused
<1> HIDE DEF G
<1>4. /\ Spares(G, Now) /\ Spares(G, Durable) /\ \A V \in Durables : Spares(G, V)
      /\ CURRENT \notin G
  BY <1>0, <1>3, UnusedIsSpared
<1>5. ASSUME inode' = inode
      PROVE  /\ FilesOK' /\ Views'
             /\ \A y \in DOMAIN dir \ G : y \in DOMAIN dir' /\ dir'[y] = dir[y]
             /\ \A y, z : y \notin G /\ Holds(Now, y, z) => Holds(Now', y, z)
  <2>1. /\ FilesOK' /\ \A y \in DOMAIN dir \ G : y \in DOMAIN dir' /\ dir'[y] = dir[y]
        /\ ButIn(G, Now, Now') /\ ButIn(G, Durable, Durable')
        /\ Durables' \subseteq Durables \cup {Durable'}
    <3>1. CASE G = {}
      <4>1. dirs' = dirs
        BY <1>1, <3>1
      <4>2. dir' = dir /\ Now' = Now /\ Durable' = Durable
        BY <1>5, <4>1 DEF dir, Now, Durable, Kept
      <4>3. Durables' = Durables
        BY <1>5, <4>1 DEF Durables, DurableAt, Kept
      <4>4. FilesOK'
        BY <1>0, <1>5, <4>1 DEF FilesOK, Files, OneName, CurrentStays
      <4> QED
        BY <4>2, <4>3, <4>4 DEF ButIn
    <3>2. CASE G # {}
      <4>1. dirs' = Append(dirs, [y \in DOMAIN dir \ G |-> dir[y]])
        BY <1>1, <3>2
      <4>2. /\ FilesOK' /\ Durables' = Durables \cup {Durable'}
            /\ DOMAIN dir' = DOMAIN dir \ G /\ \A y \in DOMAIN dir \ G : dir'[y] = dir[y]
            /\ DOMAIN Now' = DOMAIN Now \ G /\ \A y \in DOMAIN Now \ G : Now'[y] = Now[y]
            /\ DOMAIN Durable' = DOMAIN Durable \ G
            /\ \A y \in DOMAIN Durable \ G : Durable'[y] = Durable[y]
        BY <1>0, <1>4, <1>5, <4>1, DropChanges
      <4> QED
        BY <4>2 DEF ButIn
    <3> QED
      BY <3>1, <3>2
  <2>2. \A W \in Durables' : \E V \in Durables : W = V \/ (Spares(G, V) /\ ButIn(G, V, W))
    <3>1. Durable \in Durables
      BY <1>0, ViewFacts DEF FilesOK
    <3> QED
      BY <1>4, <2>1, <3>1
  <2>3. tried \subseteq tried' /\ scope' = scope /\ reliance' = reliance
    BY <1>1
  <2>4. Views'
    BY <1>0, <1>4, <2>1, <2>2, <2>3, QuietStep
  <2>5. \A y, z : y \notin G /\ Holds(Now, y, z) => Holds(Now', y, z)
    BY <2>1 DEF Holds, ButIn
  <2> QED
    BY <2>1, <2>4, <2>5
<1>6. CASE fresh
  <2>1. FilesOK' /\ Views' /\ pc' = "closed"
    BY <1>1, <1>5, <1>6
  <2> QED
    BY <1>0, <1>1, <1>2, <2>1 DEF Inv, Places, Phase
<1>7. CASE ~fresh
  <2>0. \/ pc = "new" /\ AtNew /\ G = {}
        \/ /\ pc \in {"addrecord", "syncdir", "sync"} /\ Recording /\ G = {}
           /\ pc = "addrecord" => Unrecorded /\ Holds(Durable, Table(nextFile - 1), <<stamp>>)
        \/ pc = "synctable" /\ Recording /\ G \subseteq {Table(nextFile - 1)}
    BY <1>1, <1>7, FailsRunning DEF G
  <2>1. pc' = "failed" /\ ~fresh' /\ manifest' = manifest /\ descriptor' = descriptor
        /\ version' = version
    BY <1>1, <1>7 DEF mem
  <2>2. TablesThere \/ version = {}
    BY <2>0 DEF Inv, AtNew
  <2>3. descriptor # 0 => Described
    BY <2>0 DEF AtNew, Recording, Serving
  <2>4. Descriptor(manifest) \notin G /\ \A t \in version : Table(t.number) \notin G
    <3>1. CASE G = {}
      BY <3>1
    <3>2. CASE Recording /\ G \subseteq {Table(nextFile - 1)}
      <4>1. \A t \in version : t.number \in Nat /\ t.number < nextFile - 1
        BY <1>0, <3>2 DEF Recording, MemoryOK, Item
      <4>2. nextFile - 1 \in Nat
        BY <1>0 DEF MemoryOK
      <4>3. \A t \in version : t.number # nextFile - 1
        BY <4>1, <4>2
      <4> QED
        BY <3>2, <4>3, NamesDiffer
    <3> QED
      BY <2>0, <3>1, <3>2
  <2>5. CASE inode' = inode
    <3>1. /\ FilesOK' /\ Views'
          /\ \A y \in DOMAIN dir \ G : y \in DOMAIN dir' /\ dir'[y] = dir[y]
          /\ \A y, z : y \notin G /\ Holds(Now, y, z) => Holds(Now', y, z)
      BY <1>5, <2>5
    <3>2. TablesThere' /\ (descriptor' # 0 => Described')
      BY <2>1, <2>2, <2>3, <2>4, <3>1 DEF TablesThere, Described
    <3> QED
      BY <1>0, <1>1, <1>2, <2>1, <3>1, <3>2 DEF Inv, Places, Phase
  <2>6. CASE pc = "addrecord" /\ AddRecord(descriptor, edit)
    <3>1. /\ Recording /\ Unrecorded /\ Holds(Durable, Table(nextFile - 1), <<stamp>>)
          /\ G = {}
      BY <2>0, <2>6
    <3>2. dirs' = dirs /\ tried' = tried \cup {Edited}
      BY <1>1, <2>6, <3>1
    <3>3. FilesOK' /\ Views' /\ TablesThere' /\ Recording'
      BY <1>1, <2>6, <3>1, <3>2, TableIsRecorded
    <3>4. Described'
      BY <3>3 DEF Recording, Serving
    <3> QED
      BY <1>0, <1>1, <1>2, <2>1, <3>3, <3>4 DEF Inv, Places, Phase
  <2> QED
    BY <1>1, <1>7, <2>5, <2>6
<1> QED
  BY <1>6, <1>7

\* A power failure leaves one of the views, and all of them are good.
LEMMA InvPowerFails ==
    ASSUME Inv, ~WriteBack, PowerFails
    PROVE  Inv'
<1>0. FilesOK /\ Views /\ MemoryOK
  BY DEF Inv
<1>1. /\ UNCHANGED <<mem, scope, tried, stamp>> /\ pc' = "closed"
      /\ reliance' = IF reliance = "unsynced" THEN "lost" ELSE reliance
  BY DEF PowerFails, Die
<1>2. MemoryOK'
  BY <1>0, <1>1 DEF MemoryOK, mem
<1>3. PICK p \in 1 .. Len(dirs) : dirs' = <<dirs[p]>>
  BY DEF PowerFails
<1>4. inode' = [i \in 1 .. Len(inode) |-> Lost(inode[i])]
  BY DEF PowerFails
<1>5. FilesOK' /\ Durables' = {Now'} /\ Durable' = Now' /\ Now' \in Durables
  BY <1>0, <1>3, <1>4, PowerChanges
<1>6. Good(Now', tried, scope.created)
  BY <1>0, <1>5 DEF Views, Goods
<1>7. ASSUME Opens'
      PROVE  /\ Below(Now', Bound')
             /\ \A t \in Replay(LogOf(Now')) :
                    Table(t.number) \in DOMAIN Now' => Holds(Now', Table(t.number), <<t.stamp>>)
  <2>1. /\ CURRENT \in DOMAIN Now' /\ LogOf(Now') # << >>
        /\ Sound(Now', LogOf(Now'), Called(Now'), tried) /\ Bound' = LastNext(LogOf(Now'))
    BY <1>6, <1>7 DEF Good, Opens, Bound
  <2>2. LastNext(LogOf(Now')) \in Nat
    BY <2>1, LogFacts DEF Sound
  <2>3. \A t \in Replay(LogOf(Now')) :
            Table(t.number) \in DOMAIN Now' => Holds(Now', Table(t.number), <<t.stamp>>)
    BY <2>1 DEF Sound, Holds
  <2>4. Below(Now', Bound')
    BY <2>1, <2>2 DEF Sound, Below
  <2> QED
    BY <2>3, <2>4
<1>8. Views'
  <2>1. Goods'
    BY <1>1, <1>5, <1>6, <1>7 DEF Goods
  <2>2. Relied'
    BY <1>0, <1>1, <1>5 DEF Views, Relied
  <2> QED
    BY <2>1, <2>2 DEF Views
<1> QED
  BY <1>1, <1>2, <1>5, <1>8 DEF Inv, Places, Phase

LEMMA InvNext ==
    ASSUME Inv, ~WriteBack, [Next]_vars
    PROVE  Inv'
<1>1. CASE SetCurrentFile
  BY <1>1, InvSetTemp, InvRename
<1>2. CASE \E del \in SUBSET version : WriteTable(del)
  BY <1>2, InvWriteTable
<1> QED
  BY <1>1, <1>2, InvOpen, InvNewDB, InvRecover, InvCorrupted, InvSyncTable, InvWriteSnapshot,
     InvLogAndApply, InvSyncDir, InvSyncFd, InvInstall, InvDeleteObsolete, InvFail, InvClosed,
     InvPowerFails, InvStutter DEF Next

-----------------------------------------------------------------------------
LEMMA InvTypes ==
    ASSUME Inv
    PROVE  TypeOK
<1>0. FilesOK /\ MemoryOK
  BY DEF Inv
<1>1. \A i \in 1 .. Len(inode) : inode[i].synced \in 0 .. Len(inode[i].data)
  <2> TAKE i \in 1 .. Len(inode)
  <2>1. inode[i] \in File /\ inode[i].synced <= Len(inode[i].data)
    BY <1>0, DirIsLast DEF FilesOK
  <2>2. inode[i].synced \in Nat /\ Len(inode[i].data) \in Nat
    BY <2>1, LenProperties DEF File, Content
  <2> QED
    BY <2>1, <2>2
<1>2. ASSUME descriptor # 0, pc \notin {"closed", "corrupt"}
      PROVE  Described
  <2>1. pc \in Places /\ Phase
    BY DEF Inv
  <2>2. CASE pc \in {"new", "newrecord", "recover", "snapshot"}
    BY <1>2, <2>1, <2>2 DEF Phase, AtNew, AtNewRecord, Making, AtRecover, AtSnapshot
  <2>3. CASE pc \in {"settemp", "synctemp", "rename"}
    <3>1. Setting
      BY <2>1, <2>3 DEF Phase, AtSyncTemp, AtRename
    <3> QED
      BY <1>2, <3>1 DEF Setting, FirstMade, Making, Renewed
  <2>4. CASE pc \in {"addrecord", "syncdir", "sync"}
    <3>1. AtAddRecord \/ AtSync
      BY <2>1, <2>4 DEF Phase
    <3> QED
      BY <3>1 DEF AtAddRecord, AtSync, Recording, Serving
  <2>5. CASE pc \in {"install", "delete", "open", "synctable"}
    <3>1. Serving
      BY <2>1, <2>5 DEF Phase, AtInstall, AtOpen, Recording
    <3> QED
      BY <3>1 DEF Serving
  <2>6. CASE pc = "failed"
    BY <1>2, <2>1, <2>6 DEF Phase
  <2> QED
    BY <1>2, <2>1, <2>2, <2>3, <2>4, <2>5, <2>6 DEF Places
<1> QED
  BY <1>0, <1>1, <1>2 DEF TypeOK, FilesOK, Files, MemoryOK, Described

LEMMA InvTables ==
    ASSUME Inv
    PROVE  TablesExist
<1> SUFFICES ASSUME pc \notin {"closed", "new", "newrecord", "recover", "corrupt"}, NEW t \in version
             PROVE  /\ Table(t.number) \in DOMAIN dir
                    /\ inode[dir[Table(t.number)]].data = <<t.stamp>>
  BY DEF TablesExist
<1>1. Holds(Now, Table(t.number), <<t.stamp>>) /\ Files
  BY DEF Inv, TablesThere, FilesOK
<1> QED
  BY <1>1, ViewFacts DEF Holds

\* However calls, crashes, power failures and I/O errors interleave, and whether
\* ReuseManifest takes the old manifest or not: every table that the version of a
\* running database names is there, whole and under a number of its own, whatever
\* DeleteObsoleteFiles and failed calls have deleted; the descriptor is the manifest
\* of its number; and DBImpl::Recover never reports a database corrupt, nor misses a
\* table of one, that was once created and closed, unless the power failed after an
\* Open that took over a manifest with records that were not synced.
THEOREM DatabaseAlwaysOpens ==
    ASSUME ~WriteBack
    PROVE  Spec => []DatabaseOpens
<1>1. Init => Inv
  BY InvInit
<1>2. Inv /\ [Next]_vars => Inv'
  BY InvNext
<1>3. Inv => NeverCorrupt
  BY DEF Inv, Phase, NeverCorrupt
<1>4. Inv => DatabaseOpens
  BY <1>3, InvTypes, InvTables DEF DatabaseOpens
<1> QED
  BY <1>1, <1>2, <1>4, PTL DEF Spec

\* VersionSet::Recover installs what a running database installed last or tried to
\* record since: an installed version is never undone.
THEOREM NothingIsForgotten ==
    ASSUME ~WriteBack
    PROVE  Spec => NothingForgotten
<1>1. Init => Inv
  BY InvInit
<1>2. Inv /\ [Next]_vars => Inv'
  BY InvNext
<1>3. Inv /\ [Next]_vars => [pc = "recover" /\ pc' # "corrupt" /\ pc' # "closed" =>
                                version' \in tried]_vars
  <2> SUFFICES ASSUME Inv, [Next]_vars, vars' # vars,
                      pc = "recover", pc' # "corrupt", pc' # "closed"
               PROVE  version' \in tried
    BY DEF vars
  <2>1. Recover
    BY DEF Next, Open, NewDB, SetCurrentFile, Corrupted, WriteTable, SyncTable, WriteSnapshot,
           LogAndApply, SyncDirIfManifest, SyncFd, Install, DeleteObsolete, Fail, Failing, Close,
           Exit, PowerFails, Die
  <2>2. FilesOK /\ Views /\ CURRENT \in DOMAIN dir
    BY DEF Inv, Phase, AtRecover
  <2>3. Opens /\ version' = Replay(LogOf(Now))
    BY <2>1, <2>2, RecoverReads DEF Recover
  <2> QED
    BY <2>2, <2>3, OpensFacts
<1> QED
  BY <1>1, <1>2, <1>3, PTL DEF Spec, NothingForgotten

=============================================================================
