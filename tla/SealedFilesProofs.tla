------------------------- MODULE SealedFilesProofs --------------------------
(***************************************************************************)
(* Proofs about SealedFiles: what was answered is on the disk, whole.      *)
(* FilesInv says who may have which inode open, what the temporary file of *)
(* a path holds, and what each request may rely on, for every number of    *)
(* server processes and writes.                                            *)
(***************************************************************************)
EXTENDS SealedFiles, FiniteSetTheorems, TLAPS

FileNames == [at : Inodes \cup {NoInode}, tmp : Inodes \cup {NoInode}]

FileRequests ==
    [pc : {"idle", "open", "write", "rename", "lock"}, path : Paths, val : SUBSET Nat,
     fd : Inodes \cup {NoInode}, n : Nat]

FileHistories ==
    [n : Nat, crashes : Nat, done : SUBSET Nat, put : SUBSET (SUBSET Nat),
     overlap : SUBSET Paths, created : BOOLEAN, read : SUBSET Nat, stored : BOOLEAN]

FilesTypeOK ==
    /\ node \in [Inodes -> [whole : BOOLEAN, val : SUBSET Nat]]
    /\ name \in [Paths -> FileNames]
    /\ proc \in [Servers -> FileRequests]
    /\ flhist \in FileHistories

(* Inode i is the file at path p or its temporary file, or a process has   *)
(* it open for p.                                                          *)
Uses(p, i) ==
    \/ i = name[p].at \/ i = name[p].tmp
    \/ \E s \in Servers : proc[s].path = p /\ proc[s].fd = i

(* No inode is used for two paths, nor as a file and its temporary file,   *)
(* and a process has a file open only while it writes.                     *)
Apart ==
    /\ \A s \in Servers : proc[s].pc \notin {"write", "rename"} => proc[s].fd = NoInode
    /\ \A p \in Paths : name[p].at # NoInode => name[p].at # name[p].tmp
    /\ \A p, q \in Paths, i \in Inodes : Uses(p, i) /\ Uses(q, i) => p = q

(* One process at most writes the file at p: it has the temporary file     *)
(* open, which is empty before it writes and holds its text after.         *)
Clean(p) ==
    \A s \in Servers : Writing(s, p) =>
        /\ proc[s].fd = name[p].tmp /\ name[p].tmp \in Inodes
        /\ node[name[p].tmp] = IF proc[s].pc = "write" THEN Torn ELSE Whole(proc[s].val)
        /\ \A t \in Servers : Writing(t, p) => t = s

AtUsers(s) == proc[s].path = "users" /\ proc[s].pc \in {"open", "write", "rename"}

(* What a request is at: a PUT has announced its value, a creation of      *)
(* users.enc stores no updates, and an update of it has the lock.          *)
RequestTrue(s) ==
    /\ proc[s].pc = "lock" => proc[s].path = "users" /\ proc[s].n # 0
    /\ proc[s].pc # "idle" /\ proc[s].path = "blob" => proc[s].n # 0 /\ proc[s].val \in flhist.put
    /\ proc[s].pc # "idle" /\ proc[s].path = "users" /\ proc[s].n # 0 => Exists("users")
    /\ AtUsers(s) /\ proc[s].n = 0 => proc[s].val = {}
    /\ AtUsers(s) /\ proc[s].n # 0 => usersLock = s

RequestsTrue == \A s \in Servers : RequestTrue(s)

StoredBlob == Exists("blob") => node[name["blob"].at].whole /\ node[name["blob"].at].val \in flhist.put

StoredUsers ==
    IF Exists("users")
    THEN node[name["users"].at].whole /\ flhist.done \subseteq node[name["users"].at].val
    ELSE flhist.done = {}

(* Who writes users.enc creates it, or holds a text with every update that *)
(* was answered.                                                           *)
UsersWriters ==
    \A s \in Servers :
        /\ Writing(s, "users") /\ proc[s].n = 0 => ~Exists("users")
        /\ AtUsers(s) /\ proc[s].n # 0 => flhist.done \subseteq proc[s].val

BlobInv == "blob" \notin flhist.overlap => Clean("blob") /\ StoredBlob

UsersInv == ~flhist.created => Clean("users") /\ StoredUsers /\ UsersWriters

FilesInv == FilesTypeOK /\ Apart /\ RequestsTrue /\ BlobInv /\ UsersInv

(* A union has no more members than its parts together. *)
LEMMA UnionBound ==
    ASSUME NEW S, NEW T, IsFiniteSet(S), IsFiniteSet(T)
    PROVE  /\ IsFiniteSet(S \cup T) /\ Cardinality(S \cup T) \in Nat
           /\ Cardinality(S) \in Nat /\ Cardinality(T) \in Nat
           /\ Cardinality(S \cup T) <= Cardinality(S) + Cardinality(T)
<1>1. IsFiniteSet(S \cup T)
      /\ Cardinality(S \cup T) = Cardinality(S) + Cardinality(T) - Cardinality(S \cap T)
  BY FS_Union, Zenon
<1>2. IsFiniteSet(S \cap T)
  BY FS_Intersection, Zenon
<1>3. /\ Cardinality(S) \in Nat /\ Cardinality(T) \in Nat
      /\ Cardinality(S \cup T) \in Nat /\ Cardinality(S \cap T) \in Nat
  BY <1>1, <1>2, FS_CardinalityType, Zenon
<1> QED
  BY <1>1, <1>3

(* Two inodes at most are named for the two paths. *)
LEMMA PairBound ==
    ASSUME NEW a, NEW b
    PROVE  IsFiniteSet({a} \cup {b}) /\ Cardinality({a} \cup {b}) <= 2
<1>1. IsFiniteSet({a}) /\ IsFiniteSet({b}) /\ Cardinality({a}) = 1 /\ Cardinality({b}) = 1
  BY FS_Singleton, Zenon
<1> QED
  BY <1>1, UnionBound

(* There is an inode for a new temporary file. *)
LEMMA FreeInode == Free \in Inodes /\ Free \notin Named
<1> DEFINE A == {name["blob"].at} \cup {name["users"].at}
           T == {name["blob"].tmp} \cup {name["users"].tmp}
           F == {proc[s].fd : s \in Servers}
           f == [s \in Servers |-> proc[s].fd]
<1>1. Named = (A \cup T) \cup F
  BY DEF Named, Paths
<1>2. IsFiniteSet(A) /\ Cardinality(A) <= 2 /\ IsFiniteSet(T) /\ Cardinality(T) <= 2
  BY PairBound, Zenon
<1>3. IsFiniteSet(F) /\ Cardinality(F) <= Cardinality(Servers)
  <2>1. f \in [Servers -> F] /\ \A t \in F : \E s \in Servers : f[s] = t
    BY Zenon
  <2>2. f \in Surjection(Servers, F)
    BY <2>1, Zenon DEF Surjection
  <2> QED
    BY <2>2, FS_Surjection, InodesSuffice, Zenon
<1> HIDE DEF A, T, F, f
<1>4. IsFiniteSet(A \cup T) /\ Cardinality(A \cup T) \in Nat /\ Cardinality(A \cup T) <= 4
  BY <1>2, UnionBound
<1>5. /\ IsFiniteSet(Named) /\ Cardinality(Named) \in Nat
      /\ Cardinality(Named) <= Cardinality(A \cup T) + Cardinality(F)
      /\ Cardinality(F) \in Nat
  BY <1>1, <1>3, <1>4, UnionBound
<1>6. Cardinality(Servers) \in Nat /\ Cardinality(Inodes) \in Nat
  BY InodesSuffice, FS_CardinalityType, Zenon
<1>7. ASSUME Inodes \subseteq Named PROVE FALSE
  <2>1. Cardinality(Inodes) <= Cardinality(Named)
    BY <1>5, <1>7, FS_Subset
  <2> QED
    BY <1>3, <1>4, <1>5, <1>6, <2>1, InodesSuffice
<1> QED
  BY <1>7, Zenon DEF Free

(* What the steps of a write do to the files and to the process.           *)
LEMMA OpenFacts ==
    ASSUME FilesTypeOK, NEW s \in Servers, OpenTmp(s)
    PROVE  \E i \in Inodes :
              /\ \/ i = name[proc[s].path].tmp
                 \/ name[proc[s].path].tmp = NoInode /\ i \notin Named
              /\ node' = [node EXCEPT ![i] = Torn]
              /\ name' = [name EXCEPT ![proc[s].path] = [at |-> name[proc[s].path].at, tmp |-> i]]
              /\ proc' = [proc EXCEPT ![s] = [pc |-> "write", path |-> proc[s].path,
                                              val |-> proc[s].val, fd |-> i, n |-> proc[s].n]]
<1> DEFINE path == proc[s].path
           i == IF name[path].tmp # NoInode THEN name[path].tmp ELSE Free
<1>1. proc[s] \in FileRequests /\ path \in Paths /\ name[path] \in FileNames
  BY DEF FilesTypeOK, FileRequests
<1>2. i \in Inodes /\ (i = name[path].tmp \/ (name[path].tmp = NoInode /\ i \notin Named))
  BY <1>1, FreeInode DEF FileNames
<1>3. /\ node' = [node EXCEPT ![i] = Torn] /\ name' = [name EXCEPT ![path].tmp = i]
      /\ proc' = [proc EXCEPT ![s].pc = "write", ![s].fd = i]
  BY DEF OpenTmp
<1>4. name' = [name EXCEPT ![path] = [at |-> name[path].at, tmp |-> i]]
  <2>1. [name[path] EXCEPT !.tmp = i] = [at |-> name[path].at, tmp |-> i]
    BY <1>1 DEF FileNames
  <2>2. name' = [name EXCEPT ![path] = [name[path] EXCEPT !.tmp = i]]
    BY <1>3, Zenon
  <2> QED
    BY <2>1, <2>2, Zenon
<1>5. proc' = [proc EXCEPT ![s] = [pc |-> "write", path |-> path, val |-> proc[s].val,
                                   fd |-> i, n |-> proc[s].n]]
  <2> DEFINE r == [pc |-> "write", path |-> path, val |-> proc[s].val, fd |-> proc[s].fd, n |-> proc[s].n]
  <2>1. [proc[s] EXCEPT !.pc = "write"] = r
    BY <1>1 DEF FileRequests
  <2>2. [r EXCEPT !.fd = i]
           = [pc |-> "write", path |-> path, val |-> proc[s].val, fd |-> i, n |-> proc[s].n]
    OBVIOUS
  <2>3. proc' = [proc EXCEPT ![s] = [[proc[s] EXCEPT !.pc = "write"] EXCEPT !.fd = i]]
    BY <1>3, Zenon DEF FilesTypeOK
  <2> QED
    BY <2>1, <2>2, <2>3, Zenon
<1> QED
  BY <1>2, <1>3, <1>4, <1>5, Zenon

LEMMA WriteFacts ==
    ASSUME FilesTypeOK, NEW s \in Servers, WriteTmp(s)
    PROVE  /\ \E text \in {Whole(proc[s].val), Torn} :
                 /\ ~node[proc[s].fd].whole => text = Whole(proc[s].val)
                 /\ node' = [node EXCEPT ![proc[s].fd] = text]
           /\ proc' = [proc EXCEPT ![s] = [pc |-> "rename", path |-> proc[s].path,
                                           val |-> proc[s].val, fd |-> proc[s].fd, n |-> proc[s].n]]
           /\ UNCHANGED <<name, usersLock, flhist>>
<1>1. proc[s] \in FileRequests
  BY DEF FilesTypeOK
<1>2. proc' = [proc EXCEPT ![s].pc = "rename"]
  BY DEF WriteTmp
<1>3. proc' = [proc EXCEPT ![s] = [pc |-> "rename", path |-> proc[s].path,
                                   val |-> proc[s].val, fd |-> proc[s].fd, n |-> proc[s].n]]
  <2>1. [proc[s] EXCEPT !.pc = "rename"]
           = [pc |-> "rename", path |-> proc[s].path, val |-> proc[s].val,
              fd |-> proc[s].fd, n |-> proc[s].n]
    BY <1>1 DEF FileRequests
  <2>2. proc' = [proc EXCEPT ![s] = [proc[s] EXCEPT !.pc = "rename"]]
    BY <1>2, Zenon
  <2> QED
    BY <2>1, <2>2, Zenon
<1>4. \E text \in {Whole(proc[s].val), Torn} :
         /\ ~node[proc[s].fd].whole => text = Whole(proc[s].val)
         /\ node' = [node EXCEPT ![proc[s].fd] = text]
  BY Zenon DEF WriteTmp
<1> QED
  BY <1>3, <1>4, Zenon DEF WriteTmp

(* Where the rename leaves the process. *)
LEMMA RenamedFacts ==
    ASSUME FilesTypeOK, NEW s \in Servers, NEW ok \in BOOLEAN
    PROVE  /\ Renamed(s, ok) \in FileRequests
           /\ Renamed(s, ok).fd = NoInode /\ Renamed(s, ok).val = {}
           /\ Renamed(s, ok).pc \in {"idle", "lock"}
           /\ Renamed(s, ok).pc = "lock" =>
                 ok /\ proc[s].n = 0 /\ Renamed(s, ok).path = "users" /\ Renamed(s, ok).n # 0
<1>1. flhist.n + 1 \in Nat /\ flhist.n + 1 # 0
  BY DEF FilesTypeOK, FileHistories
<1>2. CASE proc[s].n = 0
  <2>1. Renamed(s, ok) = [pc |-> IF ok THEN "lock" ELSE "idle", path |-> "users", val |-> {},
                          fd |-> NoInode, n |-> flhist.n + 1]
    BY <1>2, Zenon DEF Renamed, AtRest
  <2> QED
    BY <1>1, <1>2, <2>1 DEF FileRequests, Paths
<1>3. CASE proc[s].n # 0
  <2>1. Renamed(s, ok) = [pc |-> "idle", path |-> "blob", val |-> {}, fd |-> NoInode, n |-> 0]
    BY <1>3 DEF Renamed, AtRest
  <2> QED
    BY <2>1 DEF FileRequests, Paths
<1> QED
  BY <1>2, <1>3

LEMMA RenameFacts ==
    ASSUME FilesTypeOK, NEW s \in Servers, RenameTmp(s)
    PROVE  \E ok \in BOOLEAN :
              /\ ok <=> name[proc[s].path].tmp # NoInode
              /\ name' = IF ok THEN [name EXCEPT ![proc[s].path] =
                                        [at |-> name[proc[s].path].tmp, tmp |-> NoInode]]
                               ELSE name
              /\ proc' = [proc EXCEPT ![s] = Renamed(s, ok)]
              /\ flhist' \in FileHistories
              /\ flhist'.put = flhist.put /\ flhist'.overlap = flhist.overlap
              /\ flhist'.created = flhist.created
              /\ flhist'.done = IF proc[s].path = "users" /\ ok THEN flhist.done \cup proc[s].val
                                                                ELSE flhist.done
              /\ usersLock' = IF usersLock = s THEN nobody ELSE usersLock
              /\ node' = node
<1> DEFINE ok == name[proc[s].path].tmp # NoInode
<1>1. flhist \in FileHistories /\ proc[s].val \in SUBSET Nat
  BY DEF FilesTypeOK, FileRequests
<1>2. flhist' = [flhist EXCEPT !.n = IF proc[s].n = 0 /\ ok THEN @ + 1 ELSE @,
                               !.done = IF proc[s].path = "users" /\ ok THEN @ \cup proc[s].val ELSE @,
                               !.stored = @ \/ (proc[s].path = "blob" /\ ok)]
  BY Zenon DEF RenameTmp
<1>3. /\ (IF proc[s].n = 0 /\ ok THEN flhist.n + 1 ELSE flhist.n) \in Nat
      /\ (IF proc[s].path = "users" /\ ok THEN flhist.done \cup proc[s].val ELSE flhist.done) \in SUBSET Nat
  BY <1>1 DEF FileHistories
<1>4. flhist' \in FileHistories
  BY <1>1, <1>2, <1>3, Zenon DEF FileHistories
<1>5. /\ flhist'.put = flhist.put /\ flhist'.overlap = flhist.overlap
      /\ flhist'.created = flhist.created
      /\ flhist'.done = IF proc[s].path = "users" /\ ok THEN flhist.done \cup proc[s].val ELSE flhist.done
  BY <1>1, <1>2, Zenon DEF FileHistories
<1> QED
  BY <1>4, <1>5, Zenon DEF RenameTmp

(* A step that only moves a request on keeps the invariant, if the request *)
(* is still what it should be.                                             *)
LEMMA MoveKeeps ==
    ASSUME FilesInv, NEW s \in Servers, NEW r \in FileRequests,
           r.fd = NoInode, r.pc \notin {"write", "rename"},
           UNCHANGED <<node, name>>, proc' = [proc EXCEPT ![s] = r],
           flhist' \in FileHistories, flhist'.overlap = flhist.overlap,
           flhist'.created = flhist.created, flhist'.done = flhist.done,
           flhist.put \subseteq flhist'.put,
           \A t \in Servers \ {s} : usersLock = t => usersLock' = t,
           RequestTrue(s)',
           ~flhist.created /\ r.pc = "open" /\ r.path = "users" /\ r.n # 0 => flhist.done \subseteq r.val
    PROVE  FilesInv'
<1>1. FilesTypeOK /\ Apart /\ RequestsTrue /\ BlobInv /\ UsersInv
  BY DEF FilesInv
<1>2. proc'[s] = r /\ \A t \in Servers : t # s => proc'[t] = proc[t]
  BY <1>1 DEF FilesTypeOK
<1>3. FilesTypeOK'
  BY <1>1, Zenon DEF FilesTypeOK
<1>4. name' = name /\ node' = node
  OBVIOUS
<1>5. ASSUME NEW p \in Paths, NEW i \in Inodes, Uses(p, i)' PROVE Uses(p, i)
  <2>1. i # NoInode
    BY InodesSuffice
  <2> QED
    BY <1>2, <1>4, <1>5, <2>1, Zenon DEF Uses
<1>6. Apart'
  <2>1. \A t \in Servers : proc'[t].pc \notin {"write", "rename"} => proc'[t].fd = NoInode
    BY <1>1, <1>2, Zenon DEF Apart
  <2> QED
    BY <1>1, <1>4, <1>5, <2>1, Zenon DEF Apart
<1>7. ASSUME NEW p \in Paths, NEW t \in Servers, Writing(t, p)'
      PROVE  t # s /\ proc'[t] = proc[t] /\ Writing(t, p)
  BY <1>2, <1>7, Zenon DEF Writing
<1>8. ASSUME NEW p \in Paths, Clean(p) PROVE Clean(p)'
  <2>1. SUFFICES ASSUME NEW t \in Servers, Writing(t, p)'
                 PROVE  /\ proc'[t].fd = name'[p].tmp /\ name'[p].tmp \in Inodes
                        /\ node'[name'[p].tmp] = IF proc'[t].pc = "write" THEN Torn ELSE Whole(proc'[t].val)
                        /\ \A u \in Servers : Writing(u, p)' => u = t
    BY Zenon DEF Clean, Torn, Whole
  <2>2. proc'[t] = proc[t] /\ Writing(t, p)
    BY <1>7, <2>1
  <2>3. /\ proc[t].fd = name[p].tmp /\ name[p].tmp \in Inodes
        /\ node[name[p].tmp] = IF proc[t].pc = "write" THEN Torn ELSE Whole(proc[t].val)
        /\ \A u \in Servers : Writing(u, p) => u = t
    BY <1>8, <2>2, Zenon DEF Clean
  <2>4. \A u \in Servers : Writing(u, p)' => u = t
    BY <1>7, <2>3
  <2> QED
    BY <1>4, <2>2, <2>3, <2>4, Zenon
<1>9. BlobInv'
  <2>1. SUFFICES ASSUME "blob" \notin flhist.overlap PROVE Clean("blob")' /\ StoredBlob'
    BY Zenon DEF BlobInv
  <2>2. Clean("blob") /\ StoredBlob /\ "blob" \in Paths
    BY <1>1, <2>1 DEF BlobInv, Paths
  <2> QED
    BY <1>4, <1>8, <2>2, Zenon DEF StoredBlob, Exists
<1>10. UsersInv'
  <2>1. SUFFICES ASSUME ~flhist.created PROVE Clean("users")' /\ StoredUsers' /\ UsersWriters'
    BY Zenon DEF UsersInv
  <2>2. Clean("users") /\ StoredUsers /\ UsersWriters /\ "users" \in Paths
    BY <1>1, <2>1 DEF UsersInv, Paths
  <2>3. ASSUME NEW t \in Servers
        PROVE  /\ Writing(t, "users")' /\ proc'[t].n = 0 => ~Exists("users")
               /\ AtUsers(t)' /\ proc'[t].n # 0 => flhist.done \subseteq proc'[t].val
    <3>1. CASE t = s
      BY <1>2, <2>1, <3>1 DEF Writing, AtUsers
    <3>2. CASE t # s
      BY <1>2, <2>2, <3>2, Zenon DEF UsersWriters, Writing, AtUsers
    <3> QED
      BY <3>1, <3>2
  <2> QED
    BY <1>4, <1>8, <2>2, <2>3, Zenon DEF StoredUsers, UsersWriters, Exists
<1>11. ASSUME NEW t \in Servers PROVE RequestTrue(t)'
  <2>1. CASE t = s
    BY <2>1
  <2>2. CASE t # s
    <3>1. RequestTrue(t) /\ proc'[t] = proc[t]
      BY <1>1, <1>2, <2>2, Zenon DEF RequestsTrue
    <3>2. usersLock = t => usersLock' = t
      BY <2>2
    <3> QED
      BY <1>4, <3>1, <3>2, Zenon DEF RequestTrue, AtUsers, Exists
  <2> QED
    BY <2>1, <2>2
<1> QED
  BY <1>3, <1>6, <1>9, <1>10, <1>11, Zenon DEF FilesInv, RequestsTrue

(* What opening the temporary file records. *)
LEMMA OpenHistory ==
    ASSUME FilesTypeOK, NEW s \in Servers, OpenTmp(s)
    PROVE  /\ flhist' \in FileHistories
           /\ flhist'.put = flhist.put /\ flhist'.done = flhist.done
           /\ flhist.overlap \subseteq flhist'.overlap
           /\ Overlapping(s, proc[s].path) => proc[s].path \in flhist'.overlap
           /\ flhist'.created = (flhist.created \/ CreatedLate(s))
<1>1. flhist \in FileHistories /\ proc[s].path \in Paths
  BY DEF FilesTypeOK, FileRequests
<1>2. flhist' = [flhist EXCEPT !.overlap = IF Overlapping(s, proc[s].path) THEN @ \cup {proc[s].path} ELSE @,
                               !.created = @ \/ CreatedLate(s)]
  BY Zenon DEF OpenTmp
<1>3. /\ (IF Overlapping(s, proc[s].path) THEN flhist.overlap \cup {proc[s].path} ELSE flhist.overlap)
            \in SUBSET Paths
      /\ (flhist.created \/ CreatedLate(s)) \in BOOLEAN
  BY <1>1 DEF FileHistories
<1>4. flhist' \in FileHistories
  BY <1>1, <1>2, <1>3, Zenon DEF FileHistories
<1>5. /\ flhist'.put = flhist.put /\ flhist'.done = flhist.done
      /\ flhist'.overlap = IF Overlapping(s, proc[s].path) THEN flhist.overlap \cup {proc[s].path}
                                                           ELSE flhist.overlap
      /\ flhist'.created = (flhist.created \/ CreatedLate(s))
  BY <1>1, <1>2, Zenon DEF FileHistories
<1> QED
  BY <1>4, <1>5, Zenon

(* Opening the temporary file keeps the invariant: the file itself and the *)
(* files of the other path are not touched.                                *)
LEMMA OpenKeeps == ASSUME FilesInv, NEW s \in Servers, OpenTmp(s) PROVE FilesInv'
<1> DEFINE path == proc[s].path
<1>1. FilesTypeOK /\ Apart /\ RequestsTrue /\ BlobInv /\ UsersInv
  BY DEF FilesInv
<1>2. PICK i \in Inodes :
         /\ i = name[path].tmp \/ (name[path].tmp = NoInode /\ i \notin Named)
         /\ node' = [node EXCEPT ![i] = Torn]
         /\ name' = [name EXCEPT ![path] = [at |-> name[path].at, tmp |-> i]]
         /\ proc' = [proc EXCEPT ![s] = [pc |-> "write", path |-> path, val |-> proc[s].val,
                                         fd |-> i, n |-> proc[s].n]]
  BY <1>1, OpenFacts, Zenon
<1>3. path \in Paths /\ proc[s].val \in SUBSET Nat /\ proc[s].n \in Nat /\ proc[s].pc = "open"
      /\ i # NoInode /\ name[path].at \in Inodes \cup {NoInode} /\ usersLock' = usersLock
  BY <1>1, InodesSuffice DEF FilesTypeOK, FileRequests, FileNames, OpenTmp
<1>4. /\ name'[path].at = name[path].at /\ name'[path].tmp = i
      /\ \A p \in Paths : p # path => name'[p] = name[p]
  BY <1>1, <1>2, <1>3 DEF FilesTypeOK
<1>5. /\ proc'[s].pc = "write" /\ proc'[s].path = path /\ proc'[s].val = proc[s].val
      /\ proc'[s].fd = i /\ proc'[s].n = proc[s].n
      /\ \A t \in Servers : t # s => proc'[t] = proc[t]
  BY <1>1, <1>2 DEF FilesTypeOK
<1>6. node'[i] = Torn /\ \A j \in Inodes : j # i => node'[j] = node[j]
  BY <1>1, <1>2 DEF FilesTypeOK
<1>7. FilesTypeOK'
  <2>1. Torn \in [whole : BOOLEAN, val : SUBSET Nat]
    BY DEF Torn
  <2>2. node' \in [Inodes -> [whole : BOOLEAN, val : SUBSET Nat]]
    BY <1>1, <1>2, <2>1, Zenon DEF FilesTypeOK
  <2>3. [at |-> name[path].at, tmp |-> i] \in FileNames
    BY <1>3 DEF FileNames
  <2>4. name' \in [Paths -> FileNames]
    BY <1>1, <1>2, <2>3, Zenon DEF FilesTypeOK
  <2>5. [pc |-> "write", path |-> path, val |-> proc[s].val, fd |-> i, n |-> proc[s].n] \in FileRequests
    BY <1>3 DEF FileRequests
  <2>6. proc' \in [Servers -> FileRequests]
    BY <1>1, <1>2, <2>5, Zenon DEF FilesTypeOK
  <2> QED
    BY <1>1, <2>2, <2>4, <2>6, OpenHistory DEF FilesTypeOK
<1>8. ASSUME NEW q \in Paths, Uses(q, i) PROVE q = path
  <2>1. CASE i = name[path].tmp
    BY <1>1, <1>3, <1>8, <2>1, Zenon DEF Apart, Uses
  <2>2. CASE i \notin Named
    BY <1>8, <2>2, Zenon DEF Uses, Named
  <2> QED
    BY <1>2, <2>1, <2>2
<1>9. name[path].at # i
  <2>1. CASE i = name[path].tmp
    BY <1>1, <1>3, <2>1, Zenon DEF Apart
  <2>2. CASE i \notin Named
    BY <1>3, <2>2, Zenon DEF Named
  <2> QED
    BY <1>2, <2>1, <2>2
<1>10. Apart'
  <2>1. \A t \in Servers : proc'[t].pc \notin {"write", "rename"} => proc'[t].fd = NoInode
    BY <1>1, <1>5, Zenon DEF Apart
  <2>2. \A p \in Paths : name'[p].at # NoInode => name'[p].at # name'[p].tmp
    BY <1>1, <1>4, <1>9, Zenon DEF Apart
  <2>3. ASSUME NEW p \in Paths, NEW j \in Inodes, Uses(p, j)'
        PROVE  Uses(p, j) \/ (p = path /\ j = i)
    BY <1>4, <1>5, <2>3, Zenon DEF Uses
  <2>4. ASSUME NEW p \in Paths, NEW q \in Paths, NEW j \in Inodes, Uses(p, j)', Uses(q, j)'
        PROVE  p = q
    BY <1>1, <1>8, <2>3, <2>4, Zenon DEF Apart
  <2> QED
    BY <2>1, <2>2, <2>4, Zenon DEF Apart
<1>11. ASSUME NEW p \in Paths, name[p].at # NoInode
       PROVE  name'[p].at = name[p].at /\ node'[name'[p].at] = node[name[p].at]
  <2>1. name'[p].at = name[p].at /\ name[p].at \in Inodes
    BY <1>1, <1>4, <1>11 DEF FilesTypeOK, FileNames
  <2>2. name[p].at # i
    BY <1>8, <1>9, Zenon DEF Uses
  <2> QED
    BY <1>6, <2>1, <2>2, Zenon
<1>12. ASSUME NEW p \in Paths PROVE name'[p].at = name[p].at
  BY <1>4, Zenon
<1>13. ASSUME NEW p \in Paths, p # path, Clean(p) PROVE Clean(p)'
  <2>1. ASSUME NEW t \in Servers, Writing(t, p)' PROVE t # s /\ proc'[t] = proc[t] /\ Writing(t, p)
    BY <1>5, <1>13, <2>1, Zenon DEF Writing
  <2>2. name'[p] = name[p]
    BY <1>4, <1>13
  <2>3. name[p].tmp # i
    BY <1>8, <1>13, Zenon DEF Uses
  <2>4. name[p].tmp \in Inodes => node'[name[p].tmp] = node[name[p].tmp]
    BY <1>6, <2>3, Zenon
  <2> QED
    <3>1. SUFFICES ASSUME NEW t \in Servers, Writing(t, p)'
                   PROVE  /\ proc'[t].fd = name'[p].tmp /\ name'[p].tmp \in Inodes
                          /\ node'[name'[p].tmp] = IF proc'[t].pc = "write" THEN Torn ELSE Whole(proc'[t].val)
                          /\ \A u \in Servers : Writing(u, p)' => u = t
      BY Zenon DEF Clean, Torn, Whole
    <3>2. proc'[t] = proc[t] /\ Writing(t, p)
      BY <2>1, <3>1
    <3>3. /\ proc[t].fd = name[p].tmp /\ name[p].tmp \in Inodes
          /\ node[name[p].tmp] = IF proc[t].pc = "write" THEN Torn ELSE Whole(proc[t].val)
          /\ \A u \in Servers : Writing(u, p) => u = t
      BY <1>13, <3>2, Zenon DEF Clean
    <3>4. \A u \in Servers : Writing(u, p)' => u = t
      BY <2>1, <3>3
    <3>5. node'[name'[p].tmp] = node[name[p].tmp]
      BY <2>2, <2>4, <3>3
    <3> QED
      BY <2>2, <3>2, <3>3, <3>4, <3>5, Zenon
<1>14. ASSUME NEW p \in Paths, p = path, ~Overlapping(s, p) PROVE Clean(p)'
  <2>1. ASSUME NEW t \in Servers, Writing(t, p)' PROVE t = s
    BY <1>5, <1>14, <2>1, Zenon DEF Overlapping, Writing
  <2> QED
    BY <1>4, <1>5, <1>6, <1>14, <2>1 DEF Clean, Writing
<1>15. BlobInv'
  <2>1. SUFFICES ASSUME "blob" \notin flhist'.overlap PROVE Clean("blob")' /\ StoredBlob'
    BY DEF BlobInv
  <2>2. "blob" \notin flhist.overlap /\ flhist'.put = flhist.put /\ "blob" \in Paths
        /\ (path = "blob" => ~Overlapping(s, path))
    BY <1>1, <2>1, OpenHistory DEF Paths
  <2>3. Clean("blob") /\ StoredBlob
    BY <1>1, <2>2 DEF BlobInv
  <2>4. Clean("blob")'
    BY <1>13, <1>14, <2>2, <2>3, Zenon
  <2> QED
    BY <1>11, <1>12, <2>2, <2>3, <2>4, Zenon DEF StoredBlob, Exists
<1>16. UsersInv'
  <2>1. SUFFICES ASSUME ~flhist'.created PROVE Clean("users")' /\ StoredUsers' /\ UsersWriters'
    BY DEF UsersInv
  <2>2. ~flhist.created /\ ~CreatedLate(s) /\ flhist'.done = flhist.done
    BY <1>1, <2>1, OpenHistory, Zenon
  <2>3. Clean("users") /\ StoredUsers /\ UsersWriters /\ "users" \in Paths
    BY <1>1, <2>2 DEF UsersInv, Paths
  <2>4. StoredUsers'
    BY <1>11, <1>12, <2>2, <2>3, Zenon DEF StoredUsers, Exists
  <2>5. ASSUME path = "users" PROVE ~Overlapping(s, path)
    <3>1. SUFFICES ASSUME NEW t \in Servers, t # s, Writing(t, "users") PROVE FALSE
      BY <2>5, Zenon DEF Overlapping
    <3>2. proc[s].n # 0
      BY <2>2, <2>5, <3>1, Zenon DEF CreatedLate, Writing
    <3>3. Exists("users") /\ usersLock = s
      BY <1>1, <1>3, <2>5, <3>2 DEF RequestsTrue, RequestTrue, AtUsers
    <3>4. proc[t].n # 0
      BY <2>3, <3>1, <3>3, Zenon DEF UsersWriters
    <3>5. usersLock = t
      BY <1>1, <3>1, <3>4 DEF RequestsTrue, RequestTrue, AtUsers, Writing
    <3> QED
      BY <3>1, <3>3, <3>5
  <2>6. Clean("users")'
    BY <1>13, <1>14, <2>3, <2>5, Zenon
  <2>7. ASSUME NEW t \in Servers
        PROVE  /\ Writing(t, "users")' /\ proc'[t].n = 0 => ~Exists("users")'
               /\ AtUsers(t)' /\ proc'[t].n # 0 => flhist'.done \subseteq proc'[t].val
    <3>1. Exists("users")' <=> Exists("users")
      BY <1>12, <2>3, Zenon DEF Exists
    <3>2. CASE t # s
      BY <1>5, <2>2, <2>3, <3>1, <3>2, Zenon DEF UsersWriters, Writing, AtUsers
    <3>3. CASE t = s
      <4>1. Writing(s, "users")' /\ proc'[s].n = 0 => ~Exists("users")
        BY <1>5, <2>2, Zenon DEF Writing, CreatedLate
      <4>2. AtUsers(s)' /\ proc'[s].n # 0 => flhist.done \subseteq proc[s].val
        BY <1>3, <1>5, <2>3, Zenon DEF UsersWriters, AtUsers
      <4> QED
        BY <1>5, <2>2, <3>1, <3>3, <4>1, <4>2, Zenon
    <3> QED
      BY <3>2, <3>3
  <2> QED
    BY <2>4, <2>6, <2>7, Zenon DEF UsersWriters
<1>17. ASSUME NEW t \in Servers PROVE RequestTrue(t)'
  <2>1. /\ proc'[t].path = proc[t].path /\ proc'[t].val = proc[t].val /\ proc'[t].n = proc[t].n
        /\ proc'[t].pc = proc[t].pc \/ (proc[t].pc = "open" /\ proc'[t].pc = "write")
    BY <1>3, <1>5
  <2>2. RequestTrue(t) /\ flhist'.put = flhist.put
    BY <1>1, OpenHistory, Zenon DEF RequestsTrue
  <2>3. Exists("users")' <=> Exists("users")
    BY <1>12 DEF Exists, Paths
  <2> QED
    BY <1>3, <2>1, <2>2, <2>3 DEF RequestTrue, AtUsers
<1> QED
  BY <1>7, <1>10, <1>15, <1>16, <1>17, Zenon DEF FilesInv, RequestsTrue

(* Writing the text touches the open inode alone. *)
LEMMA WriteKeeps == ASSUME FilesInv, NEW s \in Servers, WriteTmp(s) PROVE FilesInv'
<1>1. FilesTypeOK /\ Apart /\ RequestsTrue /\ BlobInv /\ UsersInv
  BY DEF FilesInv
<1>2. PICK text \in {Whole(proc[s].val), Torn} :
         /\ ~node[proc[s].fd].whole => text = Whole(proc[s].val)
         /\ node' = [node EXCEPT ![proc[s].fd] = text]
  BY <1>1, WriteFacts, Zenon
<1>3. /\ proc' = [proc EXCEPT ![s] = [pc |-> "rename", path |-> proc[s].path,
                                      val |-> proc[s].val, fd |-> proc[s].fd, n |-> proc[s].n]]
      /\ name' = name /\ usersLock' = usersLock /\ flhist' = flhist
  BY <1>1, WriteFacts, Zenon
<1>4. /\ proc[s].path \in Paths /\ proc[s].val \in SUBSET Nat /\ proc[s].n \in Nat
      /\ proc[s].fd \in Inodes \cup {NoInode} /\ proc[s].pc = "write" /\ NoInode \notin Inodes
  BY <1>1, InodesSuffice DEF FilesTypeOK, FileRequests, WriteTmp
<1>5. /\ proc'[s].pc = "rename" /\ proc'[s].path = proc[s].path /\ proc'[s].val = proc[s].val
      /\ proc'[s].fd = proc[s].fd /\ proc'[s].n = proc[s].n
      /\ \A t \in Servers : t # s => proc'[t] = proc[t]
  BY <1>1, <1>3 DEF FilesTypeOK
<1>6. /\ \A j \in Inodes : j # proc[s].fd => node'[j] = node[j]
      /\ proc[s].fd \in Inodes => node'[proc[s].fd] = text
  BY <1>1, <1>2, Zenon DEF FilesTypeOK
<1>7. FilesTypeOK'
  <2>1. text \in [whole : BOOLEAN, val : SUBSET Nat]
    <3>1. Torn \in [whole : BOOLEAN, val : SUBSET Nat]
      BY DEF Torn
    <3>2. Whole(proc[s].val) \in [whole : BOOLEAN, val : SUBSET Nat]
      BY <1>4, Zenon DEF Whole
    <3> QED
      BY <3>1, <3>2, Zenon
  <2>2. node' \in [Inodes -> [whole : BOOLEAN, val : SUBSET Nat]]
    BY <1>1, <1>2, <2>1, Zenon DEF FilesTypeOK
  <2>3. [pc |-> "rename", path |-> proc[s].path, val |-> proc[s].val, fd |-> proc[s].fd, n |-> proc[s].n]
           \in FileRequests
    BY <1>4 DEF FileRequests
  <2>4. proc' \in [Servers -> FileRequests]
    BY <1>1, <1>3, <2>3, Zenon DEF FilesTypeOK
  <2> QED
    BY <1>1, <1>3, <2>2, <2>4, Zenon DEF FilesTypeOK
<1>8. \A t \in Servers : /\ proc'[t].path = proc[t].path /\ proc'[t].val = proc[t].val
                         /\ proc'[t].fd = proc[t].fd /\ proc'[t].n = proc[t].n
  BY <1>5, Zenon
<1>9. \A t \in Servers, p \in Paths : (Writing(t, p)' <=> Writing(t, p)) /\ (AtUsers(t)' <=> AtUsers(t))
  BY <1>4, <1>5, Zenon DEF Writing, AtUsers
<1>10. Apart'
  <2>1. \A t \in Servers : proc'[t].pc \notin {"write", "rename"} => proc'[t].fd = NoInode
    BY <1>1, <1>5, Zenon DEF Apart
  <2>2. \A p \in Paths, j \in Inodes : Uses(p, j)' <=> Uses(p, j)
    BY <1>3, <1>8, Zenon DEF Uses
  <2> QED
    BY <1>1, <1>3, <2>1, <2>2, Zenon DEF Apart
<1>11. ASSUME NEW p \in Paths, p # proc[s].path, NEW j \in Inodes, Uses(p, j) PROVE node'[j] = node[j]
  <2>1. j # proc[s].fd
    BY <1>1, <1>4, <1>11, Zenon DEF Apart, Uses
  <2> QED
    BY <1>6, <2>1
<1>12. ASSUME NEW p \in Paths, Clean(p), Exists(p) PROVE node'[name[p].at] = node[name[p].at]
  <2>1. name[p].at \in Inodes
    BY <1>1, <1>12 DEF FilesTypeOK, FileNames, Exists
  <2>2. CASE p # proc[s].path
    BY <1>11, <2>1, <2>2, Zenon DEF Uses
  <2>3. CASE p = proc[s].path
    <3>1. proc[s].fd = name[p].tmp
      BY <1>4, <1>12, <2>3, Zenon DEF Clean, Writing
    <3>2. name[p].at # name[p].tmp
      BY <1>1, <1>12, Zenon DEF Apart, Exists
    <3> QED
      BY <1>6, <2>1, <3>1, <3>2, Zenon
  <2> QED
    BY <2>2, <2>3
<1>13. ASSUME NEW p \in Paths, Clean(p) PROVE Clean(p)'
  <2>1. SUFFICES ASSUME NEW t \in Servers, Writing(t, p)'
                 PROVE  /\ proc'[t].fd = name'[p].tmp /\ name'[p].tmp \in Inodes
                        /\ node'[name'[p].tmp] = IF proc'[t].pc = "write" THEN Torn ELSE Whole(proc'[t].val)
                        /\ \A u \in Servers : Writing(u, p)' => u = t
    BY Zenon DEF Clean, Torn, Whole
  <2>2. Writing(t, p)
    BY <1>9, <2>1
  <2>3. /\ proc[t].fd = name[p].tmp /\ name[p].tmp \in Inodes
        /\ node[name[p].tmp] = IF proc[t].pc = "write" THEN Torn ELSE Whole(proc[t].val)
        /\ \A u \in Servers : Writing(u, p) => u = t
    BY <1>13, <2>2, Zenon DEF Clean
  <2>4. \A u \in Servers : Writing(u, p)' => u = t
    BY <1>9, <2>3
  <2>5. node'[name[p].tmp] = IF proc'[t].pc = "write" THEN Torn ELSE Whole(proc'[t].val)
    <3>1. CASE p = proc[s].path
      <4>1. t = s
        BY <1>4, <2>3, <3>1 DEF Writing
      <4>2. node[proc[s].fd] = Torn /\ proc[s].fd \in Inodes /\ proc[s].fd = name[p].tmp
        BY <1>4, <2>3, <4>1
      <4>3. text = Whole(proc[s].val)
        BY <1>2, <4>2 DEF Torn
      <4> QED
        BY <1>5, <1>6, <4>1, <4>2, <4>3
    <3>2. CASE p # proc[s].path
      <4>1. t # s
        BY <2>2, <3>2 DEF Writing
      <4>2. node'[name[p].tmp] = node[name[p].tmp]
        BY <1>11, <2>3, <3>2, Zenon DEF Uses
      <4> QED
        BY <1>5, <2>3, <4>1, <4>2
    <3> QED
      BY <3>1, <3>2
  <2> QED
    BY <1>3, <1>8, <2>3, <2>4, <2>5, Zenon
<1>14. BlobInv'
  <2>1. SUFFICES ASSUME "blob" \notin flhist.overlap PROVE Clean("blob")' /\ StoredBlob'
    BY <1>3 DEF BlobInv
  <2>2. Clean("blob") /\ StoredBlob /\ "blob" \in Paths
    BY <1>1, <2>1 DEF BlobInv, Paths
  <2> QED
    BY <1>3, <1>12, <1>13, <2>2, Zenon DEF StoredBlob, Exists
<1>15. UsersInv'
  <2>1. SUFFICES ASSUME ~flhist.created PROVE Clean("users")' /\ StoredUsers' /\ UsersWriters'
    BY <1>3 DEF UsersInv
  <2>2. Clean("users") /\ StoredUsers /\ UsersWriters /\ "users" \in Paths
    BY <1>1, <2>1 DEF UsersInv, Paths
  <2>3. StoredUsers'
    BY <1>3, <1>12, <2>2, Zenon DEF StoredUsers, Exists
  <2>4. UsersWriters'
    BY <1>3, <1>8, <1>9, <2>2, Zenon DEF UsersWriters, Exists
  <2> QED
    BY <1>13, <2>2, <2>3, <2>4, Zenon
<1>16. ASSUME NEW t \in Servers PROVE RequestTrue(t)'
  <2>1. RequestTrue(t) /\ (AtUsers(t)' <=> AtUsers(t))
    BY <1>1, <1>4, <1>9, Zenon DEF RequestsTrue
  <2>2. (proc'[t].pc = "lock" => proc[t].pc = "lock") /\ (proc'[t].pc # "idle" => proc[t].pc # "idle")
    BY <1>4, <1>5
  <2> QED
    BY <1>3, <1>8, <2>1, <2>2, Zenon DEF RequestTrue, Exists
<1> QED
  BY <1>7, <1>10, <1>14, <1>15, <1>16, Zenon DEF FilesInv, RequestsTrue

(* A rename that finds the temporary file makes it the file. *)
LEMMA ReplaceKeeps ==
    ASSUME FilesInv, NEW s \in Servers, RenameTmp(s), name[proc[s].path].tmp # NoInode PROVE FilesInv'
<1> DEFINE path == proc[s].path
           r == Renamed(s, TRUE)
<1>1. FilesTypeOK /\ Apart /\ RequestsTrue /\ BlobInv /\ UsersInv
  BY DEF FilesInv
<1>2. /\ name' = [name EXCEPT ![path] = [at |-> name[path].tmp, tmp |-> NoInode]]
      /\ proc' = [proc EXCEPT ![s] = r]
      /\ flhist' \in FileHistories
      /\ flhist'.put = flhist.put /\ flhist'.overlap = flhist.overlap
      /\ flhist'.created = flhist.created
      /\ flhist'.done = IF path = "users" THEN flhist.done \cup proc[s].val ELSE flhist.done
      /\ usersLock' = IF usersLock = s THEN nobody ELSE usersLock
      /\ node' = node
  <2>1. PICK ok \in BOOLEAN :
              /\ ok <=> name[proc[s].path].tmp # NoInode
              /\ name' = IF ok THEN [name EXCEPT ![proc[s].path] =
                                        [at |-> name[proc[s].path].tmp, tmp |-> NoInode]]
                               ELSE name
              /\ proc' = [proc EXCEPT ![s] = Renamed(s, ok)]
              /\ flhist' \in FileHistories
              /\ flhist'.put = flhist.put /\ flhist'.overlap = flhist.overlap
              /\ flhist'.created = flhist.created
              /\ flhist'.done = IF proc[s].path = "users" /\ ok THEN flhist.done \cup proc[s].val
                                                                ELSE flhist.done
              /\ usersLock' = IF usersLock = s THEN nobody ELSE usersLock
              /\ node' = node
    BY <1>1, RenameFacts, Zenon
  <2>2. ok = TRUE
    BY <2>1, Zenon
  <2> QED
    BY <2>1, <2>2, Zenon
<1>3. /\ path \in Paths /\ name[path].tmp \in Inodes /\ proc[s].pc = "rename" /\ NoInode \notin Inodes
      /\ Writing(s, path)
  BY <1>1, InodesSuffice, Zenon DEF FilesTypeOK, FileRequests, FileNames, RenameTmp, Writing
<1>4. /\ r \in FileRequests /\ r.fd = NoInode /\ r.val = {} /\ r.pc \in {"idle", "lock"}
      /\ r.pc = "lock" => proc[s].n = 0 /\ r.path = "users" /\ r.n # 0
  BY <1>1, RenamedFacts, Zenon
<1>5. /\ name'[path].at = name[path].tmp /\ name'[path].tmp = NoInode
      /\ \A p \in Paths : p # path => name'[p] = name[p]
  BY <1>1, <1>2, <1>3 DEF FilesTypeOK
<1>6. proc'[s] = r /\ \A t \in Servers : t # s => proc'[t] = proc[t]
  BY <1>1, <1>2, Zenon DEF FilesTypeOK
<1>7. FilesTypeOK'
  <2>1. [at |-> name[path].tmp, tmp |-> NoInode] \in FileNames
    BY <1>3 DEF FileNames
  <2> QED
    BY <1>1, <1>2, <1>4, <2>1, Zenon DEF FilesTypeOK
<1>8. ASSUME NEW t \in Servers, NEW p \in Paths
      PROVE  /\ Writing(t, p)' => t # s /\ proc'[t] = proc[t] /\ Writing(t, p)
             /\ AtUsers(t)' => t # s /\ proc'[t] = proc[t] /\ AtUsers(t)
  <2>1. r.pc \notin {"open", "write", "rename"}
    BY <1>4, Zenon
  <2> QED
    BY <1>6, <2>1, Zenon DEF Writing, AtUsers
<1>9. Apart'
  <2>1. \A t \in Servers : proc'[t].pc \notin {"write", "rename"} => proc'[t].fd = NoInode
    BY <1>1, <1>4, <1>6, Zenon DEF Apart
  <2>2. \A p \in Paths : name'[p].at # NoInode => name'[p].at # name'[p].tmp
    BY <1>1, <1>5, Zenon DEF Apart
  <2>3. ASSUME NEW p \in Paths, NEW j \in Inodes, Uses(p, j)' PROVE Uses(p, j)
    <3>1. CASE j = name'[p].at \/ j = name'[p].tmp
      <4>1. j = name[p].at \/ j = name[p].tmp
        BY <1>3, <1>5, <3>1, Zenon
      <4> QED
        BY <4>1, Zenon DEF Uses
    <3>2. CASE \E t \in Servers : proc'[t].path = p /\ proc'[t].fd = j
      <4>1. PICK t \in Servers : proc'[t].path = p /\ proc'[t].fd = j
        BY <3>2
      <4>2. t # s
        BY <1>3, <1>4, <1>6, <4>1, Zenon
      <4> QED
        BY <1>6, <4>1, <4>2, Zenon DEF Uses
    <3> QED
      BY <2>3, <3>1, <3>2, Zenon DEF Uses
  <2> QED
    BY <1>1, <2>1, <2>2, <2>3, Zenon DEF Apart
<1>10. ASSUME NEW p \in Paths, Clean(p), p = path
       PROVE  /\ \A t \in Servers : Writing(t, p) => t = s
              /\ node[name[path].tmp] = Whole(proc[s].val)
  BY <1>3, <1>10 DEF Clean
<1>11. ASSUME NEW p \in Paths, Clean(p) PROVE Clean(p)'
  <2>1. SUFFICES ASSUME NEW t \in Servers, Writing(t, p)'
                 PROVE  /\ proc'[t].fd = name'[p].tmp /\ name'[p].tmp \in Inodes
                        /\ node'[name'[p].tmp] = IF proc'[t].pc = "write" THEN Torn ELSE Whole(proc'[t].val)
                        /\ \A u \in Servers : Writing(u, p)' => u = t
    BY Zenon DEF Clean, Torn, Whole
  <2>2. t # s /\ proc'[t] = proc[t] /\ Writing(t, p)
    BY <1>8, <2>1, Zenon
  <2>3. p # path
    BY <1>10, <1>11, <2>2, Zenon
  <2>4. name'[p] = name[p]
    BY <1>5, <2>3, Zenon
  <2>5. /\ proc[t].fd = name[p].tmp /\ name[p].tmp \in Inodes
        /\ node[name[p].tmp] = IF proc[t].pc = "write" THEN Torn ELSE Whole(proc[t].val)
        /\ \A u \in Servers : Writing(u, p) => u = t
    BY <1>11, <2>2, Zenon DEF Clean
  <2>6. \A u \in Servers : Writing(u, p)' => u = t
    BY <1>8, <2>5, Zenon
  <2> QED
    BY <1>2, <2>2, <2>4, <2>5, <2>6, Zenon
<1>12. RequestTrue(s)
  BY <1>1, Zenon DEF RequestsTrue
<1>13. BlobInv'
  <2>1. SUFFICES ASSUME "blob" \notin flhist.overlap PROVE Clean("blob")' /\ StoredBlob'
    BY <1>2, Zenon DEF BlobInv
  <2>2. Clean("blob") /\ StoredBlob /\ "blob" \in Paths
    BY <1>1, <2>1 DEF BlobInv, Paths
  <2>3. CASE path = "blob"
    <3>1. node[name[path].tmp] = Whole(proc[s].val) /\ proc[s].val \in flhist.put
      BY <1>3, <1>10, <1>12, <2>2, <2>3 DEF RequestTrue
    <3>2. node'[name'["blob"].at] = Whole(proc[s].val)
      BY <1>2, <1>5, <2>3, <3>1, Zenon
    <3>3. StoredBlob'
      BY <1>2, <3>1, <3>2 DEF StoredBlob, Whole
    <3> QED
      BY <1>11, <2>2, <3>3
  <2>4. CASE path # "blob"
    BY <1>2, <1>5, <1>11, <2>2, <2>4, Zenon DEF StoredBlob, Exists
  <2> QED
    BY <2>3, <2>4
<1>14. UsersInv'
  <2>1. SUFFICES ASSUME ~flhist.created PROVE Clean("users")' /\ StoredUsers' /\ UsersWriters'
    BY <1>2, Zenon DEF UsersInv
  <2>2. Clean("users") /\ StoredUsers /\ UsersWriters /\ "users" \in Paths
    BY <1>1, <2>1 DEF UsersInv, Paths
  <2>3. CASE path = "users"
    <3>1. AtUsers(s) /\ Writing(s, "users")
      BY <1>3, <2>3, Zenon DEF AtUsers, Writing
    <3>2. flhist.done \subseteq proc[s].val /\ (proc[s].n = 0 => flhist'.done = flhist.done)
      <4>1. CASE proc[s].n # 0
        BY <2>2, <3>1, <4>1 DEF UsersWriters
      <4>2. CASE proc[s].n = 0
        <5>1. proc[s].val = {}
          BY <1>12, <3>1, <4>2 DEF RequestTrue
        <5>2. flhist.done = {}
          BY <2>2, <3>1, <4>2, Zenon DEF UsersWriters, StoredUsers
        <5> QED
          BY <1>2, <2>3, <5>1, <5>2
      <4> QED
        BY <4>1, <4>2
    <3>3. flhist'.done = proc[s].val
      BY <1>2, <2>3, <3>2
    <3>4. node'[name'["users"].at] = Whole(proc[s].val)
      BY <1>2, <1>5, <1>10, <2>2, <2>3, Zenon
    <3>5. StoredUsers'
      BY <1>3, <1>5, <2>3, <3>3, <3>4 DEF StoredUsers, Whole, Exists
    <3>6. ASSUME NEW t \in Servers
          PROVE  ~Writing(t, "users")' /\ (AtUsers(t)' /\ proc'[t].n # 0 => flhist'.done \subseteq proc'[t].val)
      <4>1. ~Writing(t, "users")'
        BY <1>8, <1>10, <2>2, <2>3, Zenon
      <4>2. ASSUME AtUsers(t)', proc'[t].n # 0 PROVE flhist'.done \subseteq proc'[t].val
        <5>1. t # s /\ proc'[t] = proc[t] /\ AtUsers(t) /\ proc[t].n # 0
          BY <1>8, <2>2, <4>2, Zenon
        <5>2. usersLock = t
          BY <1>1, <5>1, Zenon DEF RequestsTrue, RequestTrue
        <5>3. proc[s].n = 0
          BY <1>12, <3>1, <5>1, <5>2, Zenon DEF RequestTrue
        <5> QED
          BY <2>2, <3>2, <5>1, <5>3, Zenon DEF UsersWriters
      <4> QED
        BY <4>1, <4>2
    <3> QED
      BY <1>11, <2>2, <3>5, <3>6, Zenon DEF UsersWriters
  <2>4. CASE path # "users"
    <3>1. name'["users"] = name["users"] /\ flhist'.done = flhist.done
      BY <1>2, <1>5, <2>2, <2>4, Zenon
    <3>2. UsersWriters'
      BY <1>8, <2>2, <3>1, Zenon DEF UsersWriters, Exists
    <3> QED
      BY <1>2, <1>11, <2>2, <3>1, <3>2, Zenon DEF StoredUsers, Exists
  <2> QED
    BY <2>3, <2>4
<1>15. ASSUME NEW t \in Servers PROVE RequestTrue(t)'
  <2>1. Exists("users") \/ path = "users" => Exists("users")'
    <3>1. "users" \in Paths
      BY DEF Paths
    <3> QED
      BY <1>5, <3>1, Zenon DEF Exists
  <2>2. CASE t = s
    <3>1. ~AtUsers(s)' /\ (proc'[s].pc # "idle" => path = "users" /\ proc'[s].pc = "lock")
      <4>1. proc[s].n = 0 => path = "users"
        BY <1>3, <1>12 DEF RequestTrue, Paths
      <4> QED
        BY <1>4, <1>6, <4>1, Zenon DEF AtUsers
    <3> QED
      BY <1>4, <1>6, <2>1, <2>2, <3>1, Zenon DEF RequestTrue
  <2>3. CASE t # s
    <3>1. RequestTrue(t) /\ proc'[t] = proc[t]
      BY <1>1, <1>6, <2>3, Zenon DEF RequestsTrue
    <3>2. usersLock = t => usersLock' = t
      BY <1>2, <2>3, Zenon
    <3> QED
      BY <1>2, <2>1, <3>1, <3>2, Zenon DEF RequestTrue, AtUsers
  <2> QED
    BY <2>2, <2>3
<1> QED
  BY <1>7, <1>9, <1>13, <1>14, <1>15, Zenon DEF FilesInv, RequestsTrue

LEMMA RenameKeeps == ASSUME FilesInv, NEW s \in Servers, RenameTmp(s) PROVE FilesInv'
<1>1. CASE name[proc[s].path].tmp # NoInode
  BY <1>1, ReplaceKeeps
<1>2. CASE name[proc[s].path].tmp = NoInode
  <2> DEFINE r == Renamed(s, FALSE)
  <2>1. FilesTypeOK
    BY DEF FilesInv
  <2>2. /\ name' = name /\ node' = node /\ proc' = [proc EXCEPT ![s] = r]
        /\ flhist' \in FileHistories
        /\ flhist'.put = flhist.put /\ flhist'.overlap = flhist.overlap
        /\ flhist'.created = flhist.created /\ flhist'.done = flhist.done
        /\ usersLock' = IF usersLock = s THEN nobody ELSE usersLock
    <3>1. PICK ok \in BOOLEAN :
              /\ ok <=> name[proc[s].path].tmp # NoInode
              /\ name' = IF ok THEN [name EXCEPT ![proc[s].path] =
                                        [at |-> name[proc[s].path].tmp, tmp |-> NoInode]]
                               ELSE name
              /\ proc' = [proc EXCEPT ![s] = Renamed(s, ok)]
              /\ flhist' \in FileHistories
              /\ flhist'.put = flhist.put /\ flhist'.overlap = flhist.overlap
              /\ flhist'.created = flhist.created
              /\ flhist'.done = IF proc[s].path = "users" /\ ok THEN flhist.done \cup proc[s].val
                                                                ELSE flhist.done
              /\ usersLock' = IF usersLock = s THEN nobody ELSE usersLock
              /\ node' = node
      BY <2>1, RenameFacts, Zenon
    <3>2. ok = FALSE
      BY <1>2, <3>1, Zenon
    <3> QED
      BY <3>1, <3>2, Zenon
  <2>3. r \in FileRequests /\ r.fd = NoInode /\ r.pc = "idle"
    BY <2>1, RenamedFacts, Zenon
  <2>4. proc'[s] = r
    BY <2>1, <2>2, Zenon DEF FilesTypeOK
  <2>5. RequestTrue(s)'
    BY <2>3, <2>4, Zenon DEF RequestTrue, AtUsers
  <2>6. \A t \in Servers \ {s} : usersLock = t => usersLock' = t
    BY <2>2
  <2> HIDE DEF r
  <2> QED
    BY <2>2, <2>3, <2>5, <2>6, MoveKeeps, Zenon
<1> QED
  BY <1>1, <1>2

(* A PUT or a DELETE of a blob announces its value. *)
LEMMA PutKeeps ==
    ASSUME FilesInv, NEW s \in Servers, NEW v \in SUBSET Nat, setResource(s, v) PROVE FilesInv'
<1> DEFINE r == [pc |-> "open", path |-> "blob", val |-> v, fd |-> NoInode, n |-> flhist.n + 1]
<1>1. FilesTypeOK /\ flhist \in FileHistories
  BY DEF FilesInv, FilesTypeOK
<1>2. flhist.n + 1 \in Nat /\ flhist.n + 1 # 0 /\ (flhist.put \cup {v}) \in SUBSET (SUBSET Nat)
  <2>1. flhist.n \in Nat /\ flhist.put \in SUBSET (SUBSET Nat)
    BY <1>1, Zenon DEF FileHistories
  <2>2. flhist.put \cup {v} \in SUBSET (SUBSET Nat)
    BY <2>1, Zenon
  <2> QED
    BY <2>1, <2>2
<1>3. proc' = [proc EXCEPT ![s] = r]
  <2>1. [AtRest EXCEPT !.pc = "open", !.val = v, !.n = flhist.n + 1] = r
    <3> DEFINE k == flhist.n + 1
    <3>1. [AtRest EXCEPT !.pc = "open", !.val = v, !.n = k]
             = [pc |-> "open", path |-> "blob", val |-> v, fd |-> NoInode, n |-> k]
      <4> HIDE DEF k
      <4>1. [AtRest EXCEPT !.pc = "open"] = [pc |-> "open", path |-> "blob", val |-> {}, fd |-> NoInode, n |-> 0]
        BY DEF AtRest
      <4>2. [[pc |-> "open", path |-> "blob", val |-> {}, fd |-> NoInode, n |-> 0] EXCEPT !.val = v]
               = [pc |-> "open", path |-> "blob", val |-> v, fd |-> NoInode, n |-> 0]
        OBVIOUS
      <4>3. [[pc |-> "open", path |-> "blob", val |-> v, fd |-> NoInode, n |-> 0] EXCEPT !.n = k]
               = [pc |-> "open", path |-> "blob", val |-> v, fd |-> NoInode, n |-> k]
        OBVIOUS
      <4> QED
        BY <4>1, <4>2, <4>3, Zenon
    <3> QED
      BY <3>1, Zenon
  <2> QED
    BY <2>1, Zenon DEF setResource
<1>4. r \in FileRequests
  BY <1>2 DEF FileRequests, Paths
<1>5. proc'[s] = r
  BY <1>1, <1>3, Zenon DEF FilesTypeOK
<1>6. /\ flhist' \in FileHistories
      /\ flhist'.put = flhist.put \cup {v} /\ flhist'.overlap = flhist.overlap
      /\ flhist'.created = flhist.created /\ flhist'.done = flhist.done
  <2>1. flhist' = [flhist EXCEPT !.n = flhist.n + 1, !.put = flhist.put \cup {v}]
    BY Zenon DEF setResource
  <2> QED
    BY <1>1, <1>2, <2>1, Zenon DEF FileHistories
<1>7. UNCHANGED <<node, name>> /\ usersLock' = usersLock
  BY Zenon DEF setResource
<1>8. r.fd = NoInode /\ r.pc = "open" /\ r.path = "blob" /\ r.n # 0 /\ r.val = v
  BY <1>2
<1>9. RequestTrue(s)'
  BY <1>5, <1>6, <1>8 DEF RequestTrue, AtUsers
<1>10. \A t \in Servers \ {s} : usersLock = t => usersLock' = t
  BY <1>7
<1> HIDE DEF r
<1> QED
  BY <1>3, <1>4, <1>6, <1>7, <1>8, <1>9, <1>10, MoveKeeps, Zenon

(* A GET changes the history alone. *)
LEMMA GetKeeps == ASSUME FilesInv, NEW s \in Servers, getBlob(s) PROVE FilesInv'
<1>1. FilesTypeOK /\ flhist \in FileHistories /\ proc[s] \in FileRequests /\ Apart /\ RequestTrue(s)
  BY DEF FilesInv, FilesTypeOK, RequestsTrue
<1>2. proc[s].pc = "idle" /\ UNCHANGED <<node, name>> /\ proc' = proc /\ usersLock' = usersLock
      /\ flhist' = [flhist EXCEPT !.read = readEncryptedFile("blob", {})]
  BY Zenon DEF getBlob
<1>3. readEncryptedFile("blob", {}) \in SUBSET Nat
  <2>1. name["blob"] \in FileNames
    BY <1>1 DEF FilesTypeOK, Paths
  <2>2. ASSUME Exists("blob") PROVE node[name["blob"].at].val \in SUBSET Nat
    <3>1. name["blob"].at \in Inodes
      BY <2>1, <2>2 DEF FileNames, Exists
    <3> QED
      BY <1>1, <3>1 DEF FilesTypeOK
  <2> QED
    BY <2>2, Zenon DEF readEncryptedFile
<1>4. /\ flhist' \in FileHistories
      /\ flhist'.put = flhist.put /\ flhist'.overlap = flhist.overlap
      /\ flhist'.created = flhist.created /\ flhist'.done = flhist.done
  BY <1>1, <1>2, <1>3, Zenon DEF FileHistories
<1>5. proc' = [proc EXCEPT ![s] = proc[s]]
  BY <1>1, <1>2 DEF FilesTypeOK
<1>6. proc[s].fd = NoInode
  BY <1>1, <1>2, Zenon DEF Apart
<1>7. RequestTrue(s)'
  BY <1>1, <1>2, <1>4, Zenon DEF RequestTrue, AtUsers, Exists
<1>8. \A t \in Servers \ {s} : usersLock = t => usersLock' = t
  BY <1>2
<1>9. proc[s].pc \notin {"write", "rename", "open"} /\ flhist.put \subseteq flhist'.put
  BY <1>2, <1>4
<1> QED
  BY <1>1, <1>2, <1>4, <1>5, <1>6, <1>7, <1>8, <1>9, MoveKeeps, Zenon

(* An update of users.enc waits for its lock, or creates the file. *)
LEMMA UpdateKeeps == ASSUME FilesInv, NEW s \in Servers, withUsersLock(s) PROVE FilesInv'
<1>1. FilesTypeOK /\ flhist \in FileHistories
  BY DEF FilesInv, FilesTypeOK
<1>2. flhist.n + 1 \in Nat /\ flhist.n + 1 # 0
  BY <1>1 DEF FileHistories
<1>3. name' = name /\ node' = node /\ usersLock' = usersLock
  BY Zenon DEF withUsersLock
<1>4. \A t \in Servers \ {s} : usersLock = t => usersLock' = t
  BY <1>3
<1>5. CASE Exists("users")
  <2> DEFINE r == [pc |-> "lock", path |-> "users", val |-> {}, fd |-> NoInode, n |-> flhist.n + 1]
  <2>1. proc' = [proc EXCEPT ![s] = r] /\ flhist' = [flhist EXCEPT !.n = flhist.n + 1]
    BY <1>5, Zenon DEF withUsersLock, AtRest
  <2>2. r \in FileRequests
    BY <1>2 DEF FileRequests, Paths
  <2>3. proc'[s] = r
    BY <1>1, <2>1, Zenon DEF FilesTypeOK
  <2>4. /\ flhist' \in FileHistories
        /\ flhist'.put = flhist.put /\ flhist'.overlap = flhist.overlap
        /\ flhist'.created = flhist.created /\ flhist'.done = flhist.done
    BY <1>1, <1>2, <2>1, Zenon DEF FileHistories
  <2>5. r.fd = NoInode /\ r.pc = "lock" /\ r.path = "users" /\ r.n # 0
    BY <1>2
  <2>6. RequestTrue(s)'
    BY <1>3, <1>5, <2>3, <2>5 DEF RequestTrue, AtUsers, Exists
  <2> HIDE DEF r
  <2> QED
    BY <1>3, <1>4, <2>1, <2>2, <2>4, <2>5, <2>6, MoveKeeps, Zenon
<1>6. CASE ~Exists("users")
  <2> DEFINE r == [pc |-> "open", path |-> "users", val |-> {}, fd |-> NoInode, n |-> 0]
  <2>1. proc' = [proc EXCEPT ![s] = r] /\ flhist' = flhist
    BY <1>6, Zenon DEF withUsersLock, AtRest
  <2>2. r \in FileRequests
    BY DEF FileRequests, Paths
  <2>3. proc'[s] = r
    BY <1>1, <2>1, Zenon DEF FilesTypeOK
  <2>4. r.fd = NoInode /\ r.pc = "open" /\ r.path = "users" /\ r.n = 0 /\ r.val = {}
    OBVIOUS
  <2>5. RequestTrue(s)'
    BY <2>3, <2>4 DEF RequestTrue, AtUsers
  <2> HIDE DEF r
  <2> QED
    BY <1>1, <1>3, <1>4, <2>1, <2>2, <2>4, <2>5, MoveKeeps, Zenon
<1> QED
  BY <1>5, <1>6

(* With the lock an update reads the file, which has every update that was *)
(* answered.                                                               *)
LEMMA LockedKeeps == ASSUME FilesInv, NEW s \in Servers, UsersLocked(s) PROVE FilesInv'
<1> DEFINE v == readEncryptedFile("users", {}) \cup {proc[s].n}
           r == [pc |-> "open", path |-> "users", val |-> v, fd |-> NoInode, n |-> proc[s].n]
<1>1. FilesTypeOK /\ flhist \in FileHistories /\ proc[s] \in FileRequests /\ Apart /\ UsersInv /\ RequestTrue(s)
  BY DEF FilesInv, FilesTypeOK, RequestsTrue
<1>2. /\ proc[s].pc = "lock" /\ Exists("users") /\ usersLock = nobody /\ usersLock' = s
      /\ name' = name /\ node' = node /\ flhist' = flhist
  BY Zenon DEF UsersLocked, LockFree
<1>3. proc[s].path = "users" /\ proc[s].n # 0 /\ proc[s].fd = NoInode /\ proc[s].n \in Nat
  BY <1>1, <1>2 DEF RequestTrue, Apart, FileRequests
<1>4. v \in SUBSET Nat
  <2>1. name["users"].at \in Inodes
    BY <1>1, <1>2 DEF FilesTypeOK, FileNames, Exists, Paths
  <2>2. node[name["users"].at].val \in SUBSET Nat
    BY <1>1, <2>1 DEF FilesTypeOK
  <2>3. readEncryptedFile("users", {}) \in SUBSET Nat
    BY <2>2, Zenon DEF readEncryptedFile
  <2> QED
    BY <1>3, <2>3
<1>5. proc' = [proc EXCEPT ![s] = r]
  <2> DEFINE q == [proc[s] EXCEPT !.pc = "open"]
  <2>1. proc' = [proc EXCEPT ![s].pc = "open", ![s].val = v]
    BY Zenon DEF UsersLocked
  <2>2. proc' = [proc EXCEPT ![s] = [q EXCEPT !.val = v]]
    BY <1>1, <2>1, Zenon DEF FilesTypeOK
  <2>3. q = [pc |-> "open", path |-> proc[s].path, val |-> proc[s].val, fd |-> proc[s].fd, n |-> proc[s].n]
    BY <1>1 DEF FileRequests
  <2> HIDE DEF v
  <2>4. [[pc |-> "open", path |-> proc[s].path, val |-> proc[s].val, fd |-> proc[s].fd, n |-> proc[s].n]
            EXCEPT !.val = v]
           = [pc |-> "open", path |-> proc[s].path, val |-> v, fd |-> proc[s].fd, n |-> proc[s].n]
    OBVIOUS
  <2>5. [q EXCEPT !.val = v] = r
    BY <1>3, <2>3, <2>4, Zenon
  <2> QED
    BY <2>2, <2>5, Zenon
<1>6. ~flhist.created => flhist.done \subseteq v
  BY <1>1, <1>2 DEF UsersInv, StoredUsers, readEncryptedFile
<1> HIDE DEF v
<1>7. r \in FileRequests
  BY <1>3, <1>4 DEF FileRequests, Paths
<1>8. proc'[s] = r
  BY <1>1, <1>5, Zenon DEF FilesTypeOK
<1>9. r.fd = NoInode /\ r.pc = "open" /\ r.path = "users" /\ r.n # 0 /\ r.val = v
  BY <1>3
<1>10. RequestTrue(s)'
  BY <1>2, <1>8, <1>9 DEF RequestTrue, AtUsers, Exists
<1>11. \A t \in Servers \ {s} : usersLock = t => usersLock' = t
  BY <1>2, LockNames
<1> HIDE DEF r
<1> QED
  BY <1>1, <1>2, <1>5, <1>6, <1>7, <1>9, <1>10, <1>11, MoveKeeps, Zenon

(* A process that dies leaves its files as they are and drops its lock. *)
LEMMA DeathKeeps == ASSUME FilesInv, NEW s \in Servers, ServerDies(s) PROVE FilesInv'
<1>1. FilesTypeOK /\ flhist \in FileHistories
  BY DEF FilesInv, FilesTypeOK
<1>2. /\ proc' = [proc EXCEPT ![s] = AtRest] /\ name' = name /\ node' = node
      /\ usersLock' = IF usersLock = s THEN nobody ELSE usersLock
      /\ flhist' = [flhist EXCEPT !.crashes = flhist.crashes + 1]
  BY Zenon DEF ServerDies
<1>3. flhist.crashes + 1 \in Nat
  BY <1>1 DEF FileHistories
<1>4. /\ flhist' \in FileHistories
      /\ flhist'.put = flhist.put /\ flhist'.overlap = flhist.overlap
      /\ flhist'.created = flhist.created /\ flhist'.done = flhist.done
  BY <1>1, <1>2, <1>3, Zenon DEF FileHistories
<1>5. AtRest \in FileRequests /\ AtRest.fd = NoInode /\ AtRest.pc = "idle"
  BY DEF AtRest, FileRequests, Paths
<1>6. proc'[s] = AtRest
  BY <1>1, <1>2, Zenon DEF FilesTypeOK
<1>7. RequestTrue(s)'
  BY <1>5, <1>6 DEF RequestTrue, AtUsers
<1>8. \A t \in Servers \ {s} : usersLock = t => usersLock' = t
  BY <1>2
<1> QED
  BY <1>2, <1>4, <1>5, <1>7, <1>8, MoveKeeps, Zenon

LEMMA FilesInvNext == FilesInv /\ [FilesNext]_fileVars => FilesInv'
<1>1. SUFFICES ASSUME FilesInv, [FilesNext]_fileVars PROVE FilesInv'
  OBVIOUS
<1>2. CASE FilesNext
  <2>1. PICK s \in Servers :
           \/ OpenTmp(s) \/ WriteTmp(s) \/ RenameTmp(s)
           \/ putBlob(s) \/ deleteMirror(s) \/ getBlob(s)
           \/ withUsersLock(s) \/ UsersLocked(s) \/ ServerDies(s)
    BY <1>2, Zenon DEF FilesNext
  <2>2. CASE putBlob(s)
    <3>1. flhist.n \in Nat
      BY <1>1 DEF FilesInv, FilesTypeOK, FileHistories
    <3>2. {flhist.n + 1} \in SUBSET Nat
      BY <3>1
    <3> QED
      BY <1>1, <2>2, <3>2, PutKeeps, Zenon DEF putBlob
  <2>3. CASE deleteMirror(s)
    <3>1. {} \in SUBSET Nat
      OBVIOUS
    <3> QED
      BY <1>1, <2>3, <3>1, PutKeeps, Zenon DEF deleteMirror
  <2> QED
    BY <1>1, <2>1, <2>2, <2>3, OpenKeeps, WriteKeeps, RenameKeeps, GetKeeps, UpdateKeeps, LockedKeeps,
       DeathKeeps, Zenon
<1>3. CASE UNCHANGED fileVars
  <2>1. name' = name /\ node' = node /\ proc' = proc /\ usersLock' = usersLock /\ flhist' = flhist
    BY <1>3 DEF fileVars
  <2>2. FilesTypeOK /\ Apart /\ RequestsTrue /\ BlobInv /\ UsersInv
    BY <1>1 DEF FilesInv
  <2>3. FilesTypeOK' /\ Apart' /\ RequestsTrue'
    <3>1. FilesTypeOK'
      BY <2>1, <2>2, Zenon DEF FilesTypeOK
    <3>2. \A p \in Paths, i \in Inodes : Uses(p, i)' <=> Uses(p, i)
      BY <2>1, Zenon DEF Uses
    <3>3. Apart'
      BY <2>1, <2>2, <3>2, Zenon DEF Apart
    <3>4. ASSUME NEW s \in Servers PROVE RequestTrue(s)' <=> RequestTrue(s)
      BY <2>1 DEF RequestTrue, AtUsers, Exists
    <3> QED
      BY <2>2, <3>1, <3>3, <3>4, Zenon DEF RequestsTrue
  <2>4. ASSUME NEW p \in Paths PROVE Clean(p)' <=> Clean(p)
    BY <2>1 DEF Clean, Writing, Torn, Whole
  <2>5. BlobInv'
    BY <2>1, <2>2, <2>4 DEF BlobInv, StoredBlob, Exists, Paths
  <2>6. UsersInv'
    BY <2>1, <2>2, <2>4 DEF UsersInv, StoredUsers, UsersWriters, Exists, AtUsers, Writing, Paths
  <2> QED
    BY <2>3, <2>5, <2>6, Zenon DEF FilesInv
<1> QED
  BY <1>1, <1>2, <1>3, Zenon

LEMMA FilesInvInit == FilesInit => FilesInv
<1>1. SUFFICES ASSUME FilesInit PROVE FilesInv
  OBVIOUS
<1>2. /\ node = [i \in Inodes |-> IF i = 1 THEN Whole({}) ELSE Torn]
      /\ proc = [s \in Servers |-> AtRest]
      /\ flhist = [n |-> 0, crashes |-> 0, done |-> {}, put |-> {}, overlap |-> {}, created |-> FALSE,
                   read |-> {}, stored |-> FALSE]
      /\ name = [p \in Paths |-> [at |-> IF p = "users" /\ ~flmenu.missing THEN 1 ELSE NoInode, tmp |-> NoInode]]
  BY <1>1, Zenon DEF FilesInit
<1>3. \A s \in Servers : proc[s] = AtRest
  BY <1>2
<1>4. AtRest \in FileRequests /\ AtRest.fd = NoInode /\ AtRest.pc = "idle"
  BY DEF AtRest, FileRequests, Paths
<1>5. \A p \in Paths : /\ name[p].at \in {1, NoInode} /\ name[p].tmp = NoInode
                       /\ p = "blob" => name[p].at = NoInode
                       /\ name[p] \in FileNames
  BY <1>2, InodesSuffice DEF Paths, FileNames
<1>6. FilesTypeOK
  <2>1. Torn \in [whole : BOOLEAN, val : SUBSET Nat] /\ Whole({}) \in [whole : BOOLEAN, val : SUBSET Nat]
    BY DEF Torn, Whole
  <2>2. node \in [Inodes -> [whole : BOOLEAN, val : SUBSET Nat]]
    BY <1>2, <2>1, Zenon
  <2>3. name \in [Paths -> FileNames]
    BY <1>2, <1>5, Zenon
  <2>4. proc \in [Servers -> FileRequests]
    BY <1>2, <1>4, Zenon
  <2>5. flhist \in FileHistories
    BY <1>2 DEF FileHistories
  <2> QED
    BY <2>2, <2>3, <2>4, <2>5 DEF FilesTypeOK
<1>7. Apart
  <2>1. ASSUME NEW p \in Paths, NEW i \in Inodes, Uses(p, i) PROVE p = "users"
    BY <1>3, <1>4, <1>5, <2>1, InodesSuffice DEF Uses, Paths
  <2>2. \A s \in Servers : proc[s].fd = NoInode
    BY <1>3, <1>4
  <2>3. \A p \in Paths : name[p].at # NoInode => name[p].at # name[p].tmp
    BY <1>5
  <2> QED
    BY <2>1, <2>2, <2>3, Zenon DEF Apart
<1>8. \A s \in Servers : proc[s].pc = "idle" /\ ~AtUsers(s) /\ ~Writing(s, "users") /\ ~Writing(s, "blob")
  BY <1>3, <1>4 DEF AtUsers, Writing
<1>9. RequestsTrue
  BY <1>8 DEF RequestsTrue, RequestTrue
<1>10. BlobInv
  BY <1>5, <1>8 DEF BlobInv, Clean, StoredBlob, Exists, Paths
<1>11. StoredUsers
  <2>1. flhist.done = {}
    BY <1>2
  <2>2. ASSUME Exists("users") PROVE node[name["users"].at].whole
    BY <1>2, <1>5, <2>2, InodesSuffice DEF Exists, Paths, Whole
  <2> QED
    BY <2>1, <2>2 DEF StoredUsers
<1>12. UsersInv
  BY <1>8, <1>11 DEF UsersInv, Clean, UsersWriters
<1> QED
  BY <1>6, <1>7, <1>9, <1>10, <1>12 DEF FilesInv

(* Every answered change of users.enc is in the file, and a stored blob is *)
(* whole and one that was put, whatever processes run, interleave and die  *)
(* at writeEncryptedFile's steps: for any number of server processes and   *)
(* writes, outside the two overlaps that FilesWhole names.                 *)
THEOREM FilesAlwaysWhole == FilesSpec => []FilesWhole
<1>1. FilesInv => FilesWhole
  BY DEF FilesInv, BlobInv, UsersInv, StoredBlob, StoredUsers, FilesWhole, UpdatesKept, BlobWhole,
         readEncryptedFile
<1> QED
  BY <1>1, FilesInvInit, FilesInvNext, PTL DEF FilesSpec
=============================================================================
