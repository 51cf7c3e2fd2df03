----------------------- MODULE LaunchPreparation_proofs -----------------------
(***************************************************************************)
(* Proofs about LaunchPreparation, for every listing, every set of files   *)
(* the agent has fetched and every number of retries: what the paths of a  *)
(* launch are made of, an inductive invariant in three parts (types,       *)
(* entries, and where each file of the label is), what follows from it,    *)
(* and the order of the deadline and the timers.                           *)
(***************************************************************************)
EXTENDS LaunchPreparation, SequenceTheorems, WellFoundedInduction, TLAPS

-----------------------------------------------------------------------------
(* Paths                                                                   *)

LEMMA TaskPathsAreHere == TaskPaths \subseteq Paths
<1> SUFFICES ASSUME NEW p \in TaskPaths PROVE p \in Paths
  OBVIOUS
<1>1. p.dirs \in Seq(Folders)
  BY DEF TaskPaths, Folders
<1>2. p = [dirs |-> p.dirs, words |-> p.words, generated |-> FALSE]
  BY DEF TaskPaths
<1> QED
  BY <1>1, <1>2 DEF TaskPaths, Paths

(* The first word of a name (strings.Fields) is a name.                    *)
LEMMA FirstFields ==
  ASSUME NEW p \in Paths, p.words # <<>>
  PROVE  /\ FirstField(p) \in Paths /\ FirstField(p).words = <<p.words[1]>>
         /\ FirstField(p).dirs = p.dirs /\ FirstField(p).generated = p.generated
<1>1. p.words[1] \in Words \cup {InfraName}
  BY DEF Paths
<1>2. <<p.words[1]>> \in Seq(Words \cup {InfraName})
  BY <1>1
<1> QED
  BY <1>2 DEF FirstField, Paths

(* A name of one word is its own first word.                               *)
LEMMA OneWord ==
  ASSUME NEW p \in Paths, Len(p.words) = 1
  PROVE  FirstField(p) = p
<1>1. p.words = <<p.words[1]>>
  BY DEF Paths
<1> QED
  BY <1>1 DEF FirstField, Paths

(* A folder put before the others.                                         *)
LEMMA Prepended ==
  ASSUME NEW S, NEW s \in Seq(S), NEW d \in S
  PROVE  /\ <<d>> \o s \in Seq(S) /\ Len(<<d>> \o s) = Len(s) + 1
         /\ (<<d>> \o s)[1] = d
         /\ \A i \in 1..Len(s) : (<<d>> \o s)[i + 1] = s[i]
<1>1. <<d>> \in Seq(S) /\ Len(<<d>>) = 1 /\ <<d>>[1] = d
  OBVIOUS
<1>2. /\ <<d>> \o s \in Seq(S) /\ Len(<<d>> \o s) = 1 + Len(s)
      /\ \A i \in 1..1 + Len(s) : (<<d>> \o s)[i] = IF i <= 1 THEN <<d>>[i] ELSE s[i - 1]
  BY <1>1, ConcatProperties
<1>3. \A i \in 1..Len(s) : i + 1 \in 1..1 + Len(s) /\ ~(i + 1 <= 1) /\ (i + 1) - 1 = i
  OBVIOUS
<1> QED
  BY <1>1, <1>2, <1>3

(* A path with a folder put before it.                                     *)
LEMMA Prefixed ==
  ASSUME NEW p \in Paths, NEW d \in Folders
  PROVE  /\ [p EXCEPT !.dirs = <<d>> \o @] \in Paths
         /\ [p EXCEPT !.dirs = <<d>> \o @].dirs = <<d>> \o p.dirs
         /\ [p EXCEPT !.dirs = <<d>> \o @].words = p.words
         /\ [p EXCEPT !.dirs = <<d>> \o @].generated = p.generated
<1>1. <<d>> \o p.dirs \in Seq(Folders)
  BY Prepended DEF Paths
<1> QED
  BY <1>1 DEF Paths

(* What the folder is put before is determined by the result.              *)
LEMMA PrefixedOnce ==
  ASSUME NEW p \in Paths, NEW q \in Paths, NEW d \in Folders,
         [p EXCEPT !.dirs = <<d>> \o @] = [q EXCEPT !.dirs = <<d>> \o @]
  PROVE  p = q
<1> DEFINE P == [p EXCEPT !.dirs = <<d>> \o @]
           Q == [q EXCEPT !.dirs = <<d>> \o @]
<1>1. P.dirs = Q.dirs /\ P.words = Q.words /\ P.generated = Q.generated
  OBVIOUS
<1>2. P.dirs = <<d>> \o p.dirs /\ Q.dirs = <<d>> \o q.dirs
  BY Prefixed
<1>3. P.words = p.words /\ Q.words = q.words /\ P.generated = p.generated /\ Q.generated = q.generated
  BY Prefixed
<1> HIDE DEF P, Q
<1>4. p.dirs \in Seq(Folders) /\ q.dirs \in Seq(Folders) /\ <<d>> \in Seq(Folders)
  BY DEF Paths
<1>5. p.dirs = q.dirs
  <2>1. <<d>> \o p.dirs = <<d>> \o q.dirs
    BY <1>1, <1>2
  <2> QED
    BY <1>4, <2>1, ConcatSimplifications
<1>6. /\ p = [dirs |-> p.dirs, words |-> p.words, generated |-> p.generated]
      /\ q = [dirs |-> q.dirs, words |-> q.words, generated |-> q.generated]
  BY DEF Paths
<1> QED
  BY <1>1, <1>3, <1>5, <1>6

(* A path that FolderPath and Fields leave as it is.                       *)
Settled(p) == Len(p.words) = 1 /\ (config.noFolder = "true" \/ InFolder(p))

(* FolderPath (file.go:482) leads through the folder, unless it adds none. *)
LEMMA FolderPaths ==
  ASSUME NEW p \in Paths, config.folder \in Folders
  PROVE  /\ FolderPath(p) \in Paths /\ FolderPath(p).words = p.words
         /\ FolderPath(p).generated = p.generated
         /\ config.noFolder = "true" \/ InFolder(FolderPath(p))
<1>1. CASE config.noFolder = "true" \/ InFolder(p)
  BY <1>1 DEF FolderPath
<1>2. CASE ~(config.noFolder = "true" \/ InFolder(p))
  <2> DEFINE q == [p EXCEPT !.dirs = <<config.folder>> \o @]
  <2>1. FolderPath(p) = q
    BY <1>2 DEF FolderPath
  <2>2. q \in Paths /\ q.dirs = <<config.folder>> \o p.dirs /\ q.words = p.words
        /\ q.generated = p.generated
    BY Prefixed
  <2>3. 1 \in DOMAIN q.dirs /\ q.dirs[1] = config.folder
    <3>1. p.dirs \in Seq(Folders)
      BY DEF Paths
    <3>2. q.dirs \in Seq(Folders) /\ Len(q.dirs) = Len(p.dirs) + 1 /\ q.dirs[1] = config.folder
      BY <2>2, <3>1, Prepended
    <3> QED
      BY <3>1, <3>2
  <2> HIDE DEF q
  <2> QED
    BY <2>1, <2>2, <2>3 DEF InFolder
<1> QED
  BY <1>1, <1>2

LEMMA SettledStays ==
  ASSUME NEW p \in Paths, Settled(p)
  PROVE  FirstField(p) = p /\ FolderPath(p) = p /\ KeyOf(p) = p /\ WritePath(p) = p
<1>1. FirstField(p) = p
  BY OneWord DEF Settled
<1>2. FolderPath(p) = p
  BY DEF Settled, FolderPath
<1> QED
  BY <1>1, <1>2 DEF KeyOf, WritePath

(* Neither FolderPath nor Fields changes a key any more.                   *)
LEMMA KeysAreSettled ==
  ASSUME NEW p \in Paths, p.words # <<>>, config.folder \in Folders
  PROVE  /\ KeyOf(p) \in Paths /\ Settled(KeyOf(p)) /\ KeyOf(p).words = <<p.words[1]>>
         /\ KeyOf(p).generated = p.generated
<1>1. FirstField(p) \in Paths /\ FirstField(p).words = <<p.words[1]>>
      /\ FirstField(p).generated = p.generated
  BY FirstFields
<1>2. Len(<<p.words[1]>>) = 1
  OBVIOUS
<1> QED
  BY <1>1, <1>2, FolderPaths DEF KeyOf, Settled

LEMMA InfraIsSettled ==
  ASSUME config.folder \in Folders
  PROVE  /\ WritePath(InfraPath) \in Paths /\ Settled(WritePath(InfraPath))
         /\ WritePath(InfraPath).words = InfraPath.words
         /\ WritePath(InfraPath).generated = FALSE
<1>1. InfraPath \in Paths /\ InfraPath.words # <<>> /\ InfraPath.words = <<InfraPath.words[1]>>
      /\ InfraPath.generated = FALSE
  <2>1. <<>> \in Seq(Folders) /\ <<InfraName>> \in Seq(Words \cup {InfraName})
    OBVIOUS
  <2>2. <<InfraName>> # <<>> /\ <<InfraName>>[1] = InfraName
    OBVIOUS
  <2> QED
    BY <2>1, <2>2 DEF InfraPath, Paths
<1>2. ~InFolder(InfraPath)
  BY DEF InFolder, InfraPath
<1>3. WritePath(InfraPath) = KeyOf(InfraPath)
  BY <1>2 DEF WritePath, KeyOf
<1> QED
  BY <1>1, <1>3, KeysAreSettled

LEMMA GeneratedIsSettled ==
  ASSUME NEW p \in Paths
  PROVE  /\ Generated(p) \in Paths /\ Generated(p).generated = TRUE
         /\ Settled(p) => Settled(Generated(p))
<1>1. Generated(p) \in Paths /\ Generated(p).generated = TRUE
      /\ Generated(p).words = p.words /\ Generated(p).dirs = p.dirs
  BY DEF Generated, Paths
<1> QED
  BY <1>1 DEF Settled, InFolder

(* Two files are renamed to one name only if they are the same.            *)
LEMMA GeneratedOnce ==
  ASSUME NEW p \in Paths, NEW q \in Paths, p.generated = q.generated, Generated(p) = Generated(q)
  PROVE  p = q
<1>1. /\ p = [dirs |-> p.dirs, words |-> p.words, generated |-> p.generated]
      /\ q = [dirs |-> q.dirs, words |-> q.words, generated |-> q.generated]
  BY DEF Paths
<1>2. p.dirs = q.dirs /\ p.words = q.words
  BY DEF Generated, Paths
<1> QED
  BY <1>1, <1>2

(* Where a file of the label is copied to when a folder is made for it.    *)
InRunFolder(p) == [FirstField(p) EXCEPT !.dirs = <<RunFolder>> \o @]

(* Such a copy begins with the folder of the run.                          *)
LEMMA RunPaths ==
  ASSUME NEW p \in Paths, p.words # <<>>
  PROVE  /\ InRunFolder(p) \in Paths /\ InRunFolder(p).words = <<p.words[1]>>
         /\ InRunFolder(p).dirs = <<RunFolder>> \o p.dirs
         /\ InRunFolder(p).generated = p.generated
         /\ 1 \in DOMAIN InRunFolder(p).dirs /\ InRunFolder(p).dirs[1] = RunFolder
<1>1. /\ FirstField(p) \in Paths /\ FirstField(p).words = <<p.words[1]>>
      /\ FirstField(p).dirs = p.dirs /\ FirstField(p).generated = p.generated
  BY FirstFields
<1>2. RunFolder \in Folders
  BY DEF Folders
<1>3. /\ InRunFolder(p) \in Paths /\ InRunFolder(p).words = <<p.words[1]>>
      /\ InRunFolder(p).dirs = <<RunFolder>> \o p.dirs
      /\ InRunFolder(p).generated = p.generated
  BY <1>1, <1>2, Prefixed DEF InRunFolder
<1>4. p.dirs \in Seq(Folders)
  BY DEF Paths
<1>5. /\ <<RunFolder>> \o p.dirs \in Seq(Folders) /\ (<<RunFolder>> \o p.dirs)[1] = RunFolder
      /\ Len(<<RunFolder>> \o p.dirs) = Len(p.dirs) + 1
  BY <1>2, <1>4, Prepended
<1>6. 1 \in DOMAIN (<<RunFolder>> \o p.dirs)
  BY <1>4, <1>5
<1> QED
  BY <1>3, <1>5, <1>6

(* A copy keeps that folder in its key, whatever the folder is by then.    *)
LEMMA RunKeys ==
  ASSUME NEW p \in Paths, p.words # <<>>, config.folder \in Folders
  PROVE  /\ KeyOf(InRunFolder(p)) = FolderPath(InRunFolder(p))
         /\ \E i \in DOMAIN KeyOf(InRunFolder(p)).dirs : KeyOf(InRunFolder(p)).dirs[i] = RunFolder
<1> DEFINE q == InRunFolder(p)
<1>1. q \in Paths /\ Len(q.words) = 1 /\ 1 \in DOMAIN q.dirs /\ q.dirs[1] = RunFolder
  BY RunPaths
<1> HIDE DEF q
<1>2. KeyOf(q) = FolderPath(q)
  BY <1>1, OneWord DEF KeyOf
<1>3. CASE FolderPath(q) = q
  BY <1>1, <1>2, <1>3 DEF q
<1>4. CASE FolderPath(q) # q
  <2>1. FolderPath(q) = [q EXCEPT !.dirs = <<config.folder>> \o @]
    BY <1>4 DEF FolderPath
  <2>2. FolderPath(q).dirs = <<config.folder>> \o q.dirs
    BY <1>1, <2>1, Prefixed
  <2>3. q.dirs \in Seq(Folders)
    BY <1>1 DEF Paths
  <2>4. 1 \in 1..Len(q.dirs) /\ 1 + 1 = 2
    BY <1>1, <2>3
  <2>5. /\ <<config.folder>> \o q.dirs \in Seq(Folders)
        /\ Len(<<config.folder>> \o q.dirs) = Len(q.dirs) + 1
        /\ (<<config.folder>> \o q.dirs)[2] = q.dirs[1]
    BY <2>3, <2>4, Prepended
  <2>6. 2 \in DOMAIN (<<config.folder>> \o q.dirs)
    BY <2>3, <2>4, <2>5
  <2> QED
    BY <1>1, <1>2, <2>2, <2>5, <2>6 DEF q
<1> QED
  BY <1>3, <1>4

(* Copies of one key come from names that begin with the same word: the    *)
(* folder, which a label may have replaced, makes no two of them one.      *)
LEMMA RunKeysDiffer ==
  ASSUME NEW p \in Paths, NEW q \in Paths, p.words # <<>>, q.words # <<>>,
         config.folder \in Folders, KeyOf(InRunFolder(p)) = KeyOf(InRunFolder(q))
  PROVE  FirstField(p) = FirstField(q)
<1> DEFINE r == InRunFolder(p)
           s == InRunFolder(q)
<1>1. /\ r \in Paths /\ 1 \in DOMAIN r.dirs /\ r.dirs[1] = RunFolder
      /\ s \in Paths /\ 1 \in DOMAIN s.dirs /\ s.dirs[1] = RunFolder
  BY RunPaths
<1>2. FolderPath(r) = FolderPath(s)
  BY RunKeys
<1>3. RunFolder \in Folders /\ FirstField(p) \in Paths /\ FirstField(q) \in Paths
  BY FirstFields DEF Folders
<1>4. r = s => FirstField(p) = FirstField(q)
  BY <1>3, PrefixedOnce DEF InRunFolder
<1> HIDE DEF r, s
<1>5. config.folder = RunFolder => InFolder(r) /\ InFolder(s)
  BY <1>1 DEF InFolder
<1>6. CASE config.noFolder = "true" \/ (InFolder(r) /\ InFolder(s))
  BY <1>2, <1>4, <1>6 DEF FolderPath
<1>7. CASE ~(config.noFolder = "true") /\ ~InFolder(r) /\ ~InFolder(s)
  <2>1. [r EXCEPT !.dirs = <<config.folder>> \o @] = [s EXCEPT !.dirs = <<config.folder>> \o @]
    BY <1>2, <1>7 DEF FolderPath
  <2> QED
    BY <1>1, <1>4, <2>1, PrefixedOnce
<1>8. ASSUME NEW a \in Paths, NEW b \in Paths, a.dirs[1] = RunFolder,
             [b EXCEPT !.dirs = <<config.folder>> \o @] = a
      PROVE  config.folder = RunFolder
  <2>1. b.dirs \in Seq(Folders)
    BY DEF Paths
  <2>2. a.dirs = <<config.folder>> \o b.dirs
    BY <1>8, Prefixed
  <2> QED
    BY <1>8, <2>1, <2>2, Prepended
<1>9. CASE ~(config.noFolder = "true") /\ InFolder(r) /\ ~InFolder(s)
  <2>1. [s EXCEPT !.dirs = <<config.folder>> \o @] = r
    BY <1>2, <1>9 DEF FolderPath
  <2> QED
    BY <1>1, <1>5, <1>8, <1>9, <2>1
<1>10. CASE ~(config.noFolder = "true") /\ ~InFolder(r) /\ InFolder(s)
  <2>1. [r EXCEPT !.dirs = <<config.folder>> \o @] = s
    BY <1>2, <1>10 DEF FolderPath
  <2> QED
    BY <1>1, <1>5, <1>8, <1>10, <2>1
<1> QED
  BY <1>6, <1>7, <1>9, <1>10

(* The run's folder is in no path of the task.                             *)
LEMMA TaskPathsElsewhere ==
  ASSUME NEW p \in TaskPaths
  PROVE  p.generated = FALSE /\ \A i \in DOMAIN p.dirs : p.dirs[i] # RunFolder
<1>1. p.dirs \in Seq({BaseFolder, OtherFolder}) /\ p.generated = FALSE
  BY DEF TaskPaths
<1>2. \A i \in DOMAIN p.dirs : p.dirs[i] \in {BaseFolder, OtherFolder}
  BY <1>1
<1>3. RunFolder # BaseFolder /\ RunFolder # OtherFolder
  BY DEF RunFolder, BaseFolder, OtherFolder
<1> QED
  BY <1>1, <1>2, <1>3

(* The least and the greatest of some numbers, for the last file of a key. *)
LEMMA Least ==
  ASSUME NEW T \in SUBSET Nat, T # {}
  PROVE  \E x \in T : \A y \in T : x <= y
<1> DEFINE R == OpToRel(<, Nat)
<1>1. PICK x \in T : \A y \in T : ~(<<y, x>> \in R)
  BY NatLessThanWellFounded, WFMin
<1>2. ASSUME NEW y \in T
      PROVE  x <= y
  <2>1. ~(<<y, x>> \in R)
    BY <1>1
  <2>2. ~(y < x)
    BY <2>1 DEF OpToRel
  <2> QED
    BY <2>2
<1> QED
  BY <1>2

LEMMA Latest ==
  ASSUME NEW n \in Nat, NEW T \in SUBSET (1..n), T # {}
  PROVE  \E x \in T : \A y \in T : y <= x
<1> DEFINE U == {n - y : y \in T}
<1>0. \A y \in T : y \in Nat /\ y <= n
  OBVIOUS
<1>1. U \in SUBSET Nat /\ U # {}
  <2>1. \A y \in T : n - y \in Nat
    BY <1>0
  <2> QED
    BY <2>1
<1>2. PICK u \in U : \A v \in U : u <= v
  BY <1>1, Least
<1>3. PICK x \in T : u = n - x
  BY <1>2
<1>4. ASSUME NEW y \in T
      PROVE  y <= x
  <2>1. n - x <= n - y
    BY <1>2, <1>3
  <2> QED
    BY <1>0, <2>1
<1> QED
  BY <1>4

-----------------------------------------------------------------------------
(* The inductive invariant                                                 *)

Contents == [of : Paths, services : BOOLEAN]

(* The types.  Beyond TypeOK: what lists and entries are made of, that the *)
(* files of the disk are in folders, that there are no entries before the  *)
(* files are parsed, and how long the list of files is.                    *)
Lengths ==
  /\ pc \in {"files", "folder", "copy", "override", "parse"} => detail = <<>>
  /\ pc \in {"files", "folder"} => at = 0
  /\ pc \in {"folder", "copy", "override", "parse", "infra"} => Len(files) = Len(label.files)
  /\ pc = "edit" => Len(files) = Len(label.files) + 1
  /\ pc \in {"copy", "edit"} => at <= Len(files)
  /\ pc \in {"pull", "pulling"} => at <= config.pullRetry

Scalars ==
  /\ label.files \in Listings /\ given \in Present
  /\ config \in [folder : Folders, noFolder : {NoOverride, "true", "false"}, pullRetry : 0..MaxRetry,
                 skipPull : BOOLEAN, timeout : {"positive", "negative"}]
  /\ label.noFolder \in {NoOverride, "true", "false"} /\ label.folder \in Folders \cup {NoOverride}
  /\ at \in 0..MaxRetry + Len(label.files) + 1
  /\ deadline \in {"off", "armed", "fired", "canceled"} /\ timer \in {"off", "armed", "fired"}
  /\ stray \subseteq {"validating", "pulling"} /\ told \in BOOLEAN
  /\ faults \subseteq {"mkdir", "copy", "create", "partial"}
  /\ pc \in Steps
  /\ pc = "copy" => config.folder = RunFolder
StoredWell == \A p \in DOMAIN disk : p \in Paths /\ disk[p] \in Contents /\ p.dirs \in dirs
EnteredWell == \A p \in DOMAIN detail : p \in Paths /\ detail[p] \in Contents /\ Settled(p)
ListedWell == files \in Seq(Paths) /\ edited \in Seq(Paths)

TInv == Scalars /\ StoredWell /\ EnteredWell /\ ListedWell /\ Lengths

(* Only what the plugin wrote has a generated name, on the disk as in the  *)
(* entries, and whatever is listed after the editing has an entry.         *)
Plain == {"files", "folder", "copy", "override", "parse", "infra"}
Prepared == {"write", "validate", "validating", "pull", "pulling", "rewrite", "up"}
Validated == {"validating", "pull", "pulling", "rewrite", "up"}

PlainNames ==
  /\ pc \in Plain \cup {"edit"} => \A i \in DOMAIN files : ~files[i].generated
  /\ pc \in Plain \cup {"edit"} => \A p \in DOMAIN disk : ~p.generated
  /\ pc \in Plain => edited = <<>> /\ \A k \in DOMAIN detail : ~k.generated
OneName == \A k \in DOMAIN detail : ~k.generated => Generated(k) \notin DOMAIN detail
HaveEntries ==
  /\ pc = "edit" => \A i \in DOMAIN edited : edited[i].generated /\ HasServices(edited[i])
  /\ pc \in Prepared => \A i \in DOMAIN files : files[i].generated /\ HasServices(files[i])
WrittenAsHeld ==
  pc \in Prepared => \A p \in DOMAIN disk : p.generated =>
                       p \in DOMAIN detail /\ ("partial" \notin faults => disk[p] = detail[p])
Checked == pc \in Validated => FilesExist

EntryInv == PlainNames /\ OneName /\ HaveEntries /\ WrittenAsHeld /\ Checked

(* Under which path each file of the label is listed until it is parsed.   *)
Flat == config.noFolder = "true" \/ label.noFolder = "false"
Shape ==
  /\ pc \in {"files", "folder"} => faults = {} /\ disk = given
  /\ pc = "folder" => files = label.files
  /\ pc = "copy" => /\ "mkdir" \notin faults
                    /\ \A i \in DOMAIN files :
                         IF i > at THEN files[i] = label.files[i]
                         ELSE /\ label.files[i].words # <<>>
                              /\ files[i] = IF config.noFolder = "true" THEN FirstField(label.files[i])
                                            ELSE InRunFolder(label.files[i])
  /\ pc \in {"override", "parse"} =>
       IF "mkdir" \in faults THEN files = label.files
       ELSE /\ \A i \in DOMAIN label.files : label.files[i].words # <<>>
            /\ \/ \A i \in DOMAIN files : files[i] = InRunFolder(label.files[i])
               \/ Flat /\ \A i \in DOMAIN files : files[i] = FirstField(label.files[i])

(* Why a file may be lost before it is parsed, and after.                  *)
Unfit(f) == \/ f \notin DOMAIN given
            \/ f \in DOMAIN given /\ ~given[f].services
            \/ f.words[1] = InfraName
            \/ \E g \in Listed : g # f /\ g.words # <<>> /\ FirstField(f) = FirstField(g)
            \/ "copy" \in faults
            \/ "mkdir" \in faults /\ Len(f.words) > 1
Excused(f) == Unfit(f) \/ \E g \in Listed : g # f /\ SamePath(f, g)
Emptied(f) == f \in DOMAIN disk /\ disk[f] = Empty /\ (f \in DOMAIN detail => detail[f] = Empty)

(* Every other file is to be found at each stage of the launch.            *)
OnDisk(p, f) == p \in DOMAIN disk /\ disk[p] = given[f]
Entered(p, f) == p \in DOMAIN detail /\ detail[p] = given[f]

Copies ==
  pc \in {"copy", "override", "parse"} =>
    \A f \in Listed :
      \/ f.words = <<>> \/ Unfit(f) \/ Emptied(f)
      \/ /\ OnDisk(f, f)
         /\ \A i \in DOMAIN files : (pc = "copy" => i <= at) /\ label.files[i] = f => OnDisk(files[i], f)
Entries ==
  /\ pc = "infra" =>
       \A f \in Listed : \/ Excused(f) \/ Emptied(f)
                         \/ \E i \in DOMAIN files : /\ files[i].words[1] # InfraName
                                                    /\ Entered(FolderPath(files[i]), f)
  /\ pc = "edit" =>
       \A f \in Listed : \/ Excused(f) \/ Emptied(f)
                         \/ \E i \in DOMAIN files : i > at /\ Entered(files[i], f)
                         \/ \E i \in DOMAIN edited : Entered(edited[i], f)
  /\ pc \in Prepared =>
       \A f \in Listed : Excused(f) \/ Emptied(f) \/ \E i \in DOMAIN files : Entered(files[i], f)

FileInv == Shape /\ Copies /\ Entries
PrepInv == TInv /\ EntryInv /\ FileInv

-----------------------------------------------------------------------------
(* TInv: the types                                                         *)

LEMMA ListingsAreTyped ==
  ASSUME label.files \in Listings
  PROVE  /\ label.files \in Seq(TaskPaths) /\ Len(label.files) \in Nat
         /\ \A i \in DOMAIN label.files : label.files[i] \in TaskPaths /\ label.files[i] \in Paths
<1>1. label.files \in Seq(TaskPaths)
  BY ListingAssumption
<1> QED
  BY <1>1, TaskPathsAreHere

LEMMA GivenIsTyped ==
  ASSUME given \in Present, NEW f \in DOMAIN given
  PROVE  /\ f \in TaskPaths /\ f \in Paths /\ f.dirs \in TaskDirs
         /\ given[f] \in Contents /\ given[f].of = f /\ given[f] # Empty
<1>1. f \in TaskPaths /\ f.dirs \in TaskDirs /\ given[f] \in [of : {f}, services : BOOLEAN]
  BY PresentAssumption
<1>2. f \in Paths
  BY <1>1, TaskPathsAreHere
<1>3. given[f] \in Contents /\ given[f].of = f
  BY <1>1, <1>2 DEF Contents
<1>4. f.generated = FALSE
  BY <1>1, TaskPathsElsewhere
<1>5. Empty.of.generated = TRUE
  BY DEF Empty
<1> QED
  BY <1>1, <1>2, <1>3, <1>4, <1>5

LEMMA EmptyIsTyped == Empty \in Contents
<1>1. <<>> \in Seq(Folders) /\ <<>> \in Seq(Words \cup {InfraName})
  OBVIOUS
<1> QED
  BY <1>1 DEF Empty, Contents, Paths

LEMMA InfraIsTyped == InfraContent \in Contents
<1>1. <<>> \in Seq(Folders) /\ <<InfraName>> \in Seq(Words \cup {InfraName})
  OBVIOUS
<1> QED
  BY <1>1 DEF InfraContent, InfraPath, Contents, Paths

LEMMA TypesInit == Init => TInv
<1> SUFFICES ASSUME Init PROVE TInv
  OBVIOUS
<1>1. Scalars
  <2>1. MaxRetry \in 0..MaxRetry
    BY RetryAssumption
  <2>2. Len(label.files) \in Nat /\ label.files \in Listings
    BY ListingsAreTyped DEF Init
  <2>3. 0 \in 0..MaxRetry + Len(label.files) + 1
    BY <2>2, RetryAssumption
  <2> QED
    BY <2>1, <2>2, <2>3 DEF Init, Scalars, Folders, Steps
<1>2. StoredWell
  BY GivenIsTyped DEF Init, StoredWell
<1>3. EnteredWell /\ ListedWell
  BY DEF Init, EnteredWell, ListedWell
<1>4. Lengths
  BY DEF Init, Lengths
<1> QED
  BY <1>1, <1>2, <1>3, <1>4 DEF TInv

(* A step that leaves the paths alone.                                     *)
LEMMA PathsStay ==
  ASSUME TInv, UNCHANGED store, config'.folder = config.folder, config'.noFolder = config.noFolder
  PROVE  StoredWell' /\ EnteredWell' /\ ListedWell'
<1>1. \A p : Settled(p)' <=> Settled(p)
  BY DEF Settled, InFolder
<1> QED
  BY <1>1 DEF TInv, store, StoredWell, EnteredWell, ListedWell

LEMMA GetFilesKeepsTypes == TInv /\ GetFiles => TInv'
<1> SUFFICES ASSUME TInv, GetFiles PROVE TInv'
  OBVIOUS
<1> USE DEF GetFiles, task, clock
<1>1. label.files \in Seq(Paths)
  BY ListingsAreTyped, TaskPathsAreHere DEF TInv, Scalars
<1>2. ListedWell' /\ StoredWell'
  BY <1>1 DEF TInv, ListedWell, StoredWell
<1>3. EnteredWell'
  BY DEF TInv, EnteredWell, Settled, InFolder
<1>4. Scalars' /\ Lengths'
  BY DEF TInv, Scalars, Lengths, Steps
<1> QED
  BY <1>2, <1>3, <1>4 DEF TInv

LEMMA FolderKeepsTypes == TInv /\ GenerateAppFolder => TInv'
<1> SUFFICES ASSUME TInv, GenerateAppFolder PROVE TInv'
  OBVIOUS
<1> USE DEF GenerateAppFolder, task, clock
<1>1. ListedWell' /\ StoredWell'
  BY DEF TInv, ListedWell, StoredWell
<1>2. EnteredWell'
  <2>1. CASE UNCHANGED config
    BY <2>1 DEF TInv, EnteredWell, Settled, InFolder
  <2>2. CASE config' = [config EXCEPT !.folder = RunFolder]
    BY <2>2 DEF TInv, EnteredWell, Lengths
  <2> QED
    BY <2>1, <2>2
<1>3. Scalars' /\ Lengths'
  BY DEF TInv, Scalars, Lengths, Steps, Folders
<1> QED
  BY <1>1, <1>2, <1>3 DEF TInv

LEMMA StoringKeepsTypes ==
  ASSUME StoredWell, NEW p \in Paths, NEW c \in Contents, p.dirs \in dirs',
         disk' = Stored(p, c), dirs \subseteq dirs'
  PROVE  StoredWell'
  BY DEF StoredWell, Stored

(* The copy is in a folder that exists, made before it (file.go:559).      *)
LEMMA CopyNextKeepsTypes == TInv /\ CopyNext => TInv'
<1> SUFFICES ASSUME TInv, CopyNext PROVE TInv'
  OBVIOUS
<1> DEFINE source == files[at + 1]
           dest == FolderPath(FirstField(source))
<1>1. files \in Seq(Paths) /\ at \in Nat /\ at < Len(files) /\ Len(files) = Len(label.files)
  BY DEF TInv, ListedWell, Scalars, Lengths, CopyNext
<1>2. source \in Paths /\ at + 1 \in DOMAIN files
  BY <1>1
<1>3. config.folder = RunFolder /\ config.folder \in Folders
  BY DEF TInv, Scalars, CopyNext, Folders
<1>4. CASE source.words = <<>>
  <2>1. UNCHANGED store /\ UNCHANGED <<config, task, at, clock, faults>> /\ pc' = "crashed"
    BY <1>4 DEF CopyNext, store
  <2>2. StoredWell' /\ EnteredWell' /\ ListedWell'
    BY <2>1, PathsStay
  <2>3. Scalars' /\ Lengths'
    BY <2>1 DEF TInv, Scalars, Lengths, Steps, task, clock
  <2> QED
    BY <2>2, <2>3 DEF TInv
<1>5. CASE source.words # <<>>
  <2>1. FirstField(source) \in Paths /\ FirstField(source).dirs = source.dirs
    BY <1>2, <1>5, FirstFields
  <2>2. dest \in Paths
    BY <1>3, <2>1, FolderPaths
  <2>3. /\ dirs' = dirs \cup {<<RunFolder>> \o source.dirs}
        /\ files' = [files EXCEPT ![at + 1] = dest] /\ at' = at + 1
        /\ \/ disk' = Copied(source, dest) /\ UNCHANGED faults
           \/ /\ source \in DOMAIN disk
              /\ disk' \in {disk, Stored(dest, Empty)}
              /\ faults' = faults \cup {"copy"}
        /\ UNCHANGED <<pc, task, config, detail, edited, clock>>
    BY <1>5 DEF CopyNext
  <2>4. source \in DOMAIN disk => dest.dirs \in dirs'
    <3> SUFFICES ASSUME source \in DOMAIN disk PROVE dest.dirs \in dirs'
      OBVIOUS
    <3>1. source.dirs \in dirs
      BY DEF TInv, StoredWell
    <3>2. CASE FolderPath(FirstField(source)) = FirstField(source)
      BY <2>1, <2>3, <3>1, <3>2
    <3>3. CASE FolderPath(FirstField(source)) # FirstField(source)
      <4>1. dest = [FirstField(source) EXCEPT !.dirs = <<config.folder>> \o @]
        BY <3>3 DEF FolderPath
      <4>2. dest.dirs = <<RunFolder>> \o source.dirs
        BY <1>3, <2>1, <4>1, Prefixed
      <4> QED
        BY <2>3, <4>2
    <3> QED
      BY <3>2, <3>3
  <2> HIDE DEF dest, source
  <2>5. StoredWell'
    <3>1. StoredWell /\ dirs \subseteq dirs'
      BY <2>3 DEF TInv
    <3>2. CASE disk' = disk
      BY <3>1, <3>2 DEF StoredWell
    <3>3. ASSUME source \in DOMAIN disk, NEW c \in Contents, disk' = Stored(dest, c)
          PROVE  StoredWell'
      BY <2>2, <2>4, <3>1, <3>3, StoringKeepsTypes
    <3>4. source \in DOMAIN disk => disk[source] \in Contents
      BY DEF TInv, StoredWell
    <3> QED
      BY <2>3, <3>2, <3>3, <3>4, EmptyIsTyped DEF Copied
  <2>6. ListedWell' /\ Len(files') = Len(files)
    BY <1>1, <2>2, <2>3 DEF TInv, ListedWell
  <2>7. EnteredWell'
    BY <2>3 DEF TInv, EnteredWell, Settled, InFolder
  <2>8. Scalars'
    <3>1. at + 1 \in 0..MaxRetry + Len(label.files) + 1
      BY <1>1, RetryAssumption
    <3>2. faults' \subseteq {"mkdir", "copy", "create", "partial"}
      BY <2>3 DEF TInv, Scalars
    <3>3. /\ UNCHANGED <<label, given, config, deadline, timer, stray, told, pc>>
          /\ at' = at + 1
      BY <2>3 DEF task, clock
    <3>4. Scalars
      BY DEF TInv
    <3> QED
      BY <3>1, <3>2, <3>3, <3>4 DEF Scalars
  <2>9. Lengths'
    BY <1>1, <2>3, <2>6 DEF TInv, Lengths, task, CopyNext
  <2> QED
    BY <2>5, <2>6, <2>7, <2>8, <2>9 DEF TInv
<1> QED
  BY <1>4, <1>5

LEMMA CopyDoneKeepsTypes == TInv /\ CopyDone => TInv'
<1> SUFFICES ASSUME TInv, CopyDone PROVE TInv'
  OBVIOUS
<1>1. StoredWell' /\ EnteredWell' /\ ListedWell'
  BY PathsStay DEF CopyDone
<1>2. Scalars' /\ Lengths'
  BY DEF TInv, Scalars, Lengths, Steps, task, clock, store, CopyDone
<1> QED
  BY <1>1, <1>2 DEF TInv

LEMMA OverrideKeepsTypes == TInv /\ OverrideConfig => TInv'
<1> SUFFICES ASSUME TInv, OverrideConfig PROVE TInv'
  OBVIOUS
<1> USE DEF OverrideConfig, task, store
<1>1. ListedWell' /\ StoredWell' /\ EnteredWell'
  BY DEF TInv, ListedWell, StoredWell, EnteredWell, Lengths
<1>2. config' \in [folder : Folders, noFolder : {NoOverride, "true", "false"}, pullRetry : 0..MaxRetry,
                   skipPull : BOOLEAN, timeout : {"positive", "negative"}]
  <2>1. 0 \in 0..MaxRetry
    BY RetryAssumption
  <2> QED
    BY <2>1 DEF TInv, Scalars
<1>3. Scalars' /\ Lengths'
  BY <1>2 DEF TInv, Scalars, Lengths, Steps
<1> QED
  BY <1>1, <1>3 DEF TInv

LEMMA ParseKeepsTypes == TInv /\ ParseYamls => TInv'
<1> SUFFICES ASSUME TInv, ParseYamls PROVE TInv'
  OBVIOUS
<1>1. ListedWell' /\ StoredWell'
  BY DEF TInv, ListedWell, StoredWell, ParseYamls, task
<1>2. Scalars' /\ Lengths'
  BY DEF TInv, Scalars, Lengths, Steps, ParseYamls, task, clock
<1>3. EnteredWell'
  <2> SUFFICES ASSUME NEW k \in DOMAIN detail'
               PROVE  k \in Paths /\ detail'[k] \in Contents /\ Settled(k)'
    BY DEF EnteredWell
  <2> DEFINE last == CHOOSE i \in DOMAIN files :
                       /\ KeyOf(files[i]) = k
                       /\ \A j \in DOMAIN files : KeyOf(files[j]) = k => j <= i
  <2>1. k \in {KeyOf(f) : f \in Range(files)}
        /\ detail'[k] = IF files[last] \in DOMAIN disk THEN disk[files[last]] ELSE Empty
    BY DEF ParseYamls
  <2>2. PICK j \in DOMAIN files : k = KeyOf(files[j])
    BY <2>1 DEF Range
  <2>3. files[j] \in Paths /\ files[j].words # <<>> /\ config.folder \in Folders
    BY DEF TInv, ListedWell, Scalars, ParseYamls
  <2>4. k \in Paths /\ Settled(k)
    BY <2>2, <2>3, KeysAreSettled
  <2>5. Settled(k)' <=> Settled(k)
    BY DEF Settled, InFolder, ParseYamls
  <2> HIDE DEF last
  <2>6. detail'[k] \in Contents
    BY <2>1, EmptyIsTyped DEF TInv, StoredWell
  <2> QED
    BY <2>4, <2>5, <2>6
<1> QED
  BY <1>1, <1>2, <1>3 DEF TInv

LEMMA FailureKeepsTypes == TInv /\ PluginFails => TInv'
<1> SUFFICES ASSUME TInv, PluginFails PROVE TInv'
  OBVIOUS
<1>1. StoredWell' /\ EnteredWell' /\ ListedWell'
  BY PathsStay DEF PluginFails
<1>2. Scalars' /\ Lengths'
  BY DEF TInv, Scalars, Lengths, Steps, task, clock, store, PluginFails, ReportFailure
<1> QED
  BY <1>1, <1>2 DEF TInv

(* The infra container's file is in a folder that exists, or is not made.  *)
LEMMA InfraKeepsTypes == TInv /\ CreateInfraContainer => TInv'
<1> SUFFICES ASSUME TInv, CreateInfraContainer PROVE TInv'
  OBVIOUS
<1> DEFINE path == WritePath(InfraPath)
<1>1. /\ path.dirs \in dirs /\ disk' = Stored(path, InfraContent)
      /\ detail' = [k \in DOMAIN detail \cup {path} |-> IF k = path THEN InfraContent ELSE detail[k]]
      /\ files' = Append([i \in DOMAIN files |-> FolderPath(files[i])], path)
      /\ at' = 0 /\ pc' = "edit"
      /\ UNCHANGED <<task, config, dirs, edited, clock, faults>>
  BY DEF CreateInfraContainer
<1>2. config.folder \in Folders
  BY DEF TInv, Scalars
<1>3. path \in Paths /\ Settled(path)
  BY <1>2, InfraIsSettled
<1> HIDE DEF path
<1>4. StoredWell'
  BY <1>1, <1>3, InfraIsTyped, StoringKeepsTypes DEF TInv
<1>5. EnteredWell'
  <2>1. \A p : Settled(p)' <=> Settled(p)
    BY <1>1 DEF Settled, InFolder
  <2> QED
    BY <1>1, <1>3, <2>1, InfraIsTyped DEF TInv, EnteredWell
<1>6. ListedWell' /\ Len(files') = Len(files) + 1 /\ Len(files) \in Nat
  <2> DEFINE moved == [i \in DOMAIN files |-> FolderPath(files[i])]
  <2>1. files \in Seq(Paths) /\ edited \in Seq(Paths)
    BY DEF TInv, ListedWell
  <2>2. \A i \in DOMAIN files : FolderPath(files[i]) \in Paths
    BY <1>2, <2>1, FolderPaths
  <2>3. moved \in Seq(Paths) /\ Len(moved) = Len(files)
    BY <2>1, <2>2
  <2>4. files' = Append(moved, path)
    BY <1>1
  <2> HIDE DEF moved
  <2> QED
    BY <1>1, <1>3, <2>1, <2>3, <2>4 DEF ListedWell
<1>7. Scalars'
  <2>1. Len(label.files) \in Nat
    BY ListingsAreTyped DEF TInv, Scalars
  <2>2. 0 \in 0..MaxRetry + Len(label.files) + 1
    BY <2>1, RetryAssumption
  <2> QED
    BY <1>1, <2>2 DEF TInv, Scalars, Steps, task, clock
<1>8. Lengths'
  BY <1>1, <1>6 DEF TInv, Lengths, task, CreateInfraContainer
<1> QED
  BY <1>4, <1>5, <1>6, <1>7, <1>8 DEF TInv

(* The bound of at: the files of the label and the infra container's.      *)
LEMMA EditKeepsTypes == TInv /\ EditFile => TInv'
<1> SUFFICES ASSUME TInv, EditFile PROVE TInv'
  OBVIOUS
<1> DEFINE file == files[at + 1]
<1>1. files \in Seq(Paths) /\ edited \in Seq(Paths) /\ at \in Nat /\ at < Len(files)
      /\ Len(files) = Len(label.files) + 1 /\ Len(label.files) \in Nat
  BY ListingsAreTyped DEF TInv, ListedWell, Scalars, Lengths, EditFile
<1>2. file \in Paths
  BY <1>1
<1>3. Generated(file) \in Paths /\ (Settled(file) => Settled(Generated(file)))
  BY <1>2, GeneratedIsSettled
<1>4. /\ at' = at + 1 /\ UNCHANGED <<task, config, dirs, disk, files, clock, faults, pc>>
      /\ IF HasServices(file)
         THEN /\ detail' = [k \in (DOMAIN detail \ {file}) \cup {Generated(file)} |->
                              detail[IF k = Generated(file) THEN file ELSE k]]
              /\ edited' = Append(edited, Generated(file))
         ELSE UNCHANGED <<detail, edited>>
  BY DEF EditFile
<1> HIDE DEF file
<1>5. EnteredWell'
  <2>1. \A p : Settled(p)' <=> Settled(p)
    BY <1>4 DEF Settled, InFolder
  <2>2. CASE HasServices(file)
    BY <1>3, <1>4, <2>1, <2>2 DEF TInv, EnteredWell, HasServices
  <2>3. CASE ~HasServices(file)
    BY <1>4, <2>1, <2>3 DEF TInv, EnteredWell
  <2> QED
    BY <2>2, <2>3
<1>6. StoredWell' /\ ListedWell'
  <2>1. edited' \in Seq(Paths)
    <3>1. CASE HasServices(file)
      <4>1. edited' = Append(edited, Generated(file))
        BY <1>4, <3>1
      <4>2. edited \in Seq(Paths) /\ Generated(file) \in Paths
        BY <1>1, <1>3
      <4> QED
        BY <4>1, <4>2
    <3>2. CASE ~HasServices(file)
      BY <1>1, <1>4, <3>2
    <3> QED
      BY <3>1, <3>2
  <2> QED
    BY <1>1, <1>4, <2>1 DEF TInv, StoredWell, ListedWell
<1>7. Scalars'
  <2>1. at + 1 \in 0..MaxRetry + Len(label.files) + 1
    BY <1>1, RetryAssumption
  <2> QED
    BY <1>4, <2>1 DEF TInv, Scalars, task, clock
<1>8. Lengths'
  BY <1>1, <1>4 DEF TInv, Lengths, task, EditFile
<1> QED
  BY <1>5, <1>6, <1>7, <1>8 DEF TInv

LEMMA EditDoneKeepsTypes == TInv /\ EditDone => TInv'
<1> SUFFICES ASSUME TInv, EditDone PROVE TInv'
  OBVIOUS
<1>1. StoredWell' /\ EnteredWell' /\ ListedWell'
  BY DEF EditDone, TInv, StoredWell, EnteredWell, ListedWell, Settled, InFolder
<1>2. Scalars' /\ Lengths'
  BY DEF TInv, Scalars, Lengths, Steps, task, clock, EditDone
<1> QED
  BY <1>1, <1>2 DEF TInv

(* What the keys of the entries are written to.                            *)
LEMMA KeysAreWritePaths ==
  ASSUME TInv, NEW k \in DOMAIN detail
  PROVE  WritePath(k) = k
  BY SettledStays DEF TInv, EnteredWell

(* A key is written under itself: WriteToFile changes no settled path.     *)
LEMMA WrittenFiles ==
  ASSUME TInv, NEW keys \in SUBSET DOMAIN detail
  PROVE  /\ DOMAIN Written(keys) = DOMAIN disk \cup keys
         /\ \A p \in DOMAIN Written(keys) : Written(keys)[p] = IF p \in keys THEN detail[p] ELSE disk[p]
<1>1. \A k \in keys : WritePath(k) = k
  BY KeysAreWritePaths
<1>2. {WritePath(k) : k \in keys} = keys
  BY <1>1
<1>3. ASSUME NEW p \in keys
      PROVE  p = CHOOSE k \in keys : WritePath(k) = p
  BY <1>1
<1> QED
  BY <1>1, <1>2, <1>3 DEF Written

LEMMA WriteKeepsTypes == TInv /\ WriteChangeToFiles => TInv'
<1> SUFFICES ASSUME TInv, WriteChangeToFiles PROVE TInv'
  OBVIOUS
<1>1. PICK keys \in SUBSET DOMAIN detail :
         /\ \A k \in keys : WritePath(k).dirs \in dirs
         /\ \/ /\ keys = DOMAIN detail /\ disk' = Written(keys)
               /\ UNCHANGED <<faults, deadline, told>>
            \/ /\ keys # DOMAIN detail /\ ReportFailure
               /\ disk' = Written(keys)
               /\ faults' = faults \cup {"create"}
            \/ \E k \in keys : /\ disk' = [Written(keys) EXCEPT ![WritePath(k)] = Empty]
                               /\ faults' = faults \cup {"partial"} /\ ReportFailure
  BY DEF WriteChangeToFiles
<1>2. \A k \in keys : k.dirs \in dirs /\ k \in Paths /\ detail[k] \in Contents
  BY <1>1, KeysAreWritePaths DEF TInv, EnteredWell
<1>3. \A p \in DOMAIN Written(keys) : p \in Paths /\ Written(keys)[p] \in Contents /\ p.dirs \in dirs
  BY <1>2, WrittenFiles DEF TInv, StoredWell
<1>4. dirs' = dirs
  BY DEF WriteChangeToFiles
<1>5. StoredWell'
  <2>1. CASE disk' = Written(keys)
    BY <1>3, <1>4, <2>1 DEF StoredWell
  <2>2. ASSUME NEW k \in keys, disk' = [Written(keys) EXCEPT ![WritePath(k)] = Empty]
        PROVE  StoredWell'
    BY <1>3, <1>4, <2>2, EmptyIsTyped DEF StoredWell
  <2> QED
    BY <1>1, <2>1, <2>2
<1>6. EnteredWell' /\ ListedWell'
  BY DEF WriteChangeToFiles, TInv, EnteredWell, ListedWell, Settled, InFolder
<1>7. Scalars'
  <2>1. faults' \in {faults, faults \cup {"create"}, faults \cup {"partial"}}
    BY <1>1
  <2>2. deadline' \in {deadline, "canceled"}
    BY <1>1 DEF ReportFailure
  <2>3. told' \in BOOLEAN
    BY <1>1 DEF ReportFailure, TInv, Scalars
  <2>4. /\ UNCHANGED <<label, given, config, at, timer, stray>>
        /\ pc' \in {"validate", "up"}
    BY DEF WriteChangeToFiles, task
  <2>5. Scalars
    BY DEF TInv
  <2> QED
    BY <2>1, <2>2, <2>3, <2>4, <2>5 DEF Scalars, Steps
<1>8. Lengths'
  BY DEF WriteChangeToFiles, TInv, Lengths, task
<1> QED
  BY <1>5, <1>6, <1>7, <1>8 DEF TInv

Commands == \/ ValidateCompose \/ SkipPull \/ PullImage \/ PullFails
            \/ FireDeadline \/ WaitOnPod \/ FireTimer

(* docker-compose and its timers touch neither files nor entries.          *)
LEMMA CommandsKeepFiles ==
  ASSUME Commands
  PROVE  UNCHANGED <<task, config, store, faults>>
  BY DEF Commands, ValidateCompose, SkipPull, PullImage, PullFails, FireDeadline, WaitOnPod,
     FireTimer, clock

LEMMA CommandsKeepTypes == TInv /\ Commands => TInv'
<1> SUFFICES ASSUME TInv, Commands PROVE TInv'
  OBVIOUS
<1>0. Scalars /\ Lengths
  BY DEF TInv
<1>1. StoredWell' /\ EnteredWell' /\ ListedWell'
  BY CommandsKeepFiles, PathsStay
<1> USE DEF Scalars, Lengths, Steps, task, clock, store
<1>2. /\ config.pullRetry \in 0..MaxRetry /\ at \in 0..MaxRetry + Len(label.files) + 1
      /\ Len(label.files) \in Nat /\ MaxRetry \in Nat
  BY <1>0, RetryAssumption, ListingsAreTyped
<1>3. Scalars' /\ Lengths'
  <2>1. CASE ValidateCompose
    <3>1. at' = 0 /\ 0 \in 0..MaxRetry + Len(label.files) + 1 /\ 0 <= config.pullRetry
      BY <1>2, <2>1 DEF ValidateCompose
    <3>2. CASE pc = "validate" /\ Start("validating", "failed") /\ UNCHANGED stray
      BY <1>0, <2>1, <3>1, <3>2 DEF ValidateCompose, Start, ReportFailure
    <3>3. CASE WaitCmd("validating", "pull", "failed")
      BY <1>0, <2>1, <3>1, <3>3 DEF ValidateCompose, WaitCmd, ReportFailure
    <3> QED
      BY <2>1, <3>2, <3>3 DEF ValidateCompose
  <2>2. CASE SkipPull
    BY <1>0, <2>2 DEF SkipPull
  <2>3. CASE PullImage
    <3>1. CASE /\ pc = "pull" /\ ~config.skipPull /\ MayPull
               /\ Start("pulling", "pull") /\ at' = at + 1 /\ UNCHANGED stray
      <4>1. /\ at + 1 \in 0..MaxRetry + Len(label.files) + 1 /\ at + 1 <= config.pullRetry
        BY <1>2, <3>1 DEF MayPull
      <4> QED
        BY <1>0, <2>3, <3>1, <4>1 DEF PullImage, Start
    <3>2. CASE WaitCmd("pulling", "rewrite", "pull") /\ UNCHANGED at
      <4>1. /\ UNCHANGED <<label, given, config, at, deadline, told, faults>>
            /\ pc' \in {"rewrite", "pull"} /\ timer' = "off"
            /\ stray' \in {stray, stray \cup {"pulling"}} /\ pc = "pulling"
        BY <2>3, <3>2 DEF PullImage, WaitCmd
      <4>2. Scalars'
        BY <1>0, <4>1
      <4>3. Lengths'
        BY <1>0, <2>3, <4>1 DEF PullImage
      <4> QED
        BY <4>2, <4>3
    <3> QED
      BY <2>3, <3>1, <3>2 DEF PullImage
  <2>4. CASE PullFails
    BY <1>0, <2>4 DEF PullFails, ReportFailure
  <2>5. CASE FireDeadline
    BY <1>0, <2>5 DEF FireDeadline
  <2>6. CASE FireTimer
    BY <1>0, <2>6 DEF FireTimer
  <2>7. CASE WaitOnPod
    BY <1>0, <2>7 DEF WaitOnPod
  <2> QED
    BY <2>1, <2>2, <2>3, <2>4, <2>5, <2>6, <2>7 DEF Commands
<1> QED
  BY <1>1, <1>3 DEF TInv

-----------------------------------------------------------------------------
(* EntryInv: names and entries                                             *)

LEMMA EntriesInit == Init => EntryInv
<1> SUFFICES ASSUME Init PROVE EntryInv
  OBVIOUS
<1>1. \A p \in DOMAIN disk : ~p.generated
  BY GivenIsTyped, TaskPathsElsewhere DEF Init
<1> QED
  BY <1>1 DEF Init, EntryInv, PlainNames, OneName, HaveEntries, WrittenAsHeld, Checked,
              Plain, Prepared, Validated

(* The entries and their names are kept by what leaves them alone before   *)
(* the editing.                                                            *)
LEMMA PlainStays ==
  ASSUME EntryInv, pc \in Plain, pc' \in Plain, UNCHANGED <<edited, detail>>,
         \A i \in DOMAIN files' : ~files'[i].generated,
         \A p \in DOMAIN disk' : ~p.generated
  PROVE  EntryInv'
<1>1. OneName' /\ PlainNames'
  BY DEF EntryInv, OneName, PlainNames, Generated
<1>2. HaveEntries' /\ WrittenAsHeld' /\ Checked'
  BY DEF Plain, Prepared, Validated, HaveEntries, WrittenAsHeld, Checked
<1> QED
  BY <1>1, <1>2 DEF EntryInv

LEMMA GetFilesKeepsEntries == TInv /\ EntryInv /\ GetFiles => EntryInv'
<1> SUFFICES ASSUME TInv, EntryInv, GetFiles PROVE EntryInv'
  OBVIOUS
<1>1. \A i \in DOMAIN files' : ~files'[i].generated
  BY ListingsAreTyped, TaskPathsElsewhere DEF TInv, Scalars, GetFiles
<1>2. pc \in Plain /\ pc' \in Plain /\ UNCHANGED <<edited, detail, disk>>
  BY DEF GetFiles, Plain
<1> QED
  BY <1>1, <1>2, PlainStays DEF EntryInv, PlainNames

LEMMA FolderKeepsEntries == EntryInv /\ GenerateAppFolder => EntryInv'
<1> SUFFICES ASSUME EntryInv, GenerateAppFolder PROVE EntryInv'
  OBVIOUS
<1>1. pc \in Plain /\ pc' \in Plain /\ UNCHANGED <<edited, detail, disk, files>>
  BY DEF GenerateAppFolder, Plain
<1> QED
  BY <1>1, PlainStays DEF EntryInv, PlainNames

LEMMA StoringPlain ==
  ASSUME NEW p, ~p.generated, NEW c, disk' = Stored(p, c), \A q \in DOMAIN disk : ~q.generated
  PROVE  \A q \in DOMAIN disk' : ~q.generated
  BY DEF Stored

LEMMA CopyNextKeepsEntries == TInv /\ EntryInv /\ CopyNext => EntryInv'
<1> SUFFICES ASSUME TInv, EntryInv, CopyNext PROVE EntryInv'
  OBVIOUS
<1> DEFINE source == files[at + 1]
           dest == FolderPath(FirstField(source))
<1>1. files \in Seq(Paths) /\ at \in Nat /\ at < Len(files) /\ pc = "copy"
  BY DEF TInv, ListedWell, Scalars, Lengths, CopyNext
<1>2. source \in Paths /\ at + 1 \in DOMAIN files
  BY <1>1
<1>3. config.folder \in Folders
  BY DEF TInv, Scalars
<1>4. CASE source.words = <<>>
  <2>1. pc' = "crashed" /\ UNCHANGED detail
    BY <1>4 DEF CopyNext
  <2> QED
    BY <2>1 DEF EntryInv, OneName, PlainNames, HaveEntries, WrittenAsHeld, Checked,
                Plain, Prepared, Validated, Generated
<1>5. CASE source.words # <<>>
  <2>1. ~source.generated
    BY <1>1, <1>2 DEF EntryInv, PlainNames, Plain
  <2>2. FirstField(source) \in Paths /\ FirstField(source).generated = source.generated
    BY <1>2, <1>5, FirstFields
  <2>3. ~dest.generated
    BY <1>3, <2>1, <2>2, FolderPaths
  <2>4. /\ files' = [files EXCEPT ![at + 1] = dest]
        /\ disk' = disk \/ (\E c : disk' = Stored(dest, c))
        /\ UNCHANGED <<pc, detail, edited>>
    BY <1>5 DEF CopyNext, Copied
  <2> HIDE DEF dest
  <2>5. /\ \A i \in DOMAIN files : ~files[i].generated
        /\ \A p \in DOMAIN disk : ~p.generated
    BY <1>1 DEF EntryInv, PlainNames, Plain
  <2>6. \A i \in DOMAIN files' : ~files'[i].generated
    BY <1>1, <2>3, <2>4, <2>5
  <2>7. \A p \in DOMAIN disk' : ~p.generated
    BY <2>3, <2>4, <2>5, StoringPlain
  <2>8. pc \in Plain /\ pc' \in Plain
    BY <1>1, <2>4 DEF Plain
  <2> QED
    BY <2>4, <2>6, <2>7, <2>8, PlainStays
<1> QED
  BY <1>4, <1>5

LEMMA ConfiguringKeepsEntries == EntryInv /\ (CopyDone \/ OverrideConfig) => EntryInv'
<1> SUFFICES ASSUME EntryInv, CopyDone \/ OverrideConfig PROVE EntryInv'
  OBVIOUS
<1>1. pc \in Plain /\ pc' \in Plain /\ UNCHANGED <<edited, detail, disk, files>>
  BY DEF CopyDone, OverrideConfig, Plain, store
<1> QED
  BY <1>1, PlainStays DEF EntryInv, PlainNames

LEMMA ParseKeepsEntries == TInv /\ EntryInv /\ ParseYamls => EntryInv'
<1> SUFFICES ASSUME TInv, EntryInv, ParseYamls PROVE EntryInv'
  OBVIOUS
<1>1. pc = "parse" /\ pc' = "infra" /\ UNCHANGED <<edited, disk, files>>
      /\ DOMAIN detail' = {KeyOf(f) : f \in Range(files)}
      /\ \A i \in DOMAIN files : files[i].words # <<>>
  BY DEF ParseYamls
<1>2. \A k \in DOMAIN detail' : ~k.generated
  <2> SUFFICES ASSUME NEW k \in DOMAIN detail' PROVE ~k.generated
    OBVIOUS
  <2>1. PICK j \in DOMAIN files : k = KeyOf(files[j])
    BY <1>1 DEF Range
  <2>2. files[j] \in Paths /\ config.folder \in Folders /\ files[j].words # <<>>
    BY <1>1 DEF TInv, ListedWell, Scalars
  <2>3. ~files[j].generated
    BY <1>1 DEF EntryInv, PlainNames, Plain
  <2> QED
    BY <2>1, <2>2, <2>3, KeysAreSettled
<1>3. PlainNames'
  BY <1>1, <1>2 DEF EntryInv, PlainNames, Plain
<1>4. OneName'
  <2>1. ASSUME NEW k PROVE Generated(k).generated = TRUE \/ Generated(k) \notin DOMAIN detail'
    <3>1. \A p \in DOMAIN detail' : p \in Paths
      <4> SUFFICES ASSUME NEW p \in DOMAIN detail' PROVE p \in Paths
        OBVIOUS
      <4>1. PICK j \in DOMAIN files : p = KeyOf(files[j])
        BY <1>1 DEF Range
      <4>2. files[j] \in Paths /\ config.folder \in Folders /\ files[j].words # <<>>
        BY <1>1 DEF TInv, ListedWell, Scalars
      <4> QED
        BY <4>1, <4>2, KeysAreSettled
    <3> QED
      BY <3>1 DEF Generated, Paths
  <2> QED
    BY <1>2, <2>1 DEF OneName
<1> QED
  BY <1>1, <1>3, <1>4 DEF EntryInv, HaveEntries, WrittenAsHeld, Checked, Prepared, Validated

LEMMA FailureKeepsEntries == EntryInv /\ PluginFails => EntryInv'
<1> SUFFICES ASSUME EntryInv, PluginFails PROVE EntryInv'
  OBVIOUS
<1>1. pc' = "failed" /\ UNCHANGED detail
  BY DEF PluginFails, store
<1> QED
  BY <1>1 DEF EntryInv, OneName, PlainNames, HaveEntries, WrittenAsHeld, Checked,
              Plain, Prepared, Validated, Generated

LEMMA InfraKeepsEntries == TInv /\ EntryInv /\ CreateInfraContainer => EntryInv'
<1> SUFFICES ASSUME TInv, EntryInv, CreateInfraContainer PROVE EntryInv'
  OBVIOUS
<1> DEFINE path == WritePath(InfraPath)
           moved == [i \in DOMAIN files |-> FolderPath(files[i])]
<1>1. /\ disk' = Stored(path, InfraContent)
      /\ DOMAIN detail' = DOMAIN detail \cup {path}
      /\ files' = Append(moved, path)
      /\ pc = "infra" /\ pc' = "edit" /\ edited' = edited
  BY DEF CreateInfraContainer
<1>2. config.folder \in Folders /\ files \in Seq(Paths)
  BY DEF TInv, Scalars, ListedWell
<1>3. path \in Paths /\ ~path.generated
  BY <1>2, InfraIsSettled
<1>4. \A i \in DOMAIN moved : ~moved[i].generated
  <2>1. \A i \in DOMAIN files : ~files[i].generated /\ files[i] \in Paths
    BY <1>1, <1>2 DEF EntryInv, PlainNames, Plain
  <2> QED
    BY <1>2, <2>1, FolderPaths
<1>5. moved \in Seq(Paths)
  BY <1>2, FolderPaths
<1> HIDE DEF moved, path
<1>6. \A i \in DOMAIN files' : ~files'[i].generated
  BY <1>1, <1>3, <1>4, <1>5
<1>7. \A p \in DOMAIN disk' : ~p.generated
  BY <1>1, <1>3, StoringPlain DEF EntryInv, PlainNames, Plain
<1>8. OneName'
  <2>1. \A k \in DOMAIN detail' : ~k.generated /\ k \in Paths
    BY <1>1, <1>3 DEF EntryInv, PlainNames, Plain, TInv, EnteredWell
  <2> QED
    BY <2>1, GeneratedIsSettled DEF OneName
<1>9. edited = <<>>
  BY <1>1 DEF EntryInv, PlainNames, Plain
<1> QED
  BY <1>1, <1>6, <1>7, <1>8, <1>9 DEF EntryInv, PlainNames, HaveEntries, WrittenAsHeld, Checked,
                                      Plain, Prepared, Validated

(* Editing a file moves its entry to the generated name.                   *)
LEMMA EditMovesEntry ==
  ASSUME TInv, EntryInv, EditFile, HasServices(files[at + 1])
  PROVE  /\ files[at + 1] \in Paths /\ ~files[at + 1].generated
         /\ detail'[Generated(files[at + 1])] = detail[files[at + 1]]
         /\ Generated(files[at + 1]) \notin DOMAIN detail
         /\ DOMAIN detail' = (DOMAIN detail \ {files[at + 1]}) \cup {Generated(files[at + 1])}
         /\ \A k \in DOMAIN detail : k # files[at + 1] => detail'[k] = detail[k]
         /\ edited \in Seq(Paths) /\ edited' = Append(edited, Generated(files[at + 1]))
<1> DEFINE file == files[at + 1]
<1>1. files \in Seq(Paths) /\ edited \in Seq(Paths) /\ at \in Nat /\ at < Len(files) /\ pc = "edit"
  BY DEF TInv, ListedWell, Scalars, Lengths, EditFile
<1>2. file \in Paths /\ at + 1 \in DOMAIN files
  BY <1>1
<1>3. ~file.generated
  BY <1>1, <1>2 DEF EntryInv, PlainNames
<1>4. /\ detail' = [k \in (DOMAIN detail \ {file}) \cup {Generated(file)} |->
                      detail[IF k = Generated(file) THEN file ELSE k]]
      /\ edited' = Append(edited, Generated(file))
  BY DEF EditFile
<1>5. file \in DOMAIN detail
  BY DEF HasServices
<1> HIDE DEF file
<1>6. Generated(file) \notin DOMAIN detail
  BY <1>3, <1>5 DEF EntryInv, OneName
<1> QED
  BY <1>1, <1>2, <1>3, <1>4, <1>6 DEF file

(* An edited file has an entry, which no later file takes away: it goes by *)
(* a generated name, and the files still to be edited by plain ones.       *)
LEMMA EditKeepsEntries == TInv /\ EntryInv /\ EditFile => EntryInv'
<1> SUFFICES ASSUME TInv, EntryInv, EditFile PROVE EntryInv'
  OBVIOUS
<1> DEFINE file == files[at + 1]
<1>1. pc = "edit" /\ UNCHANGED <<disk, files, pc>>
  BY DEF EditFile
<1>2. PlainNames' /\ WrittenAsHeld' /\ Checked'
  BY <1>1 DEF EntryInv, PlainNames, WrittenAsHeld, Checked, Plain, Prepared, Validated
<1>3. CASE HasServices(files[at + 1])
  <2>1. /\ file \in Paths /\ ~file.generated
        /\ detail'[Generated(file)] = detail[file] /\ Generated(file) \notin DOMAIN detail
        /\ DOMAIN detail' = (DOMAIN detail \ {file}) \cup {Generated(file)}
        /\ \A k \in DOMAIN detail : k # file => detail'[k] = detail[k]
        /\ edited \in Seq(Paths) /\ edited' = Append(edited, Generated(file))
    BY <1>3, EditMovesEntry
  <2>2. file \in DOMAIN detail /\ detail[file].services
    BY <1>3 DEF HasServices
  <2> HIDE DEF file
  <2>3. Generated(file) \in Paths /\ Generated(file).generated = TRUE
    BY <2>1, GeneratedIsSettled
  <2>4. OneName'
    <3> SUFFICES ASSUME NEW k \in DOMAIN detail', ~k.generated
                 PROVE  Generated(k) \notin DOMAIN detail'
      BY DEF OneName
    <3>1. k # Generated(file)
      BY <2>3
    <3>2. k \in DOMAIN detail /\ k # file /\ k \in Paths
      BY <2>1, <3>1 DEF TInv, EnteredWell
    <3>3. Generated(k) \notin DOMAIN detail
      BY <3>2 DEF EntryInv, OneName
    <3>4. Generated(k) # Generated(file)
      <4>1. k.generated = file.generated
        BY <2>1, <3>2 DEF Paths
      <4> QED
        BY <2>1, <3>2, <4>1, GeneratedOnce
    <3> QED
      BY <2>1, <3>3, <3>4
  <2>5. HaveEntries'
    <3>1. \A i \in DOMAIN edited : edited[i].generated /\ edited[i] \in DOMAIN detail /\ detail[edited[i]].services
      BY <1>1 DEF EntryInv, HaveEntries, HasServices
    <3>2. \A i \in DOMAIN edited : edited[i] \in DOMAIN detail' /\ detail'[edited[i]].services
      BY <2>1, <3>1
    <3>3. \A i \in DOMAIN edited' : (i \in DOMAIN edited /\ edited'[i] = edited[i]) \/ edited'[i] = Generated(file)
      BY <2>1, <2>3
    <3>4. Generated(file) \in DOMAIN detail' /\ detail'[Generated(file)].services
      BY <2>1, <2>2
    <3>5. \A i \in DOMAIN edited' : edited'[i].generated /\ edited'[i] \in DOMAIN detail' /\ detail'[edited'[i]].services
      BY <2>3, <3>1, <3>2, <3>3, <3>4
    <3> QED
      BY <1>1, <3>5 DEF HaveEntries, HasServices, Prepared
  <2> QED
    BY <1>2, <2>4, <2>5 DEF EntryInv
<1>4. CASE ~HasServices(files[at + 1])
  <2>1. UNCHANGED <<detail, edited>>
    BY <1>4 DEF EditFile
  <2>2. OneName' /\ HaveEntries'
    BY <1>1, <2>1 DEF EntryInv, OneName, HaveEntries, HasServices, Prepared, Generated
  <2> QED
    BY <1>2, <2>2 DEF EntryInv
<1> QED
  BY <1>3, <1>4

(* From here on the listed files are the edited ones.                      *)
LEMMA EditDoneKeepsEntries == EntryInv /\ EditDone => EntryInv'
<1> SUFFICES ASSUME EntryInv, EditDone PROVE EntryInv'
  OBVIOUS
<1>1. pc = "edit" /\ pc' = "write" /\ files' = edited /\ UNCHANGED <<disk, detail, edited>>
  BY DEF EditDone
<1>2. PlainNames' /\ Checked' /\ OneName'
  BY <1>1 DEF EntryInv, PlainNames, Checked, OneName, Plain, Validated, Generated
<1>3. HaveEntries' /\ WrittenAsHeld'
  BY <1>1 DEF EntryInv, PlainNames, HaveEntries, HasServices, WrittenAsHeld, Prepared
<1> QED
  BY <1>2, <1>3 DEF EntryInv

(* What a write, complete or not, does to the disk.                        *)
LEMMA WriteOutcome ==
  ASSUME TInv, WriteChangeToFiles
  PROVE  \E keys \in SUBSET DOMAIN detail :
           /\ DOMAIN disk' = DOMAIN disk \cup keys
           /\ \A p \in DOMAIN disk \ keys : disk'[p] = disk[p]
           /\ \A p \in keys : disk'[p] = detail[p] \/ ("partial" \in faults' /\ disk'[p] = Empty)
           /\ faults \subseteq faults' /\ ("partial" \in faults => "partial" \in faults')
<1>1. PICK keys \in SUBSET DOMAIN detail :
         \/ keys = DOMAIN detail /\ disk' = Written(keys) /\ UNCHANGED faults
         \/ /\ keys # DOMAIN detail
            /\ disk' = Written(keys)
            /\ faults' = faults \cup {"create"}
         \/ \E k \in keys : /\ disk' = [Written(keys) EXCEPT ![WritePath(k)] = Empty]
                            /\ faults' = faults \cup {"partial"}
  BY DEF WriteChangeToFiles
<1>2. /\ DOMAIN Written(keys) = DOMAIN disk \cup keys
      /\ \A p \in DOMAIN Written(keys) : Written(keys)[p] = IF p \in keys THEN detail[p] ELSE disk[p]
  BY WrittenFiles
<1>3. faults \subseteq faults'
  BY <1>1
<1>4. CASE disk' = Written(keys)
  BY <1>2, <1>3, <1>4
<1>5. ASSUME NEW k \in keys, disk' = [Written(keys) EXCEPT ![WritePath(k)] = Empty],
             faults' = faults \cup {"partial"}
      PROVE  /\ DOMAIN disk' = DOMAIN disk \cup keys
             /\ \A p \in DOMAIN disk \ keys : disk'[p] = disk[p]
             /\ \A p \in keys : disk'[p] = detail[p] \/ ("partial" \in faults' /\ disk'[p] = Empty)
  <2>1. WritePath(k) = k
    BY KeysAreWritePaths
  <2> QED
    BY <1>2, <1>5, <2>1
<1> QED
  BY <1>1, <1>3, <1>4, <1>5

(* A write that stops early leaves the generated files it did write.       *)
LEMMA WriteKeepsEntries == TInv /\ EntryInv /\ WriteChangeToFiles => EntryInv'
<1> SUFFICES ASSUME TInv, EntryInv, WriteChangeToFiles PROVE EntryInv'
  OBVIOUS
<1>1. /\ pc \in {"write", "rewrite"} /\ pc' \in {"validate", "up"} /\ (pc' = "up" => pc = "rewrite")
      /\ UNCHANGED <<files, detail, edited>>
  BY DEF WriteChangeToFiles
<1>2. PICK keys \in SUBSET DOMAIN detail :
        /\ DOMAIN disk' = DOMAIN disk \cup keys
        /\ \A p \in DOMAIN disk \ keys : disk'[p] = disk[p]
        /\ \A p \in keys : disk'[p] = detail[p] \/ ("partial" \in faults' /\ disk'[p] = Empty)
        /\ "partial" \in faults => "partial" \in faults'
  BY WriteOutcome
<1>3. PlainNames' /\ OneName' /\ HaveEntries'
  BY <1>1 DEF EntryInv, PlainNames, OneName, HaveEntries, HasServices, Plain, Prepared, Generated
<1>4. WrittenAsHeld'
  BY <1>1, <1>2 DEF EntryInv, WrittenAsHeld, Prepared
<1>5. Checked'
  BY <1>1, <1>2 DEF EntryInv, Checked, FilesExist, Validated
<1> QED
  BY <1>3, <1>4, <1>5 DEF EntryInv

LEMMA CommandsKeepEntries == EntryInv /\ Commands => EntryInv'
<1> SUFFICES ASSUME EntryInv, Commands PROVE EntryInv'
  OBVIOUS
<1>1. UNCHANGED <<files, disk, detail, edited, faults>>
  BY CommandsKeepFiles DEF store
<1>2. /\ pc' = pc \/ (pc \in Prepared /\ pc' \in Prepared \cup {"failed"})
      /\ pc' \in Validated => pc \in Validated \/ FilesExist
  <2> USE DEF clock, Prepared, Validated
  <2>1. CASE ValidateCompose
    BY <2>1 DEF ValidateCompose, Start, WaitCmd
  <2>2. CASE SkipPull
    BY <2>2 DEF SkipPull
  <2>3. CASE PullImage
    BY <2>3 DEF PullImage, Start, WaitCmd
  <2>4. CASE PullFails
    BY <2>4 DEF PullFails
  <2>5. CASE FireDeadline
    BY <2>5 DEF FireDeadline
  <2>6. CASE FireTimer
    BY <2>6 DEF FireTimer
  <2>7. CASE WaitOnPod
    BY <2>7 DEF WaitOnPod
  <2> QED
    BY <2>1, <2>2, <2>3, <2>4, <2>5, <2>6, <2>7 DEF Commands
<1>3. PlainNames' /\ OneName' /\ HaveEntries' /\ WrittenAsHeld'
  BY <1>1, <1>2 DEF EntryInv, PlainNames, OneName, HaveEntries, HasServices, WrittenAsHeld,
                    Plain, Prepared, Generated
<1>4. Checked'
  BY <1>1, <1>2 DEF EntryInv, Checked, FilesExist
<1> QED
  BY <1>3, <1>4 DEF EntryInv

-----------------------------------------------------------------------------
(* FileInv: where the files of the label are                               *)

LEMMA ListedFiles ==
  ASSUME TInv, NEW f \in Listed
  PROVE  /\ f \in TaskPaths /\ f \in Paths
         /\ \E i \in DOMAIN label.files : label.files[i] = f
  BY ListingsAreTyped DEF TInv, Scalars, Listed, Range

(* Until the infra container is added, files are listed where the label    *)
(* has them.                                                               *)
LEMMA SameDomain ==
  ASSUME TInv, pc \in {"folder", "copy", "override", "parse", "infra"}
  PROVE  /\ DOMAIN files = DOMAIN label.files /\ files \in Seq(Paths)
         /\ DOMAIN files = 1..Len(files) /\ Len(files) \in Nat
         /\ \A i \in DOMAIN files : label.files[i] \in Listed
<1>1. Len(files) = Len(label.files) /\ files \in Seq(Paths) /\ label.files \in Seq(TaskPaths)
  BY ListingsAreTyped DEF TInv, Scalars, Lengths, ListedWell
<1> QED
  BY <1>1 DEF Listed, Range

LEMMA UnfitStays ==
  ASSUME UNCHANGED task, faults \subseteq faults', NEW f, Unfit(f)
  PROVE  Unfit(f)'
  BY DEF Unfit, Listed, Range, task

LEMMA ExcuseStays ==
  ASSUME UNCHANGED <<task, config>>, faults \subseteq faults', NEW f, Excused(f)
  PROVE  Excused(f)'
<1>1. \A p : KeyOf(p)' = KeyOf(p)
  BY DEF KeyOf, FolderPath, InFolder
<1>2. \A g : SamePath(f, g) => SamePath(f, g)'
  BY <1>1 DEF SamePath, task
<1>3. Listed' = Listed
  BY DEF Listed, task
<1> QED
  BY <1>2, <1>3, UnfitStays DEF Excused

LEMMA PlacesInit == Init => FileInv
  BY DEF Init, FileInv, Shape, Copies, Entries, Prepared

LEMMA GetFilesKeepsPlaces == FileInv /\ GetFiles => FileInv'
  BY DEF GetFiles, FileInv, Shape, Copies, Entries, Prepared, task

LEMMA FolderKeepsPlaces == TInv /\ FileInv /\ GenerateAppFolder => FileInv'
<1> SUFFICES ASSUME TInv, FileInv, GenerateAppFolder PROVE FileInv'
  OBVIOUS
<1>1. pc = "folder" /\ files = label.files /\ disk = given /\ faults = {} /\ at = 0
  BY DEF FileInv, Shape, TInv, Lengths, GenerateAppFolder
<1>2. UNCHANGED <<task, disk, files, detail, at>> /\ Listed' = Listed
  BY DEF GenerateAppFolder, task, Listed
<1>3. /\ pc' \in {"copy", "override"}
      /\ pc' = "copy" => faults' = faults
      /\ pc' = "override" => "mkdir" \in faults'
  BY DEF GenerateAppFolder
<1>4. Shape'
  <2>1. DOMAIN files = 1..Len(files)
    BY SameDomain, <1>1
  <2> QED
    BY <1>1, <1>2, <1>3, <2>1 DEF Shape, task
<1>5. Copies'
  <2> SUFFICES ASSUME NEW f \in Listed
               PROVE  Unfit(f)' \/ (/\ OnDisk(f, f)'
                                    /\ \A i \in DOMAIN files : label.files[i] = f => OnDisk(files[i], f)')
    BY <1>2, <1>3 DEF Copies, task
  <2>1. CASE f \in DOMAIN given
    BY <1>1, <1>2, <2>1 DEF OnDisk, task
  <2>2. CASE f \notin DOMAIN given
    BY <1>2, <2>2 DEF Unfit, task
  <2> QED
    BY <2>1, <2>2
<1>6. Entries'
  BY <1>3 DEF Entries, Prepared
<1> QED
  BY <1>4, <1>5, <1>6 DEF FileInv

(* The path that a file of the label is copied to.                         *)
CopyPath(f) == IF config.noFolder = "true" THEN FirstField(f) ELSE InRunFolder(f)

(* No path of the task leads through the run's folder, so FolderPath adds  *)
(* it to the copy's, or nothing with dontcreatefolder.                     *)
LEMMA CopyPaths ==
  ASSUME config.folder = RunFolder, NEW f \in TaskPaths, f.words # <<>>
  PROVE  FolderPath(FirstField(f)) = CopyPath(f)
<1>1. f \in Paths /\ RunFolder # BaseFolder
  BY TaskPathsAreHere DEF RunFolder, BaseFolder
<1>2. FirstField(f).dirs = f.dirs
  BY <1>1, FirstFields
<1>3. ~InFolder(FirstField(f))
  BY <1>1, <1>2, TaskPathsElsewhere DEF InFolder
<1> QED
  BY <1>3 DEF FolderPath, CopyPath, InRunFolder

(* A copy lands on a file of the label, or on another copy, only if their  *)
(* names begin with the same word.                                         *)
LEMMA CopiesApart ==
  ASSUME NEW f \in TaskPaths, NEW g \in TaskPaths, f.words # <<>>, g.words # <<>>
  PROVE  /\ CopyPath(g) = f => f = FirstField(f) /\ FirstField(g) = FirstField(f)
         /\ CopyPath(g) = CopyPath(f) => FirstField(g) = FirstField(f)
<1>1. f \in Paths /\ g \in Paths /\ RunFolder \in Folders
  BY TaskPathsAreHere DEF Folders
<1>2. CopyPath(g) = f => config.noFolder = "true"
  BY <1>1, RunPaths, TaskPathsElsewhere DEF CopyPath
<1>3. FirstField(g) = f => f = FirstField(f)
  <2>1. FirstField(g).words = <<g.words[1]>> /\ Len(<<g.words[1]>>) = 1
    BY <1>1, FirstFields
  <2> QED
    BY <1>1, <2>1, OneWord
<1>4. InRunFolder(g) = InRunFolder(f) => FirstField(g) = FirstField(f)
  BY <1>1, FirstFields, PrefixedOnce DEF InRunFolder
<1> QED
  BY <1>2, <1>3, <1>4 DEF CopyPath

(* A file is copied whole from where the label has it, and neither the     *)
(* copy nor that file is overwritten by the copy of another, unless        *)
(* excused.                                                                *)
LEMMA CopyNextKeepsPlaces == TInv /\ FileInv /\ CopyNext => FileInv'
<1> SUFFICES ASSUME TInv, FileInv, CopyNext PROVE FileInv'
  OBVIOUS
<1> DEFINE source == files[at + 1]
           dest == FolderPath(FirstField(source))
           Arrived(p, f) == p \in DOMAIN disk' /\ disk'[p] = given[f]
<1>1. /\ pc = "copy" /\ at \in Nat /\ at < Len(files) /\ files \in Seq(Paths)
      /\ config.folder = RunFolder /\ detail = <<>>
  BY DEF TInv, ListedWell, Scalars, Lengths, CopyNext
<1>2. /\ DOMAIN files = DOMAIN label.files /\ at + 1 \in DOMAIN files /\ DOMAIN files = 1..Len(files)
      /\ \A i \in DOMAIN files : label.files[i] \in Listed
  BY <1>1, SameDomain
<1>3. source = label.files[at + 1] /\ source \in Listed
  BY <1>1, <1>2 DEF FileInv, Shape
<1>4. source \in TaskPaths
  BY <1>3, ListedFiles
<1>5. CASE source.words = <<>>
  <2>1. pc' = "crashed"
    BY <1>5 DEF CopyNext
  <2> QED
    BY <2>1 DEF FileInv, Shape, Copies, Entries, Prepared
<1>6. CASE source.words # <<>>
  <2>1. /\ files' = [files EXCEPT ![at + 1] = dest] /\ at' = at + 1
        /\ \/ disk' = Copied(source, dest) /\ UNCHANGED faults
           \/ faults' = faults \cup {"copy"}
        /\ UNCHANGED <<pc, task, config, detail, edited>>
    BY <1>6 DEF CopyNext
  <2>2. dest = CopyPath(source)
    BY <1>1, <1>4, <1>6, CopyPaths
  <2> HIDE DEF dest, source
  <2>3. Shape'
    <3>1. "mkdir" \notin faults'
      BY <1>1, <2>1 DEF FileInv, Shape
    <3>2. ASSUME NEW i \in DOMAIN files'
          PROVE  IF i > at + 1 THEN files'[i] = label.files[i]
                 ELSE /\ label.files[i].words # <<>>
                      /\ files'[i] = IF config.noFolder = "true" THEN FirstField(label.files[i])
                                     ELSE InRunFolder(label.files[i])
      <4>1. i \in DOMAIN files /\ i \in Nat
        BY <1>2, <2>1, <3>2
      <4>2. IF i > at THEN files[i] = label.files[i]
            ELSE /\ label.files[i].words # <<>>
                 /\ files[i] = IF config.noFolder = "true" THEN FirstField(label.files[i])
                               ELSE InRunFolder(label.files[i])
        BY <1>1, <4>1 DEF FileInv, Shape
      <4>3. CASE i = at + 1
        BY <1>1, <1>2, <1>3, <1>6, <2>1, <2>2, <4>3 DEF CopyPath
      <4>4. CASE i # at + 1
        <5>1. files'[i] = files[i] /\ (i > at <=> i > at + 1)
          BY <1>1, <2>1, <4>1, <4>4
        <5> QED
          BY <4>2, <5>1
      <4> QED
        BY <4>3, <4>4
    <3> QED
      BY <1>1, <2>1, <3>1, <3>2 DEF Shape, task
  <2>4. Entries'
    BY <1>1, <2>1 DEF Entries, Prepared
  <2>5. Copies'
    <3> SUFFICES ASSUME NEW f \in Listed, f.words # <<>>, ~Unfit(f)'
                 PROVE  \/ Emptied(f)'
                        \/ /\ Arrived(f, f)
                           /\ \A i \in DOMAIN files : i <= at + 1 /\ label.files[i] = f => Arrived(files'[i], f)
      <4>1. Listed' = Listed /\ DOMAIN files' = DOMAIN files /\ label' = label
        BY <2>1 DEF Listed, task
      <4> QED
        BY <1>1, <2>1, <4>1 DEF Copies, OnDisk, task
    <3>1. UNCHANGED faults /\ disk' = Copied(source, dest) /\ ~Unfit(f)
      BY <2>1, UnfitStays DEF Unfit, task
    <3>2. f \in TaskPaths
      BY ListedFiles
    <3>3. FirstField(source) = FirstField(f) => source = f
      BY <1>3, <1>6, <3>1 DEF Unfit
    <3>4. dest = f => source = f
      BY <1>4, <1>6, <2>2, <3>2, <3>3, CopiesApart
    <3>5. dest = CopyPath(f) => source = f
      BY <1>4, <1>6, <2>2, <3>2, <3>3, CopiesApart
    <3>6. \/ Emptied(f)
          \/ /\ OnDisk(f, f)
             /\ \A i \in DOMAIN files : i <= at /\ label.files[i] = f => OnDisk(files[i], f)
      BY <1>1, <3>1 DEF FileInv, Copies
    <3>7. CASE dest = f
      <4>1. source = f /\ f \in DOMAIN disk
        BY <3>4, <3>6, <3>7 DEF Emptied, OnDisk
      <4>2. disk' = Stored(f, Empty)
        BY <3>1, <3>7, <4>1 DEF Copied
      <4> QED
        BY <1>1, <2>1, <4>2 DEF Emptied, Stored
    <3>8. CASE dest # f /\ Emptied(f)
      <4>1. f \in DOMAIN disk' /\ disk'[f] = disk[f]
        BY <3>1, <3>8 DEF Copied, Stored, Emptied
      <4> QED
        BY <2>1, <3>8, <4>1 DEF Emptied
    <3>9. CASE /\ dest # f /\ OnDisk(f, f)
               /\ \A i \in DOMAIN files : i <= at /\ label.files[i] = f => OnDisk(files[i], f)
      <4>1. Arrived(f, f)
        BY <2>1, <3>1, <3>9 DEF OnDisk, Copied, Stored, task
      <4>2. source = f => Arrived(dest, f)
        BY <2>1, <3>1, <3>9 DEF OnDisk, Copied, Stored, task
      <4>3. ASSUME NEW i \in DOMAIN files, i <= at + 1, label.files[i] = f
            PROVE  Arrived(files'[i], f)
        <5>1. CASE i = at + 1
          BY <1>2, <1>3, <2>1, <4>2, <4>3, <5>1
        <5>2. CASE i # at + 1
          <6>1. i <= at /\ i \in Nat
            BY <1>1, <1>2, <4>3, <5>2
          <6>2. files'[i] = files[i] /\ OnDisk(files[i], f)
            BY <2>1, <3>9, <4>3, <5>2, <6>1
          <6>3. CASE files[i] = dest
            <7>1. files[i] = CopyPath(f)
              BY <1>1, <4>3, <6>1 DEF FileInv, Shape, CopyPath
            <7> QED
              BY <3>5, <4>2, <6>2, <6>3, <7>1
          <6>4. CASE files[i] # dest
            BY <2>1, <3>1, <6>2, <6>4 DEF OnDisk, Copied, Stored, task
          <6> QED
            BY <6>3, <6>4
        <5> QED
          BY <5>1, <5>2
      <4> QED
        BY <4>1, <4>3
    <3> QED
      BY <3>6, <3>7, <3>8, <3>9
  <2> QED
    BY <2>3, <2>4, <2>5 DEF FileInv
<1> QED
  BY <1>5, <1>6

LEMMA CopyDoneKeepsPlaces == TInv /\ FileInv /\ CopyDone => FileInv'
<1> SUFFICES ASSUME TInv, FileInv, CopyDone PROVE FileInv'
  OBVIOUS
<1>1. pc = "copy" /\ pc' = "override" /\ at = Len(files) /\ UNCHANGED <<task, config, store, at, faults>>
  BY DEF CopyDone
<1>2. /\ DOMAIN files = DOMAIN label.files /\ DOMAIN files = 1..Len(files) /\ Len(files) \in Nat
  BY <1>1, SameDomain
<1>3. \A i \in DOMAIN files : i <= at /\ ~(i > at)
  BY <1>1, <1>2
<1>4. Shape'
  <2>1. "mkdir" \notin faults
    BY <1>1 DEF FileInv, Shape
  <2>2. \A i \in DOMAIN files : /\ label.files[i].words # <<>>
                                /\ files[i] = IF config.noFolder = "true" THEN FirstField(label.files[i])
                                              ELSE InRunFolder(label.files[i])
    BY <1>1, <1>3 DEF FileInv, Shape
  <2>3. UNCHANGED <<faults, files, label, config>>
    BY <1>1 DEF store, task
  <2>4. CASE config.noFolder = "true"
    BY <1>1, <1>2, <2>1, <2>2, <2>3, <2>4 DEF Shape, Flat
  <2>5. CASE config.noFolder # "true"
    BY <1>1, <1>2, <2>1, <2>2, <2>3, <2>5 DEF Shape
  <2> QED
    BY <2>4, <2>5
<1>5. Copies'
  <2>1. UNCHANGED <<faults, files, label, given, disk, detail>> /\ Listed' = Listed
    BY <1>1 DEF store, task, Listed
  <2> QED
    BY <1>1, <1>3, <2>1 DEF FileInv, Copies, Unfit, Emptied, OnDisk
<1>6. Entries'
  BY <1>1 DEF Entries, Prepared
<1> QED
  BY <1>4, <1>5, <1>6 DEF FileInv

(* Labels change the folder and dontcreatefolder after the files were      *)
(* copied; the copies stay where they are listed.                          *)
LEMMA OverrideKeepsPlaces == TInv /\ FileInv /\ OverrideConfig => FileInv'
<1> SUFFICES ASSUME TInv, FileInv, OverrideConfig PROVE FileInv'
  OBVIOUS
<1>1. /\ pc = "override" /\ pc' = "parse" /\ UNCHANGED <<faults, files, label, given, disk, detail>>
      /\ Listed' = Listed
  BY DEF OverrideConfig, store, task, Listed
<1>2. Flat => Flat'
  <2>1. config'.noFolder = IF NoOverride \in {config.noFolder, label.noFolder} THEN config.noFolder
                           ELSE label.noFolder
    BY DEF OverrideConfig, TInv, Scalars
  <2>2. label.noFolder \in {NoOverride, "true", "false"}
    BY DEF TInv, Scalars
  <2> QED
    BY <1>1, <2>1, <2>2 DEF Flat
<1>3. Shape'
  BY <1>1, <1>2 DEF FileInv, Shape
<1>4. Copies'
  BY <1>1 DEF FileInv, Copies, Unfit, Emptied, OnDisk
<1>5. Entries'
  BY <1>1 DEF Entries, Prepared
<1> QED
  BY <1>3, <1>4, <1>5 DEF FileInv

(* The key of a key is the key itself.                                     *)
LEMMA KeyOfKey ==
  ASSUME NEW p \in Paths, p.words # <<>>, config.folder \in Folders
  PROVE  /\ KeyOf(KeyOf(p)) = KeyOf(p) /\ FirstField(KeyOf(p)) = KeyOf(p)
         /\ KeyOf(FirstField(p)) = KeyOf(p)
<1>1. KeyOf(p) \in Paths /\ Settled(KeyOf(p))
  BY KeysAreSettled
<1>2. FirstField(p) \in Paths /\ FirstField(p).words = <<p.words[1]>> /\ Len(<<p.words[1]>>) = 1
  BY FirstFields
<1>3. FirstField(FirstField(p)) = FirstField(p)
  BY <1>2, OneWord
<1> QED
  BY <1>1, <1>3, SettledStays DEF KeyOf

(* When the files are parsed, two of one key are files of one path.        *)
LEMMA KeysApart ==
  ASSUME TInv, FileInv, pc = "parse", \A i \in DOMAIN files : files[i].words # <<>>,
         NEW i \in DOMAIN files, NEW j \in DOMAIN files, KeyOf(files[i]) = KeyOf(files[j])
  PROVE  /\ label.files[i].words # <<>>
         /\ SamePath(label.files[i], label.files[j])
<1> DEFINE f == label.files[i]
           g == label.files[j]
<1>1. f \in Paths /\ g \in Paths /\ config.folder \in Folders
  BY SameDomain, ListedFiles DEF TInv, Scalars
<1>2. CASE "mkdir" \in faults
  <2>1. files[i] = f /\ files[j] = g
    BY <1>2 DEF FileInv, Shape
  <2> QED
    BY <1>2, <2>1 DEF SamePath
<1>3. CASE "mkdir" \notin faults
  <2>1. f.words # <<>> /\ g.words # <<>>
    BY <1>3, SameDomain DEF FileInv, Shape
  <2> HIDE DEF f, g
  <2>2. CASE files[i] = InRunFolder(f) /\ files[j] = InRunFolder(g)
    BY <1>1, <2>1, <2>2, RunKeysDiffer DEF SamePath, f, g
  <2>3. CASE Flat /\ files[i] = FirstField(f) /\ files[j] = FirstField(g)
    <3>1. KeyOf(f) = KeyOf(g)
      BY <1>1, <2>1, <2>3, KeyOfKey
    <3>2. config.noFolder = "true" => FirstField(f) = FirstField(g)
      BY <3>1 DEF KeyOf, FolderPath
    <3> QED
      BY <2>1, <2>3, <3>1, <3>2 DEF Flat, SamePath, f, g
  <2> QED
    BY <1>3, <2>2, <2>3 DEF FileInv, Shape, f, g
<1> QED
  BY <1>2, <1>3

(* An entry comes from the last file of its key.                           *)
LEMMA LastFile ==
  ASSUME TInv, ParseYamls, NEW k \in DOMAIN detail'
  PROVE  \E last \in DOMAIN files :
           /\ KeyOf(files[last]) = k
           /\ detail'[k] = IF files[last] \in DOMAIN disk THEN disk[files[last]] ELSE Empty
<1> DEFINE IsLast(i) == /\ KeyOf(files[i]) = k
                        /\ \A j \in DOMAIN files : KeyOf(files[j]) = k => j <= i
           last == CHOOSE i \in DOMAIN files : IsLast(i)
           Those == {j \in DOMAIN files : KeyOf(files[j]) = k}
<1>1. k \in {KeyOf(f) : f \in Range(files)}
      /\ detail'[k] = IF files[last] \in DOMAIN disk THEN disk[files[last]] ELSE Empty
  BY DEF ParseYamls
<1>2. Those # {}
  BY <1>1 DEF Range
<1>3. Those \in SUBSET (1..Len(files)) /\ Len(files) \in Nat
  BY DEF TInv, ListedWell
<1>4. PICK i \in Those : \A j \in Those : j <= i
  <2> HIDE DEF Those
  <2> QED
    BY <1>2, <1>3, Latest
<1>5. i \in DOMAIN files /\ IsLast(i)
  BY <1>4
<1>6. last \in DOMAIN files /\ IsLast(last)
  <2> HIDE DEF IsLast
  <2> QED
    BY <1>5
<1> HIDE DEF last
<1> QED
  BY <1>1, <1>6

(* A file of the task is a key only of files of its own path.              *)
LEMMA TaskFileAsKey ==
  ASSUME TInv, FileInv, pc = "parse", \A j \in DOMAIN files : files[j].words # <<>>,
         NEW f \in Listed, ~Excused(f), NEW i \in DOMAIN files, KeyOf(files[i]) = f
  PROVE  files[i] = f
<1> DEFINE g == label.files[i]
<1>1. f \in TaskPaths /\ f \in Paths /\ g \in TaskPaths /\ g \in Paths /\ g \in Listed
      /\ config.folder \in Folders
  BY SameDomain, ListedFiles DEF TInv, Scalars
<1>2. CASE "mkdir" \in faults
  <2>1. files[i] = g /\ g.words # <<>>
    BY <1>2 DEF FileInv, Shape
  <2>2. KeyOf(g) = KeyOf(f)
    BY <1>1, <2>1, KeyOfKey
  <2>3. f = g
    BY <1>1, <1>2, <2>2 DEF Excused, SamePath
  <2> QED
    BY <2>1, <2>3
<1>3. CASE "mkdir" \notin faults
  <2>1. g.words # <<>>
    BY <1>3, SameDomain DEF FileInv, Shape
  <2> HIDE DEF g
  <2>2. CASE files[i] = InRunFolder(g)
    BY <1>1, <2>1, <2>2, RunKeys, TaskPathsElsewhere
  <2>3. CASE Flat /\ files[i] = FirstField(g)
    <3>1. KeyOf(g) = f /\ KeyOf(f) = f /\ FirstField(f) = f
      BY <1>1, <2>1, <2>3, KeyOfKey
    <3>2. config.noFolder = "true" => FirstField(g) = FirstField(f)
      BY <3>1 DEF KeyOf, FolderPath
    <3>3. g = f
      BY <1>1, <2>3, <3>1, <3>2 DEF Flat, Excused, SamePath
    <3> QED
      BY <2>3, <3>1, <3>3
  <2> QED
    BY <1>3, <2>2, <2>3 DEF FileInv, Shape, g
<1> QED
  BY <1>2, <1>3

(* A file that is in its place has one word, but for those excused.        *)
LEMMA OneWordEach ==
  ASSUME TInv, FileInv, pc = "parse", \A j \in DOMAIN files : files[j].words # <<>>,
         NEW i \in DOMAIN files, ~Unfit(label.files[i])
  PROVE  /\ files[i] \in Paths /\ FirstField(files[i]) = files[i]
         /\ files[i].words[1] # InfraName
<1> DEFINE f == label.files[i]
<1>1. f \in Paths /\ files[i] \in Paths /\ f.words[1] # InfraName
  BY SameDomain, ListedFiles DEF Unfit
<1>2. CASE "mkdir" \in faults
  <2>1. files[i] = f /\ f.words # <<>> /\ ~(Len(f.words) > 1)
    BY <1>2 DEF FileInv, Shape, Unfit
  <2>2. f.words \in Seq(Words \cup {InfraName})
    BY <1>1 DEF Paths
  <2>3. Len(f.words) = 1
    <3> DEFINE w == f.words
    <3>1. w \in Seq(Words \cup {InfraName}) /\ w # <<>> /\ ~(Len(w) > 1)
      BY <2>1, <2>2
    <3> HIDE DEF w
    <3>2. Len(w) \in Nat /\ Len(w) # 0
      BY <3>1
    <3>3. \A n \in Nat : n # 0 /\ ~(n > 1) => n = 1
      OBVIOUS
    <3>4. Len(w) = 1
      BY <3>1, <3>2, <3>3
    <3> QED
      BY <3>4 DEF w
  <2> QED
    BY <1>1, <2>1, <2>3, OneWord
<1>3. CASE "mkdir" \notin faults
  <2>1. f.words # <<>>
    BY <1>3, SameDomain DEF FileInv, Shape
  <2>2. files[i] = InRunFolder(f) \/ files[i] = FirstField(f)
    BY <1>3 DEF FileInv, Shape
  <2> HIDE DEF f
  <2>3. files[i].words = <<f.words[1]>>
    BY <1>1, <2>1, <2>2, RunPaths, FirstFields
  <2>4. Len(files[i].words) = 1 /\ files[i].words[1] = f.words[1]
    BY <2>3
  <2>5. FirstField(files[i]) = files[i]
    BY <1>1, <2>4, OneWord
  <2> QED
    BY <1>1, <2>4, <2>5
<1> QED
  BY <1>2, <1>3

(* Every copy is read under its listed path and entered under its key, and *)
(* no other file is entered under the same one.                            *)
LEMMA ParseKeepsPlaces == TInv /\ FileInv /\ ParseYamls => FileInv'
<1> SUFFICES ASSUME TInv, FileInv, ParseYamls PROVE FileInv'
  OBVIOUS
<1>1. /\ pc = "parse" /\ pc' = "infra" /\ UNCHANGED <<task, config, faults, files, disk>>
      /\ DOMAIN detail' = {KeyOf(f) : f \in Range(files)}
      /\ \A i \in DOMAIN files : files[i].words # <<>>
      /\ Listed' = Listed
  BY DEF ParseYamls, Listed, task
<1>2. Shape' /\ Copies'
  BY <1>1 DEF Shape, Copies
<1>3. ASSUME NEW f \in Listed, ~Excused(f)
      PROVE  \/ Emptied(f)'
             \/ \E i \in DOMAIN files : /\ files[i].words[1] # InfraName
                                        /\ FolderPath(files[i]) \in DOMAIN detail'
                                        /\ detail'[FolderPath(files[i])] = given[f]
  <2>1. PICK i \in DOMAIN label.files : label.files[i] = f
    BY <1>3, ListedFiles
  <2>2. i \in DOMAIN files
    BY <1>1, <2>1, SameDomain
  <2>3. f.words # <<>>
    BY <1>1, <2>1, <2>2, KeysApart
  <2>4. ~Unfit(f)
    BY <1>3 DEF Excused
  <2>5. \/ Emptied(f)
        \/ \A j \in DOMAIN files : label.files[j] = f => OnDisk(files[j], f)
    BY <1>1, <2>3, <2>4 DEF FileInv, Copies
  <2>6. CASE Emptied(f)
    <3>1. ASSUME f \in DOMAIN detail'
          PROVE  detail'[f] = Empty
      <4>1. PICK last \in DOMAIN files :
              /\ KeyOf(files[last]) = f
              /\ detail'[f] = IF files[last] \in DOMAIN disk THEN disk[files[last]] ELSE Empty
        BY <3>1, LastFile
      <4>2. files[last] = f
        BY <1>1, <1>3, <4>1, TaskFileAsKey
      <4> QED
        BY <2>6, <4>1, <4>2 DEF Emptied
    <3> QED
      BY <1>1, <2>6, <3>1 DEF Emptied
  <2>7. CASE \A j \in DOMAIN files : label.files[j] = f => OnDisk(files[j], f)
    <3> DEFINE k == KeyOf(files[i])
    <3>1. k \in DOMAIN detail'
      BY <1>1, <2>2 DEF Range
    <3>2. PICK last \in DOMAIN files :
            /\ KeyOf(files[last]) = k
            /\ detail'[k] = IF files[last] \in DOMAIN disk THEN disk[files[last]] ELSE Empty
      BY <3>1, LastFile
    <3>3. label.files[last] \in Listed
      BY <1>1, SameDomain
    <3>4. SamePath(f, label.files[last])
      BY <1>1, <2>1, <2>2, <3>2, KeysApart
    <3>5. label.files[last] = f
      BY <1>3, <3>3, <3>4 DEF Excused
    <3>6. detail'[k] = given[f]
      BY <2>7, <3>2, <3>5 DEF OnDisk
    <3>7. FirstField(files[i]) = files[i] /\ files[i].words[1] # InfraName
      BY <1>1, <2>1, <2>2, <2>4, OneWordEach
    <3>8. FolderPath(files[i]) = k
      BY <3>7 DEF KeyOf
    <3> QED
      BY <2>2, <3>1, <3>6, <3>7, <3>8
  <2> QED
    BY <2>5, <2>6, <2>7
<1>4. Entries'
  <2> SUFFICES ASSUME NEW f \in Listed, ~Excused(f)'
               PROVE  \/ Emptied(f)'
                      \/ \E i \in DOMAIN files : /\ files[i].words[1] # InfraName
                                                 /\ Entered(FolderPath(files[i]), f)'
    BY <1>1 DEF Entries, Prepared
  <2>1. ~Excused(f)
    BY <1>1, ExcuseStays
  <2>2. \A p : FolderPath(p)' = FolderPath(p)
    BY <1>1 DEF FolderPath, InFolder
  <2>3. \A i \in DOMAIN files : Entered(FolderPath(files[i]), f)' <=>
          /\ FolderPath(files[i]) \in DOMAIN detail'
          /\ detail'[FolderPath(files[i])] = given[f]
    BY <1>1 DEF Entered, FolderPath, InFolder, task
  <2> QED
    BY <1>3, <2>1, <2>3
<1> QED
  BY <1>2, <1>4 DEF FileInv

LEMMA FailureKeepsPlaces == PluginFails => FileInv'
  BY DEF PluginFails, FileInv, Shape, Copies, Entries, Prepared

(* The files are prefixed as their keys were, and the infra container's    *)
(* file takes no entry of theirs.                                          *)
LEMMA InfraKeepsPlaces == TInv /\ FileInv /\ CreateInfraContainer => FileInv'
<1> SUFFICES ASSUME TInv, FileInv, CreateInfraContainer PROVE FileInv'
  OBVIOUS
<1> DEFINE path == WritePath(InfraPath)
           moved == [i \in DOMAIN files |-> FolderPath(files[i])]
<1>1. /\ disk' = Stored(path, InfraContent)
      /\ detail' = [k \in DOMAIN detail \cup {path} |-> IF k = path THEN InfraContent ELSE detail[k]]
      /\ files' = Append(moved, path)
      /\ pc = "infra" /\ pc' = "edit" /\ at' = 0
      /\ UNCHANGED <<task, config, faults, edited>> /\ Listed' = Listed
  BY DEF CreateInfraContainer, Listed, task
<1>2. config.folder \in Folders /\ files \in Seq(Paths)
  BY DEF TInv, Scalars, ListedWell
<1>3. path.words = <<InfraName>> /\ <<InfraName>>[1] = InfraName
  BY <1>2, InfraIsSettled DEF InfraPath
<1>4. \A i \in DOMAIN files : files[i] \in Paths /\ FolderPath(files[i]).words = files[i].words
  BY <1>2, FolderPaths
<1>5. moved \in Seq(Paths) /\ DOMAIN moved = DOMAIN files /\ Len(moved) = Len(files)
  BY <1>2, FolderPaths
<1>6. \A i \in DOMAIN files : moved[i] = FolderPath(files[i])
  OBVIOUS
<1> HIDE DEF moved, path
<1>7. \A i \in DOMAIN files : i \in DOMAIN files' /\ i > 0 /\ files'[i] = FolderPath(files[i])
  BY <1>1, <1>2, <1>5, <1>6
<1>8. Shape' /\ Copies'
  BY <1>1 DEF Shape, Copies
<1>9. Entries'
  <2> SUFFICES ASSUME NEW f \in Listed, ~Excused(f)'
               PROVE  \/ Emptied(f)'
                      \/ \E i \in DOMAIN files' : i > 0 /\ Entered(files[i], f)'
    BY <1>1 DEF Entries, Prepared
  <2>1. ~Excused(f)
    BY <1>1, ExcuseStays
  <2>2. f # path
    <3>1. f.words[1] # InfraName
      BY <2>1 DEF Excused, Unfit
    <3> QED
      BY <1>3, <3>1
  <2>3. CASE Emptied(f)
    BY <1>1, <2>2, <2>3 DEF Emptied, Stored
  <2>4. CASE \E i \in DOMAIN files : files[i].words[1] # InfraName /\ Entered(FolderPath(files[i]), f)
    <3>1. PICK i \in DOMAIN files : files[i].words[1] # InfraName /\ Entered(FolderPath(files[i]), f)
      BY <2>4
    <3>2. FolderPath(files[i]) # path
      BY <1>3, <1>4, <3>1
    <3>3. files'[i] \in DOMAIN detail' /\ detail'[files'[i]] = given[f]
      BY <1>1, <1>7, <3>1, <3>2 DEF Entered
    <3> QED
      BY <1>1, <1>7, <3>3 DEF Entered, task
  <2> QED
    BY <1>1, <2>1, <2>3, <2>4 DEF FileInv, Entries
<1> QED
  BY <1>8, <1>9 DEF FileInv

(* The entry of a file moves to its generated name together with the file; *)
(* a file listed twice moves once.                                         *)
LEMMA EditKeepsPlaces == TInv /\ EntryInv /\ FileInv /\ EditFile => FileInv'
<1> SUFFICES ASSUME TInv, EntryInv, FileInv, EditFile PROVE FileInv'
  OBVIOUS
<1> DEFINE file == files[at + 1]
<1>1. /\ pc = "edit" /\ UNCHANGED <<task, config, faults, files, disk, pc>> /\ at' = at + 1
      /\ Listed' = Listed
  BY DEF EditFile, Listed, task
<1>2. files \in Seq(Paths) /\ edited \in Seq(Paths) /\ at \in Nat
  BY DEF TInv, Scalars, ListedWell
<1>3. Shape' /\ Copies'
  BY <1>1 DEF Shape, Copies
<1>4. ASSUME NEW f \in Listed, ~Excused(f)
      PROVE  \/ Emptied(f)'
             \/ \E i \in DOMAIN files : i > at + 1 /\ files[i] \in DOMAIN detail' /\ detail'[files[i]] = given[f]
             \/ \E i \in DOMAIN edited' : edited'[i] \in DOMAIN detail' /\ detail'[edited'[i]] = given[f]
  <2>1. f \in TaskPaths /\ ~f.generated
    BY ListedFiles, TaskPathsElsewhere
  <2>2. f \in DOMAIN given /\ given[f].services
    BY <1>4 DEF Excused, Unfit
  <2>3. \/ Emptied(f)
        \/ \E i \in DOMAIN files : i > at /\ Entered(files[i], f)
        \/ \E i \in DOMAIN edited : Entered(edited[i], f)
    BY <1>1, <1>4 DEF FileInv, Entries
  <2>4. CASE HasServices(files[at + 1])
    <3>1. /\ file \in Paths /\ ~file.generated
          /\ detail'[Generated(file)] = detail[file] /\ Generated(file) \notin DOMAIN detail
          /\ DOMAIN detail' = (DOMAIN detail \ {file}) \cup {Generated(file)}
          /\ \A k \in DOMAIN detail : k # file => detail'[k] = detail[k]
          /\ edited' = Append(edited, Generated(file))
      BY <2>4, EditMovesEntry
    <3> HIDE DEF file
    <3>2. Generated(file) \in Paths /\ Generated(file).generated = TRUE
      BY <3>1, GeneratedIsSettled
    <3>3. /\ Len(edited) + 1 \in DOMAIN edited' /\ edited'[Len(edited) + 1] = Generated(file)
          /\ \A i \in DOMAIN edited : i \in DOMAIN edited' /\ edited'[i] = edited[i]
      BY <1>2, <3>1, <3>2
    <3>4. CASE Emptied(f)
      BY <1>1, <2>1, <3>1, <3>2, <3>4 DEF Emptied
    <3>5. ASSUME NEW i \in DOMAIN files, i > at, Entered(files[i], f)
          PROVE  \/ \E j \in DOMAIN files : j > at + 1 /\ files[j] \in DOMAIN detail' /\ detail'[files[j]] = given[f]
                 \/ \E j \in DOMAIN edited' : edited'[j] \in DOMAIN detail' /\ detail'[edited'[j]] = given[f]
      <4>1. CASE files[i] = file
        BY <3>1, <3>3, <3>5, <4>1 DEF Entered
      <4>2. CASE files[i] # file
        <5>1. i # at + 1 /\ i \in Nat
          BY <1>2, <4>2 DEF file
        <5>2. i > at + 1
          BY <1>2, <3>5, <5>1
        <5> QED
          BY <3>1, <3>5, <4>2, <5>2 DEF Entered
      <4> QED
        BY <4>1, <4>2
    <3>6. ASSUME NEW i \in DOMAIN edited, Entered(edited[i], f)
          PROVE  \E j \in DOMAIN edited' : edited'[j] \in DOMAIN detail' /\ detail'[edited'[j]] = given[f]
      <4>1. edited[i] # file
        BY <1>1, <3>1 DEF EntryInv, HaveEntries
      <4> QED
        BY <3>1, <3>3, <3>6, <4>1 DEF Entered
    <3> QED
      BY <2>3, <3>4, <3>5, <3>6
  <2>5. CASE ~HasServices(files[at + 1])
    <3>1. UNCHANGED <<detail, edited>>
      BY <2>5 DEF EditFile
    <3>2. ASSUME NEW i \in DOMAIN files, i > at, Entered(files[i], f)
          PROVE  i > at + 1
      <4>1. files[i] \in DOMAIN detail /\ detail[files[i]].services
        BY <2>2, <3>2 DEF Entered
      <4>2. i # at + 1
        BY <2>5, <4>1 DEF HasServices
      <4> QED
        BY <1>2, <3>2, <4>2
    <3> QED
      BY <1>1, <2>3, <3>1, <3>2 DEF Emptied, Entered
  <2> QED
    BY <2>4, <2>5
<1>5. Entries'
  <2> SUFFICES ASSUME NEW f \in Listed, ~Excused(f)'
               PROVE  \/ Emptied(f)'
                      \/ \E i \in DOMAIN files' : i > at' /\ Entered(files[i], f)'
                      \/ \E i \in DOMAIN edited' : Entered(edited[i], f)'
    BY <1>1 DEF Entries, Prepared
  <2>1. ~Excused(f)
    BY <1>1, ExcuseStays
  <2> QED
    BY <1>1, <1>4, <2>1 DEF Entered, task
<1> QED
  BY <1>3, <1>5 DEF FileInv

LEMMA EditDoneKeepsPlaces == TInv /\ FileInv /\ EditDone => FileInv'
<1> SUFFICES ASSUME TInv, FileInv, EditDone PROVE FileInv'
  OBVIOUS
<1>1. /\ pc = "edit" /\ pc' = "write" /\ at = Len(files) /\ files' = edited
      /\ UNCHANGED <<task, config, faults, disk, detail, edited>> /\ Listed' = Listed
  BY DEF EditDone, Listed, task
<1>2. \A i \in DOMAIN files : ~(i > at)
  BY <1>1 DEF TInv, ListedWell
<1>3. Shape' /\ Copies'
  BY <1>1 DEF Shape, Copies
<1>4. Entries'
  <2> SUFFICES ASSUME NEW f \in Listed, ~Excused(f)'
               PROVE  Emptied(f)' \/ \E i \in DOMAIN files' : Entered(files[i], f)'
    BY <1>1 DEF Entries, Prepared
  <2>1. ~Excused(f)
    BY <1>1, ExcuseStays
  <2>2. Emptied(f) \/ \E i \in DOMAIN edited : Entered(edited[i], f)
    BY <1>1, <1>2, <2>1 DEF FileInv, Entries
  <2> QED
    BY <1>1, <2>2 DEF Entered, Emptied, task
<1> QED
  BY <1>3, <1>4 DEF FileInv

LEMMA WriteKeepsPlaces == TInv /\ FileInv /\ WriteChangeToFiles => FileInv'
<1> SUFFICES ASSUME TInv, FileInv, WriteChangeToFiles PROVE FileInv'
  OBVIOUS
<1>1. /\ pc \in Prepared /\ pc' \in Prepared \ {"write"} /\ UNCHANGED <<task, config, files, detail>>
      /\ Listed' = Listed
  BY DEF WriteChangeToFiles, Listed, task, Prepared
<1>2. PICK keys \in SUBSET DOMAIN detail :
        /\ DOMAIN disk' = DOMAIN disk \cup keys
        /\ \A p \in DOMAIN disk \ keys : disk'[p] = disk[p]
        /\ \A p \in keys : disk'[p] = detail[p] \/ ("partial" \in faults' /\ disk'[p] = Empty)
        /\ faults \subseteq faults'
  BY WriteOutcome
<1>3. Shape' /\ Copies'
  BY <1>1 DEF Shape, Copies, Prepared
<1>4. Entries'
  <2> SUFFICES ASSUME NEW f \in Listed, ~Excused(f)'
               PROVE  Emptied(f)' \/ \E i \in DOMAIN files' : Entered(files[i], f)'
    BY <1>1 DEF Entries, Prepared
  <2>1. ~Excused(f)
    BY <1>1, <1>2, ExcuseStays
  <2>2. Emptied(f) \/ \E i \in DOMAIN files : Entered(files[i], f)
    BY <1>1, <2>1 DEF FileInv, Entries
  <2>3. Emptied(f) => Emptied(f)'
    BY <1>1, <1>2 DEF Emptied
  <2> QED
    BY <1>1, <2>2, <2>3 DEF Entered, task
<1> QED
  BY <1>3, <1>4 DEF FileInv

LEMMA CommandsKeepPlaces == FileInv /\ Commands => FileInv'
<1> SUFFICES ASSUME FileInv, Commands PROVE FileInv'
  OBVIOUS
<1>1. UNCHANGED <<task, config, files, disk, detail, edited, faults>> /\ Listed' = Listed
  BY CommandsKeepFiles DEF store, Listed, task
<1>2. \/ pc' = pc /\ at' = at
      \/ pc \in Prepared /\ pc' \in Prepared \cup {"failed"}
  <2> USE DEF clock, Prepared
  <2>1. CASE ValidateCompose
    BY <2>1 DEF ValidateCompose, Start, WaitCmd
  <2>2. CASE SkipPull
    BY <2>2 DEF SkipPull
  <2>3. CASE PullImage
    BY <2>3 DEF PullImage, Start, WaitCmd
  <2>4. CASE PullFails
    BY <2>4 DEF PullFails
  <2>5. CASE FireDeadline
    BY <2>5 DEF FireDeadline
  <2>6. CASE FireTimer
    BY <2>6 DEF FireTimer
  <2>7. CASE WaitOnPod
    BY <2>7 DEF WaitOnPod
  <2> QED
    BY <2>1, <2>2, <2>3, <2>4, <2>5, <2>6, <2>7 DEF Commands
<1>3. Shape' /\ Copies'
  BY <1>1, <1>2 DEF FileInv, Shape, Copies, Prepared, Flat, Unfit, Emptied, OnDisk, task
<1>4. Entries'
  <2>1. \A f : Excused(f)' <=> Excused(f)
    BY <1>1 DEF Excused, Unfit, SamePath, KeyOf, FolderPath, InFolder, task
  <2>2. \A p : FolderPath(p)' = FolderPath(p)
    BY <1>1 DEF FolderPath, InFolder
  <2>3. \A f : Emptied(f)' <=> Emptied(f)
    BY <1>1 DEF Emptied
  <2>4. \A p, f : Entered(p, f)' <=> Entered(p, f)
    BY <1>1 DEF Entered, task
  <2>5. CASE pc' = pc /\ at' = at
    BY <1>1, <2>1, <2>2, <2>3, <2>4, <2>5 DEF FileInv, Entries, Prepared, Entered
  <2>6. CASE pc \in Prepared /\ pc' \in Prepared \cup {"failed"}
    BY <1>1, <2>1, <2>3, <2>4, <2>6 DEF FileInv, Entries, Prepared, Entered
  <2> QED
    BY <1>2, <2>5, <2>6
<1> QED
  BY <1>3, <1>4 DEF FileInv

-----------------------------------------------------------------------------
(* The three parts together.                                               *)

LEMMA PreparingKeepsPrepInv == PrepInv /\ Prepare => PrepInv'
<1> SUFFICES ASSUME TInv, EntryInv, FileInv, Prepare PROVE PrepInv'
  BY DEF PrepInv
<1>1. CASE GetFiles
  BY <1>1, GetFilesKeepsTypes, GetFilesKeepsEntries, GetFilesKeepsPlaces DEF PrepInv
<1>2. CASE GenerateAppFolder
  BY <1>2, FolderKeepsTypes, FolderKeepsEntries, FolderKeepsPlaces DEF PrepInv
<1>3. CASE CopyNext
  BY <1>3, CopyNextKeepsTypes, CopyNextKeepsEntries, CopyNextKeepsPlaces DEF PrepInv
<1>4. CASE CopyDone
  BY <1>4, CopyDoneKeepsTypes, ConfiguringKeepsEntries, CopyDoneKeepsPlaces DEF PrepInv
<1>5. CASE OverrideConfig
  BY <1>5, OverrideKeepsTypes, ConfiguringKeepsEntries, OverrideKeepsPlaces DEF PrepInv
<1>6. CASE ParseYamls
  BY <1>6, ParseKeepsTypes, ParseKeepsEntries, ParseKeepsPlaces DEF PrepInv
<1>7. CASE PluginFails
  BY <1>7, FailureKeepsTypes, FailureKeepsEntries, FailureKeepsPlaces DEF PrepInv
<1>8. CASE CreateInfraContainer
  BY <1>8, InfraKeepsTypes, InfraKeepsEntries, InfraKeepsPlaces DEF PrepInv
<1>9. CASE EditFile
  BY <1>9, EditKeepsTypes, EditKeepsEntries, EditKeepsPlaces DEF PrepInv
<1>10. CASE EditDone
  BY <1>10, EditDoneKeepsTypes, EditDoneKeepsEntries, EditDoneKeepsPlaces DEF PrepInv
<1>11. CASE WriteChangeToFiles
  BY <1>11, WriteKeepsTypes, WriteKeepsEntries, WriteKeepsPlaces DEF PrepInv
<1> QED
  BY <1>1, <1>2, <1>3, <1>4, <1>5, <1>6, <1>7, <1>8, <1>9, <1>10, <1>11 DEF Prepare

LEMMA StandingKeepsPrepInv == PrepInv /\ UNCHANGED vars => PrepInv'
<1> SUFFICES ASSUME PrepInv, UNCHANGED vars PROVE PrepInv'
  OBVIOUS
<1>1. UNCHANGED <<label, given, config, dirs, disk, files, detail, edited, at,
                  deadline, timer, stray, told, faults, pc>>
  BY DEF vars, task, store, clock
<1>2. TInv'
  BY <1>1 DEF PrepInv, TInv, Scalars, StoredWell, EnteredWell, ListedWell, Lengths, Settled, InFolder
<1>3. EntryInv'
  BY <1>1 DEF PrepInv, EntryInv, PlainNames, OneName, HaveEntries, WrittenAsHeld, Checked,
              HasServices, FilesExist
<1>4. Shape'
  BY <1>1 DEF PrepInv, FileInv, Shape, Flat
<1>5. /\ Listed' = Listed
      /\ \A p : KeyOf(p)' = KeyOf(p) /\ FolderPath(p)' = FolderPath(p)
  BY <1>1 DEF Listed, KeyOf, FolderPath, InFolder
<1>6. \A f : Unfit(f)' <=> Unfit(f)
  BY <1>1, <1>5 DEF Unfit
<1>7. \A f, g : SamePath(f, g)' <=> SamePath(f, g)
  BY <1>1, <1>5 DEF SamePath
<1>8. \A f : (Excused(f)' <=> Excused(f)) /\ (Emptied(f)' <=> Emptied(f))
  BY <1>1, <1>5, <1>6, <1>7 DEF Excused, Emptied
<1>9. \A p, f : (OnDisk(p, f)' <=> OnDisk(p, f)) /\ (Entered(p, f)' <=> Entered(p, f))
  BY <1>1 DEF OnDisk, Entered
<1>10. Copies'
  BY <1>1, <1>5, <1>6, <1>8, <1>9 DEF PrepInv, FileInv, Copies
<1>11. Entries'
  BY <1>1, <1>5, <1>8, <1>9 DEF PrepInv, FileInv, Entries
<1> QED
  BY <1>2, <1>3, <1>4, <1>10, <1>11 DEF PrepInv, FileInv

(* The inductive invariant: the types of the paths and lists, that every   *)
(* generated file has its entry and the disk holds what was written of it  *)
(* (file.go:224), and where each file of the label is to be found at every *)
(* stage of the launch, from GetFiles (main.go:116) to the second          *)
(* WriteChangeToFiles (main.go:243): for every listing, every set of files *)
(* the agent has fetched, and every number of retries.                     *)
THEOREM PrepInvCorrect == Spec => []PrepInv
<1>1. Init => PrepInv
  BY TypesInit, EntriesInit, PlacesInit DEF PrepInv
<1>2. PrepInv /\ [Next]_vars => PrepInv'
  <2> SUFFICES ASSUME PrepInv, [Next]_vars PROVE PrepInv'
    OBVIOUS
  <2>1. CASE Prepare
    BY <2>1, PreparingKeepsPrepInv
  <2>2. CASE Commands
    BY <2>2, CommandsKeepTypes, CommandsKeepEntries, CommandsKeepPlaces DEF PrepInv
  <2>3. CASE Ended \/ UNCHANGED vars
    BY <2>3, StandingKeepsPrepInv DEF Ended
  <2> QED
    BY <2>1, <2>2, <2>3 DEF Next, Commands
<1> QED
  BY <1>1, <1>2, PTL DEF Spec

LEMMA TInvTypes == TInv => TypeOK
  BY DEF TInv, Scalars, StoredWell, EnteredWell, ListedWell, Lengths, TypeOK

(* The types, and with them that no more than pullretry pulls are tried    *)
(* (wait.go:49) and that a file kept under an entry's path is in a folder  *)
(* that exists.                                                            *)
THEOREM PreparationTypeCorrect == Spec => []TypeOK
  BY PrepInvCorrect, TInvTypes, PTL DEF PrepInv

(* What validation found on the disk is what WriteChangeToFiles put there. *)
LEMMA EditedFilesAreOnDisk ==
  ASSUME EntryInv, pc = "up", NEW i \in DOMAIN files
  PROVE  /\ files[i] \in DOMAIN detail /\ detail[files[i]].services
         /\ files[i] \in DOMAIN disk
         /\ "partial" \notin faults => disk[files[i]] = detail[files[i]]
<1>1. files[i].generated /\ files[i] \in DOMAIN detail /\ detail[files[i]].services
  BY DEF EntryInv, HaveEntries, HasServices, Prepared
<1>2. files[i] \in DOMAIN disk
  BY DEF EntryInv, Checked, Validated, FilesExist
<1>3. "partial" \notin faults => disk[files[i]] = detail[files[i]]
  BY <1>1, <1>2 DEF EntryInv, WrittenAsHeld, Prepared
<1> QED
  BY <1>1, <1>2, <1>3

(* docker-compose up is started with the files as the plugins left them,   *)
(* each with an entry (main.go:437), unless a write emptied one: although  *)
(* LaunchTask goes on after a failed write (main.go:180), validation finds *)
(* a file that could not be created.                                       *)
THEOREM FilesAreAsEdited == Spec => []LaunchedAsEdited
<1>1. PrepInv => LaunchedAsEdited
  BY EditedFilesAreOnDisk DEF PrepInv, LaunchedAsEdited
<1> QED
  BY <1>1, PrepInvCorrect, PTL

(* Both excuses are reasons Lost names.                                    *)
LEMMA ExcusedIsLost ==
  ASSUME NEW f \in Listed, Excused(f) \/ Emptied(f)
  PROVE  Lost(f)
  BY DEF Excused, Unfit, Emptied, Lost, SamePath

LEMMA ListedFileIsThere ==
  ASSUME PrepInv, pc = "up", "partial" \notin faults, NEW f \in Listed, ~Lost(f)
  PROVE  \E i \in DOMAIN files : disk[files[i]].of = f
<1>1. PICK i \in DOMAIN files : Entered(files[i], f)
  BY ExcusedIsLost DEF PrepInv, FileInv, Entries, Prepared
<1>2. disk[files[i]] = given[f]
  BY <1>1, EditedFilesAreOnDisk DEF PrepInv, Entered
<1>3. f \in DOMAIN given /\ given[f].of = f
  BY GivenIsTyped DEF Lost, PrepInv, TInv, Scalars
<1> QED
  BY <1>2, <1>3

(* Every file of the label reaches docker-compose, under the path it has   *)
(* after it was copied (file.go:564), keyed (file.go:522) and prefixed     *)
(* (impl.go:94), each under the configuration of its step, save for the    *)
(* reasons Lost names.                                                     *)
THEOREM NoListedFileLost == Spec => []NoFileLost
<1>1. PrepInv => NoFileLost
  BY ListedFileIsThere DEF NoFileLost
<1> QED
  BY <1>1, PrepInvCorrect, PTL

-----------------------------------------------------------------------------
(* The deadline and the timers                                             *)

(* Before OverrideConfig there is no launch context and no command.        *)
Unarmed == pc \in {"files", "folder", "copy", "override"}

(* The timer of a command fires after the deadline: it is set later, to    *)
(* the same duration, and both fire at once if that is negative; unless    *)
(* the deadline is off, and then the agent knows of the failure.           *)
TimerAfterDeadline ==
  /\ "timeout" \in DOMAIN config
  /\ timer = "fired" => deadline \in {"fired", "canceled"}
  /\ deadline \in {"off", "armed", "fired", "canceled"}
  /\ deadline = "canceled" => told
  /\ config.timeout = "negative" => deadline \in {"fired", "off"}
  /\ deadline = "off" => (Unarmed \/ pc = "crashed") /\ timer = "off" /\ stray = {}
  /\ Unarmed => deadline = "off"

DInv == TimerAfterDeadline /\ StrayIsReported

LEMMA DInvInit == Init => DInv
  BY DEF Init, DInv, TimerAfterDeadline, StrayIsReported, Unarmed

(* Only OverrideConfig and GenerateAppFolder touch the configuration, and  *)
(* they leave the timeout alone.                                           *)
LEMMA PrepareKeepsDInv == DInv /\ Prepare => DInv'
  <1> SUFFICES ASSUME DInv, Prepare PROVE DInv'
    OBVIOUS
  <1> USE DEF DInv, TimerAfterDeadline, StrayIsReported, Unarmed, clock, task, store
  <1>1. CASE GetFiles
    BY <1>1 DEF GetFiles
  <1>2. CASE GenerateAppFolder
    BY <1>2 DEF GenerateAppFolder
  <1>3. CASE CopyNext
    BY <1>3 DEF CopyNext
  <1>4. CASE CopyDone
    BY <1>4 DEF CopyDone
  <1>5. CASE OverrideConfig
    BY <1>5 DEF OverrideConfig
  <1>6. CASE ParseYamls
    BY <1>6 DEF ParseYamls
  <1>7. CASE PluginFails
    BY <1>7 DEF PluginFails, ReportFailure
  <1>8. CASE CreateInfraContainer
    BY <1>8 DEF CreateInfraContainer
  <1>9. CASE EditFile
    BY <1>9 DEF EditFile
  <1>11. CASE EditDone
    BY <1>11 DEF EditDone
  <1>10. CASE WriteChangeToFiles
    BY <1>10 DEF WriteChangeToFiles, ReportFailure
  <1> QED
    BY <1>1, <1>2, <1>3, <1>4, <1>5, <1>6, <1>7, <1>8, <1>9, <1>10, <1>11 DEF Prepare

LEMMA CommandsKeepDInv ==
  ASSUME DInv, Commands
  PROVE  DInv'
  <1> USE DEF DInv, TimerAfterDeadline, StrayIsReported, Unarmed, clock, task, store
  <1>1. CASE ValidateCompose
    BY <1>1 DEF ValidateCompose, Start, WaitCmd, ReportFailure
  <1>2. CASE SkipPull
    BY <1>2 DEF SkipPull
  <1>3. CASE PullImage
    BY <1>3 DEF PullImage, Start, WaitCmd
  <1>4. CASE PullFails
    BY <1>4 DEF PullFails, ReportFailure
  <1>5. CASE FireDeadline
    BY <1>5 DEF FireDeadline
  <1>6. CASE FireTimer
    BY <1>6 DEF FireTimer, TimerMayFire
  <1>7. CASE WaitOnPod
    BY <1>7 DEF WaitOnPod
  <1> QED
    BY <1>1, <1>2, <1>3, <1>4, <1>5, <1>6, <1>7 DEF Commands

(* A docker-compose command that WaitCmd gave up (wait.go:144) never runs  *)
(* on unreported, also after a failed write has cancelled the deadline:    *)
(* for every listing and configuration.                                    *)
THEOREM StraysAreReported == Spec => []StrayIsReported
  <1>1. Init => DInv
    BY DInvInit
  <1>2. DInv /\ [Next]_vars => DInv'
    <2> SUFFICES ASSUME DInv, [Next]_vars PROVE DInv'
      OBVIOUS
    <2>1. CASE Prepare
      BY <2>1, PrepareKeepsDInv
    <2>2. CASE Commands
      BY <2>2, CommandsKeepDInv
    <2>3. CASE Ended \/ UNCHANGED vars
      BY <2>3 DEF Ended, vars, DInv, TimerAfterDeadline, StrayIsReported, Unarmed, clock, task, store
    <2> QED
      BY <2>1, <2>2, <2>3 DEF Next, Commands
  <1>3. DInv => StrayIsReported
    BY DEF DInv
  <1> QED
    BY <1>1, <1>2, <1>3, PTL DEF Spec
=============================================================================
