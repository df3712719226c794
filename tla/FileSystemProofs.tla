-------------------------- MODULE FileSystemProofs --------------------------
(***************************************************************************)
(* What the operations of fs.rs do to the volume, for every set of         *)
(* locations, contents and paths and every size of the copy buffer.  The   *)
(* argument is one inductive invariant: each step of write, copy and       *)
(* rename knows how far the volume has come since the call began.          *)
(***************************************************************************)
EXTENDS FileSystem, TLAPS

Datas == Seq(Units)
Nodes == {NoNode, Dir} \cup [kind : {"file"}, data : Datas]
Volume(v) == v \in [AllLocs -> Nodes] /\ IsTree(v)

IsHandle(h) ==
    /\ h = [loc |-> h.loc, pos |-> h.pos, live |-> h.live, data |-> h.data]
    /\ h.loc \in AllLocs /\ h.pos \in Nat

\* v agrees with w everywhere but at l
SameBut(v, w, l) == \A k \in AllLocs : k # l => v[k] = w[k]

-----------------------------------------------------------------------------
(* Numbers and nodes *)

\* The fields of a file's node
LEMMA FileFields == \A c : File(c).kind = "file" /\ File(c).data = c
  BY DEF File

\* Neither nothing nor a directory is a file.
LEMMA NotFiles == NoNode.kind = "none" /\ Dir.kind = "dir"
  BY DEF NoNode, Dir

\* Contents have a length.
LEMMA Lengths == \A c \in Datas : Len(c) \in Nat
  BY DEF Datas

\* The contents of a new file
LEMMA EmptyData == << >> \in Datas /\ 0 \in 0 .. Len(<< >>)
  BY DEF Datas

\* The numbers up to b
LEMMA UpTo == \A b \in Nat : /\ \A n \in 0 .. b : n \in Nat /\ n <= b
                           /\ \A n \in Nat : n <= b => n \in 0 .. b
  OBVIOUS

\* The positions of a part are positions of the whole.
LEMMA Shorter == \A n \in Nat, b \in Nat : n <= b => \A i \in 1 .. n : i \in 1 .. b
  OBVIOUS

\* A part of a chunk fits where the chunk does.
LEMMA StillFits ==
    \A p \in Nat, c \in Nat, n \in Nat, b \in Nat : p + c <= b /\ n <= c => p + n <= b
  OBVIOUS

\* Something is left to copy until everything is copied.
LEMMA LeftOver ==
    /\ \A p \in Nat, b \in Nat : p <= b /\ b - p # 0 => p < b
    /\ \A b \in Nat : b = b - 0
  OBVIOUS

\* What is left after a chunk
LEMMA Advanced ==
    \A p \in Nat, c \in Nat, b \in Nat :
        p + c <= b => (b - p) - c = b - (p + c) /\ (b - p) - c \in Nat
  OBVIOUS

-----------------------------------------------------------------------------
(* The firmware's effects keep the volume a tree of well-formed nodes *)

\* The kind of a node decides its form.
LEMMA NodeKinds ==
    ASSUME NEW v, Volume(v), NEW l \in AllLocs
    PROVE  /\ v[l].kind = "none" => v[l] = NoNode
           /\ v[l].kind = "dir" => v[l] = Dir
           /\ v[l].kind = "file" => v[l] = File(v[l].data) /\ v[l].data \in Datas
           /\ v[l].kind \in {"none", "dir", "file"}
  <1>1. v[l] \in Nodes
    BY DEF Volume
  <1>2. CASE v[l] \in {NoNode, Dir}
    BY <1>2 DEF NoNode, Dir
  <1>3. CASE v[l] \in [kind : {"file"}, data : Datas]
    BY <1>3 DEF File
  <1> QED
    BY <1>1, <1>2, <1>3 DEF Nodes

\* A new node in an existing directory
LEMMA Created ==
    ASSUME NEW v, Volume(v), NEW l \in Locs, IsDir(v, Folder(l)), ~ Exists(v, l),
           NEW n \in {Dir, File(<< >>)}
    PROVE  /\ Volume([v EXCEPT ![l] = n])
           /\ SameBut([v EXCEPT ![l] = n], v, l)
           /\ [v EXCEPT ![l] = n][l] = n
  <1> DEFINE w == [v EXCEPT ![l] = n]
  <1>0. << >> \in Datas
    BY DEF Datas
  <1>1. n \in Nodes
    BY <1>0 DEF Nodes, File
  <1>2. w \in [AllLocs -> Nodes] /\ DOMAIN v = AllLocs /\ DOMAIN w = AllLocs
    BY <1>1 DEF Volume, AllLocs
  <1>3. w[l] = n /\ \A k \in AllLocs : k # l => w[k] = v[k]
    BY <1>2 DEF AllLocs, Volume
  <1>4. \A k : IsDir(v, k) => IsDir(w, k)
    BY <1>2, <1>3 DEF IsDir, Exists
  <1>5. \A k \in Locs : Exists(w, k) => IsDir(w, Folder(k))
    <2> SUFFICES ASSUME NEW k \in Locs, Exists(w, k) PROVE IsDir(w, Folder(k))
      BY ZenonT(60)
    <2>1. CASE k = l
      BY <2>1, <1>4, ZenonT(60)
    <2>2. CASE k # l
      BY <2>2, <1>2, <1>3, <1>4, ZenonT(60) DEF Exists, Volume, IsTree, AllLocs
    <2> QED BY <2>1, <2>2
  <1> QED
    BY <1>2, <1>3, <1>4, <1>5, ZenonT(60) DEF Volume, IsTree, SameBut

\* A node without children is removed
LEMMA Deleted ==
    ASSUME NEW v, Volume(v), NEW l \in Locs, l # Root, Children(v, l) = {}
    PROVE  /\ Volume([v EXCEPT ![l] = NoNode])
           /\ SameBut([v EXCEPT ![l] = NoNode], v, l)
           /\ [v EXCEPT ![l] = NoNode][l] = NoNode
  <1> DEFINE w == [v EXCEPT ![l] = NoNode]
  <1>1. w \in [AllLocs -> Nodes] /\ DOMAIN v = AllLocs /\ DOMAIN w = AllLocs
    BY ZenonT(60) DEF Volume, Nodes
  <1>2. w[l] = NoNode /\ \A k \in AllLocs : k # l => w[k] = v[k]
    BY <1>1 DEF AllLocs, Volume
  <1>3. \A k : k # l /\ IsDir(v, k) => IsDir(w, k)
    BY <1>1, <1>2 DEF IsDir
  <1>4. \A k \in Locs : Exists(w, k) => IsDir(w, Folder(k))
    <2> SUFFICES ASSUME NEW k \in Locs, Exists(w, k) PROVE IsDir(w, Folder(k))
      BY ZenonT(60)
    <2>1. k # l
      BY <1>2 DEF Exists, NoNode
    <2>2. Exists(v, k)
      BY <2>1, <1>1, <1>2 DEF Exists
    <2>3. Folder(k) # l
      BY <2>2, <1>1, LocsAssumption DEF Children, Root, AllLocs
    <2> QED
      BY <2>2, <2>3, <1>3, ZenonT(60) DEF Volume, IsTree
  <1> QED
    BY <1>1, <1>2, <1>3, <1>4, ZenonT(60) DEF Volume, IsTree, SameBut

\* A file changes its contents
LEMMA Rewritten ==
    ASSUME NEW v, Volume(v), NEW l \in AllLocs, IsFile(v, l), NEW d \in Datas
    PROVE  /\ Volume([v EXCEPT ![l].data = d])
           /\ SameBut([v EXCEPT ![l].data = d], v, l)
           /\ [v EXCEPT ![l].data = d][l] = File(d)
  <1> DEFINE w == [v EXCEPT ![l].data = d]
  <1>0. v[l] = [kind |-> "file", data |-> v[l].data]
    BY NodeKinds, ZenonT(60) DEF IsFile, File
  <1>1. [v[l] EXCEPT !.data = d] = File(d)
    BY <1>0 DEF File
  <1>2. w = [v EXCEPT ![l] = File(d)]
    BY <1>1, ZenonT(60)
  <1>3. File(d) \in Nodes
    BY DEF Nodes, File
  <1>4. w \in [AllLocs -> Nodes] /\ DOMAIN v = AllLocs /\ DOMAIN w = AllLocs
    BY <1>2, <1>3 DEF Volume
  <1>5. w[l] = File(d) /\ \A k \in AllLocs : k # l => w[k] = v[k]
    BY <1>2, <1>4 DEF Volume
  <1>6. \A k \in AllLocs : w[k].kind = v[k].kind
    BY <1>0, <1>5 DEF File
  <1>7. IsTree(w)
    BY <1>4, <1>6 DEF Volume, IsTree, IsDir, Exists, AllLocs
  <1> QED
    BY <1>4, <1>5, <1>7 DEF Volume, SameBut

\* A file is not the root and has nothing below it.
LEMMA FilesChildless ==
    ASSUME NEW v, Volume(v), NEW l, IsFile(v, l)
    PROVE  l \in Locs /\ l # Root /\ Children(v, l) = {}
  <1>1. DOMAIN v = AllLocs
    BY DEF Volume
  <1>2. ~ IsDir(v, l)
    BY ZenonT(60) DEF IsFile, IsDir
  <1> QED
    BY <1>1, <1>2 DEF Volume, IsTree, Children, AllLocs, IsFile, Root

-----------------------------------------------------------------------------
(* The outcomes of the sub-operations *)

Opened(v, path, mode, cd, o) ==
    /\ o.st \in {"ok", "IoError", "NotFound", "PathError"}
    /\ o.st = "PathError" <=> ~ Valid(path)
    /\ o.st = "NotFound" =>
           /\ ~ Exists(v, Loc(path))
           /\ mode = "CreateReadWrite"
                  => Loc(path) \notin Locs \/ ~ IsDir(v, Folder(Loc(path)))
    /\ o.st # "ok" \/ Exists(v, Loc(path)) => o.vol = v
    /\ o.st = "ok" /\ ~ Exists(v, Loc(path)) =>
           /\ mode = "CreateReadWrite" /\ Loc(path) \in Locs
           /\ SameBut(o.vol, v, Loc(path))
           /\ o.vol[Loc(path)] = IF cd THEN Dir ELSE File(<< >>)
    /\ Volume(o.vol)

\* What FileSystem::open (fs.rs:410) does to the volume and what its result means
LEMMA OpenOutcome ==
    ASSUME NEW v, Volume(v), NEW path, NEW mode, NEW cd,
           NEW o \in open(v, path, mode, cd)
    PROVE  Opened(v, path, mode, cd, o)
  <1> USE DEF Opened
  <1> DEFINE l == Loc(path)
             n == IF cd THEN Dir ELSE File(<< >>)
             w == [v EXCEPT ![l] = n]
  <1>1. CASE o = Outcome("PathError", v) /\ ~ Valid(path)
    BY <1>1 DEF Outcome
  <1>2. CASE Valid(path) /\ o = Outcome("IoError", v)
    BY <1>2 DEF Outcome
  <1>3. CASE Valid(path) /\ o = Outcome("ok", v) /\ Exists(v, l)
    BY <1>3, ZenonT(60) DEF Outcome
  <1>4. CASE /\ Valid(path) /\ o = Outcome("ok", w) /\ ~ Exists(v, l)
             /\ mode = "CreateReadWrite" /\ l \in Locs /\ IsDir(v, Folder(l))
    <2>1. n \in {Dir, File(<< >>)}
      OBVIOUS
    <2> HIDE DEF n
    <2>2. Volume(w) /\ SameBut(w, v, l) /\ w[l] = n
      BY <1>4, <2>1, Created, ZenonT(60)
    <2>3. o.st = "ok" /\ o.vol = w
      BY <1>4 DEF Outcome
    <2> QED
      BY <1>4, <2>2, <2>3, ZenonT(60) DEF n
  <1>5. CASE /\ Valid(path) /\ o = Outcome("NotFound", v) /\ ~ Exists(v, l)
             /\ mode = "CreateReadWrite" => l \notin Locs \/ ~ IsDir(v, Folder(l))
    BY <1>5 DEF Outcome
  <1> QED
    BY <1>1, <1>2, <1>3, <1>4, <1>5, ZenonT(60) DEF open, fw_open, Valid

\* try_exists (fs.rs:38) answers for the volume as it is.
LEMMA TryExistsOutcome ==
    ASSUME NEW v, Volume(v), NEW path, NEW st \in try_exists(v, path)
    PROVE  /\ st \in {"true", "false", "IoError", "PathError"}
           /\ st = "true" => Exists(v, Loc(path))
           /\ st = "false" => ~ Exists(v, Loc(path))
           /\ st = "PathError" => ~ Valid(path)
  <1>1. PICK o \in open(v, path, "Read", FALSE) :
            st = IF o.st = "ok" THEN "true" ELSE IF o.st = "NotFound" THEN "false" ELSE o.st
    BY ZenonT(60) DEF try_exists
  <1>2. Opened(v, path, "Read", FALSE, o)
    BY OpenOutcome, ZenonT(60)
  <1> QED
    BY <1>1, <1>2 DEF Opened

Removed(v, path, kind, wrong, o) ==
    /\ o.st \in {"ok", "IoError", "NotFound", "PathError", "panic", "NotEmpty", wrong}
    /\ o.st = "PathError" => ~ Valid(path)
    /\ o.st = "NotFound" => ~ Exists(v, Loc(path))
    /\ o.st = wrong => Exists(v, Loc(path)) /\ v[Loc(path)].kind # kind
    /\ o.st = "NotEmpty" => /\ v[Loc(path)].kind = kind /\ Exists(v, Loc(path))
                            /\ Children(v, Loc(path)) # {} \/ Loc(path) = Root
    /\ o.st # "ok" => o.vol = v
    /\ o.st = "ok" => /\ Loc(path) \in Locs /\ v[Loc(path)].kind = kind
                      /\ SameBut(o.vol, v, Loc(path)) /\ o.vol[Loc(path)] = NoNode
    /\ Volume(o.vol)

\* What remove_file and remove_dir (fs.rs:256, fs.rs:314) do to the volume and what
\* their result means
LEMMA RemoveOutcome ==
    ASSUME NEW v, Volume(v), NEW path,
           NEW kind \in {"file", "dir"}, NEW wrong \in {"NotAFile", "NotADirectory"},
           NEW o \in remove_node(v, path, kind, wrong)
    PROVE  Removed(v, path, kind, wrong, o)
  <1> DEFINE l == Loc(path)
  <1>1. PICK p \in open(v, path, "ReadWrite", FALSE) :
            o \in IF p.st # "ok" THEN {p}
                  ELSE UNION { CASE t = "Err" -> {Outcome("panic", v)}
                                 [] t = kind -> fw_delete(v, l)
                                 [] OTHER -> {Outcome(wrong, v)} :
                               t \in into_type(v, l) }
    BY ZenonT(60) DEF remove_node
  <1>2. Opened(v, path, "ReadWrite", FALSE, p)
    BY OpenOutcome, ZenonT(60)
  <1>3. CASE p.st # "ok"
    <2>1. o = p
      BY <1>1, <1>3
    <2> QED
      BY <1>2, <1>3, <2>1 DEF Opened, Removed
  <1>4. CASE p.st = "ok"
    <2>1. PICK t \in into_type(v, l) :
              o \in CASE t = "Err" -> {Outcome("panic", v)}
                      [] t = kind -> fw_delete(v, l)
                      [] OTHER -> {Outcome(wrong, v)}
      BY <1>1, <1>4
    <2>2. t = "Err" \/ t = v[l].kind
      BY <2>1, ZenonT(60) DEF into_type
    <2>3. l \in AllLocs /\ Exists(v, l)
      BY <1>2, <1>4, ZenonT(60) DEF Exists, Volume, Opened
    <2>4. CASE o = Outcome("panic", v)
      BY <2>4, ZenonT(60) DEF Outcome, Removed
    <2>5. CASE o = Outcome(wrong, v) /\ v[l].kind # kind
      BY <2>3, <2>5 DEF Outcome, Removed
    <2>6. CASE v[l].kind = kind /\ o \in fw_delete(v, l)
      <3>1. CASE o = Outcome("IoError", v)
        BY <3>1, ZenonT(60) DEF Outcome, Removed
      <3>2. CASE o = Outcome("NotEmpty", v) /\ (Children(v, l) # {} \/ l = Root)
        BY <2>3, <2>6, <3>2, ZenonT(60) DEF Outcome, Removed
      <3>3. CASE o = Outcome("ok", [v EXCEPT ![l] = NoNode]) /\ Children(v, l) = {} /\ l # Root
        <4>1. l \in Locs
          BY <2>3, <3>3 DEF AllLocs
        <4> DEFINE w == [v EXCEPT ![l] = NoNode]
        <4>2. o.st = "ok" /\ o.vol = w
          BY <3>3 DEF Outcome
        <4> HIDE DEF l
        <4>3. Volume(w) /\ SameBut(w, v, l) /\ w[l] = NoNode
          BY <3>3, <4>1, Deleted
        <4> QED
          BY <2>6, <4>1, <4>2, <4>3, ZenonT(60) DEF l, Removed
      <3> QED
        BY <2>6, <3>1, <3>2, <3>3, ZenonT(60) DEF fw_delete
    <2> QED
      BY <2>1, <2>2, <2>4, <2>5, <2>6
  <1> QED
    BY <1>3, <1>4

\* The units of a concatenation
LEMMA Concatenated ==
    ASSUME NEW S, NEW a \in Seq(S), NEW b \in Seq(S)
    PROVE  /\ a \o b \in Seq(S) /\ Len(a \o b) = Len(a) + Len(b)
           /\ \A i \in 1 .. Len(a) : (a \o b)[i] = a[i]
           /\ \A i \in Len(a) + 1 .. Len(a) + Len(b) : (a \o b)[i] = b[i - Len(a)]
  OBVIOUS

\* data written over the contents d of a file, unit by unit
LEMMA OverwrittenUnits ==
    ASSUME NEW d \in Datas, NEW pos \in 0 .. Len(d), NEW new \in Datas
    PROVE  LET w == Overwritten(d, pos, new)
           IN  /\ w \in Datas
               /\ Len(w) = IF pos + Len(new) <= Len(d) THEN Len(d) ELSE pos + Len(new)
               /\ \A i \in 1 .. Len(w) :
                     w[i] = IF i <= pos THEN d[i]
                            ELSE IF i <= pos + Len(new) THEN new[i - pos] ELSE d[i]
  <1> DEFINE a == SubSeq(d, 1, pos)
             c == SubSeq(d, pos + Len(new) + 1, Len(d))
             b == a \o new
             w == b \o c
             m == pos + Len(new)
  <1>0. /\ Len(d) \in Nat /\ Len(new) \in Nat /\ m \in Nat /\ pos \in Nat
        /\ d \in Seq(Units) /\ new \in Seq(Units)
    BY DEF Datas
  <1>1. a \in Seq(Units) /\ Len(a) = pos /\ \A i \in 1 .. pos : a[i] = d[i]
    BY <1>0
  <1>2. /\ c \in Seq(Units)
        /\ Len(c) = IF m <= Len(d) THEN Len(d) - m ELSE 0
        /\ \A i \in 1 .. Len(c) : c[i] = d[m + i]
    BY <1>0
  <1>3. Overwritten(d, pos, new) = w
    BY DEF Overwritten
  <1> HIDE DEF a, c
  <1>4. /\ b \in Seq(Units) /\ Len(b) = m
        /\ \A i \in 1 .. pos : b[i] = d[i]
        /\ \A i \in pos + 1 .. m : b[i] = new[i - pos]
    <2> HIDE DEF m
    <2>1. /\ b \in Seq(Units) /\ Len(b) = Len(a) + Len(new)
          /\ \A i \in 1 .. Len(a) : b[i] = a[i]
          /\ \A i \in Len(a) + 1 .. Len(a) + Len(new) : b[i] = new[i - Len(a)]
      <3>1. a \in Seq(Units) /\ new \in Seq(Units)
        BY <1>0, <1>1, ZenonT(60)
      <3> QED
        BY <3>1, Concatenated, ZenonT(60)
    <2>2. m = pos + Len(new)
      BY DEF m
    <2> QED
      BY <1>1, <2>1, <2>2, ZenonT(60)
  <1> HIDE DEF b
  <1>5. /\ w \in Seq(Units) /\ Len(w) = m + Len(c)
        /\ \A i \in 1 .. m : w[i] = b[i]
        /\ \A i \in m + 1 .. m + Len(c) : w[i] = c[i - m]
    <2> HIDE DEF m
    <2>1. b \in Seq(Units) /\ c \in Seq(Units) /\ Len(b) = m
      BY <1>2, <1>4
    <2>2. /\ w \in Seq(Units) /\ Len(w) = Len(b) + Len(c)
          /\ \A i \in 1 .. Len(b) : w[i] = b[i]
          /\ \A i \in Len(b) + 1 .. Len(b) + Len(c) : w[i] = c[i - Len(b)]
      BY <2>1, Concatenated, ZenonT(30)
    <2> QED
      BY <2>1, <2>2, Zenon
  <1> HIDE DEF w, m
  <1>6. Len(w) = IF m <= Len(d) THEN Len(d) ELSE m
    BY <1>0, <1>2, <1>5
  <1>7. ASSUME NEW i \in 1 .. Len(w)
        PROVE  w[i] = IF i <= pos THEN d[i] ELSE IF i <= m THEN new[i - pos] ELSE d[i]
    <2>0. i \in Nat /\ i >= 1 /\ i <= m + Len(c) /\ Len(c) \in Nat
      BY <1>0, <1>2, <1>5
    <2>1. CASE i <= pos
      <3>1. i \in 1 .. m /\ i \in 1 .. pos
        BY <2>0, <2>1, <1>0 DEF m
      <3> QED
        BY <2>1, <3>1, <1>4, <1>5
    <2>2. CASE ~ (i <= pos) /\ i <= m
      <3>1. i \in 1 .. m /\ i \in pos + 1 .. m
        BY <2>0, <2>2, <1>0
      <3> QED
        BY <2>2, <3>1, <1>4, <1>5, ZenonT(60)
    <2>3. CASE ~ (i <= m)
      <3>1. i \in m + 1 .. m + Len(c) /\ i - m \in 1 .. Len(c) /\ m + (i - m) = i
        BY <2>0, <2>3, <1>0
      <3>2. w[i] = c[i - m] /\ c[i - m] = d[m + (i - m)]
        BY <3>1, <1>2, <1>5
      <3>3. ~ (i <= pos)
        BY <2>0, <2>3, <1>0 DEF m
      <3> QED
        BY <2>3, <3>1, <3>2, <3>3
    <2> QED
      BY <2>1, <2>2, <2>3
  <1> QED
    BY <1>3, <1>5, <1>6, <1>7 DEF Datas, m

\* the first n units of t are those of d
Copied(d, t, n) == n <= Len(d) /\ n <= Len(t) /\ \A i \in 1 .. n : t[i] = d[i]

\* A file whose first units are all those of d starts with d, and is d when it is
\* no longer.
LEMMA CopiedAll ==
    ASSUME NEW d \in Datas, NEW t \in Datas, Copied(d, t, Len(d))
    PROVE  StartsWith(t, d) /\ (Len(t) = Len(d) => t = d)
  <1>1. d \in Seq(Units) /\ t \in Seq(Units) /\ Len(d) \in Nat /\ Len(t) \in Nat
    BY DEF Datas
  <1>2. Len(d) <= Len(t) /\ \A i \in 1 .. Len(d) : t[i] = d[i]
    BY DEF Copied
  <1>3. SubSeq(t, 1, Len(d)) = d
    BY <1>1, <1>2
  <1>4. Len(t) = Len(d) => t = d
    BY <1>1, <1>2
  <1> QED
    BY <1>2, <1>3, <1>4 DEF StartsWith

\* What a write through handle h leaves in the file: n units have arrived.
WrittenUnits(v, h, data, o, n) ==
    /\ n \in 0 .. Len(data) /\ (o.st = "ok" => n = Len(data))
    /\ o.vol[h.loc] = File(Overwritten(v[h.loc].data, h.pos, SubSeq(data, 1, n)))
    /\ SubSeq(data, 1, n) \in Datas /\ Len(SubSeq(data, 1, n)) = n
    /\ \A i \in 1 .. n : SubSeq(data, 1, n)[i] = data[i]

\* What RegularFile::write leaves behind: a prefix of the data in place, all of it
\* when it succeeds
LEMMA WriteOutcome ==
    ASSUME NEW v, Volume(v), NEW h, IsFile(v, h.loc), h.pos \in 0 .. Len(v[h.loc].data),
           NEW data \in Datas, NEW o \in fw_write(v, h, data)
    PROVE  /\ o.st \in {"ok", "IoError"} /\ Volume(o.vol) /\ SameBut(o.vol, v, h.loc)
           /\ IsFile(o.vol, h.loc)
           /\ \E n \in 0 .. Len(data) : WrittenUnits(v, h, data, o, n)
  <1> DEFINE New(n) == Overwritten(v[h.loc].data, h.pos, SubSeq(data, 1, n))
             After(n) == [v EXCEPT ![h.loc].data = New(n)]
  <1>0. data \in Seq(Units) /\ Len(data) \in Nat
    BY DEF Datas
  <1>1. fw_write(v, h, data) = {Outcome("ok", After(Len(data)))}
                               \cup {Outcome("IoError", After(n)) : n \in 0 .. Len(data)}
    BY DEF fw_write
  <1> HIDE DEF After
  <1>2. PICK n \in 0 .. Len(data) :
            \/ o = Outcome("ok", After(n)) /\ n = Len(data)
            \/ o = Outcome("IoError", After(n))
    BY <1>0, <1>1
  <1>3. /\ SubSeq(data, 1, n) \in Datas /\ Len(SubSeq(data, 1, n)) = n
        /\ \A i \in 1 .. n : SubSeq(data, 1, n)[i] = data[i]
    BY <1>0 DEF Datas
  <1>4. h.loc \in AllLocs /\ v[h.loc].data \in Datas
    BY NodeKinds DEF IsFile, Volume
  <1> DEFINE d == New(n)
             l == h.loc
             w == [v EXCEPT ![l].data = d]
  <1>5. d \in Datas
    BY <1>3, <1>4, OverwrittenUnits
  <1>6. After(n) = w
    BY DEF After
  <1> HIDE DEF New, d
  <1>7. Volume(w) /\ SameBut(w, v, l) /\ w[l] = File(d)
    <2>1. l \in AllLocs /\ IsFile(v, l)
      BY <1>4
    <2> HIDE DEF l
    <2> QED
      BY <2>1, <1>5, Rewritten, ZenonT(60)
  <1> HIDE DEF w
  <1>8. o.vol = w /\ o.st \in {"ok", "IoError"} /\ (o.st = "ok" => n = Len(data))
    BY <1>2, <1>6 DEF Outcome
  <1>9. IsFile(o.vol, l)
    BY <1>4, <1>7, <1>8 DEF IsFile, Volume, File
  <1>10. WrittenUnits(v, h, data, o, n)
    BY <1>3, <1>7, <1>8 DEF WrittenUnits, New, d
  <1> QED
    BY <1>7, <1>8, <1>9, <1>10

\* The smaller of two numbers
LEMMA MinPair ==
    ASSUME NEW a \in Int, NEW b \in Int
    PROVE  Min({a, b}) = IF a <= b THEN a ELSE b
  <1>1. \E x \in {a, b} : \A y \in {a, b} : x <= y
    OBVIOUS
  <1> QED
    BY <1>1 DEF Min

\* What a read through handle h delivers while units of the data d are left
LEMMA ReadOutcome ==
    ASSUME NEW h, NEW d \in Datas, h.pos \in Nat, h.pos < Len(d),
           h.live => vol[h.loc].data = d, ~ h.live => h.data = d,
           NEW bytes \in fw_read(h)
    PROVE  /\ bytes = << >> => ~ h.live
           /\ bytes \in Datas /\ Len(bytes) \in Nat /\ h.pos + Len(bytes) <= Len(d)
           /\ \A i \in 1 .. Len(bytes) : bytes[i] = d[h.pos + i]
  <1> DEFINE data == IF h.live THEN vol[h.loc].data ELSE h.data
             p == h.pos
             m == Min({p + CHUNK, Len(data)})
             avail == SubSeq(data, p + 1, m)
  <1>0. data = d /\ d \in Seq(Units) /\ Len(d) \in Nat /\ p \in Nat /\ p < Len(d)
    BY DEF Datas
  <1>1. m \in Nat /\ p < m /\ m <= Len(d)
    <2>1. m = IF p + CHUNK <= Len(d) THEN p + CHUNK ELSE Len(d)
      BY <1>0, MinPair, CHUNKAssumption, SMTT(30)
    <2> HIDE DEF m
    <2> QED
      BY <2>1, <1>0, CHUNKAssumption
  <1>2. fw_read(h) = {SubSeq(avail, 1, n) : n \in 1 .. Len(avail)}
                     \cup (IF h.live /\ avail # << >> THEN {} ELSE {<< >>})
    BY DEF fw_read
  <1> HIDE DEF m, p, data
  <1>3. /\ avail \in Seq(Units) /\ Len(avail) = m - p
        /\ \A i \in 1 .. m - p : avail[i] = d[p + i]
    BY <1>0, <1>1
  <1> HIDE DEF avail
  <1>4. avail # << >>
    <2> SUFFICES ASSUME avail = << >> PROVE FALSE
      OBVIOUS
    <2>1. Len(avail) = 0
      OBVIOUS
    <2> QED
      BY <2>1, <1>0, <1>1, <1>3
  <1>5. CASE bytes = << >> /\ ~ h.live
    BY <1>5, <1>0 DEF Datas, p
  <1>6. CASE \E n \in 1 .. m - p : bytes = SubSeq(avail, 1, n)
    <2>1. PICK n \in 1 .. m - p : bytes = SubSeq(avail, 1, n)
      BY <1>6
    <2>2. n \in Nat /\ n >= 1 /\ n <= m - p
      BY <2>1, <1>0, <1>1
    <2>3. /\ bytes \in Seq(Units) /\ Len(bytes) = n
          /\ \A i \in 1 .. n : bytes[i] = avail[i]
      BY <2>1, <2>2, <1>3
    <2>4. \A i \in 1 .. n : i \in 1 .. m - p
      BY <2>2, <1>0, <1>1
    <2>5. \A i \in 1 .. n : bytes[i] = d[p + i]
      BY <2>3, <2>4, <1>3, ZenonT(60)
    <2>6. bytes # << >> /\ p + n <= Len(d)
      BY <2>2, <2>3, <1>0, <1>1
    <2> QED
      BY <2>2, <2>3, <2>5, <2>6 DEF Datas, p
  <1> QED
    BY <1>2, <1>3, <1>4, <1>5, <1>6

-----------------------------------------------------------------------------
(* The inductive invariant *)

Types ==
    /\ Volume(vol) /\ Volume(old)
    /\ flushed \subseteq {l \in Locs : IsFile(vol, l)}
    /\ IsHandle(src) /\ IsHandle(dest)
    /\ call.data \in Datas /\ remaining \in Nat /\ calls \in 0 .. MaxCalls

\* The operation that runs each step
Steps ==
    /\ pc \in {"write", "write_remove", "write_open", "write_data"} => call.op = "write"
    /\ pc \in {"copy", "copy_remove_dest", "copy_open_dest", "copy_read", "copy_write"} => Copies
    /\ pc = "rename_remove" => call.op = "rename"
    /\ pc = "flush" => call.op = "write" \/ Copies
    /\ pc \in {"try_exists", "create_dir", "remove_file", "remove_dir"} => call.op = pc
    /\ pc \in {"create_dir_all", "create_dir_all_test", "create_dir_all_create"}
           => call.op = "create_dir_all"
    /\ pc = "remove_dir_all" => call.op = "remove_dir_all"

\* The operations that reach the volume through the paths of the call alone
Direct == call.op \notin {"create_dir_all", "remove_dir_all"}

Begun ==
    pc \in {"try_exists", "create_dir", "remove_file", "remove_dir", "write", "copy"}
        => vol = old

Writing ==
    /\ pc = "write_remove" => vol = old /\ Exists(vol, From)
    /\ pc = "write_open" => ~ Exists(vol, From) /\ ~ IsDir(old, From) /\ SameBut(vol, old, From)
    /\ pc = "write_data" =>
           /\ IsFile(vol, From) /\ vol[From] = File(<< >>) /\ SameBut(vol, old, From)
           /\ dest.loc = From /\ dest.pos = 0
    /\ pc = "flush" /\ call.op = "write" =>
           /\ From \in Locs /\ vol[From] = File(call.data) /\ SameBut(vol, old, From)
           /\ dest.loc = From

\* copy knows its source: the handle delivers what the file held when the
\* call began, though the file may be gone when it is the destination too.
Source ==
    /\ IsFile(old, From) /\ src.loc = From /\ src.data = old[From].data
    /\ SameBut(vol, old, To)
    /\ src.live => vol[From] = old[From]
    /\ ~ src.live => From = To

\* copy knows its destination: what has been written is what was read, and
\* a new file holds nothing else.
Destination ==
    /\ To \in Locs /\ IsFile(vol, To) /\ dest.loc = To
    /\ Copied(old[From].data, vol[To].data, dest.pos)
    /\ remaining = Len(old[From].data) - dest.pos
    /\ ~ faults \/ ~ src.live => Len(vol[To].data) = dest.pos

Transferred ==
    /\ IsFile(old, From) /\ To \in Locs /\ IsFile(vol, To) /\ SameBut(vol, old, To)
    /\ From = To => vol[To] = old[To]
    /\ Copied(old[From].data, vol[To].data, Len(old[From].data))
    /\ ~ faults => Len(vol[To].data) = Len(old[From].data)

Copying ==
    /\ pc \in {"copy_remove_dest", "copy_open_dest", "copy_read", "copy_write"} => Source
    /\ pc \in {"copy_remove_dest", "copy_open_dest"}
           => src.pos = 0 /\ remaining = Len(old[From].data)
    /\ pc = "copy_remove_dest" => vol = old /\ src.live
    /\ pc = "copy_open_dest" =>
           /\ vol = old \/ (IsFile(old, To) /\ vol[To] = NoNode)
           /\ (~ faults /\ Valid(call.to)) \/ ~ src.live => ~ IsFile(vol, To)
    /\ pc \in {"copy_read", "copy_write"} => Destination
    /\ pc = "copy_read" => src.pos = dest.pos
    /\ pc = "copy_write" =>
           /\ chunk \in Datas /\ src.pos = dest.pos + Len(chunk)
           /\ src.pos <= Len(old[From].data)
           /\ \A i \in 1 .. Len(chunk) : chunk[i] = old[From].data[dest.pos + i]
    /\ pc = "flush" /\ Copies => Transferred /\ dest.loc = To
    /\ pc = "rename_remove" => Transferred /\ To \in flushed

\* What holds of the volume and of the result at every step
Confined ==
    Direct => \A l \in AllLocs \ Footprint : vol[l] = old[l]

Results ==
    /\ Direct => ResultTrue
    /\ pc = "panicked" => faults

IInv == Types /\ Steps /\ Begun /\ Writing /\ Copying /\ Confined /\ Results /\ DataSurvives

-----------------------------------------------------------------------------
(* Steps that end the call *)

\* The handle a return leaves behind is well formed.
LEMMA ClosedHandle == IsHandle(NoHandle)
  BY DEF IsHandle, NoHandle, AllLocs

\* The code's argument for each return: what it owes the caller
LEMMA Ended ==
    ASSUME IInv, NEW st, Return(st), UNCHANGED control, Volume(vol'),
           flushed' \subseteq {l \in Locs : IsFile(vol', l)},
           Confined', DataSurvives',
           st = "panic" => faults',
           Direct /\ st = "ok" => OkEffect',
           Direct /\ st \notin {"ok", "true", "false"} => faults' \/ Reason
    PROVE  IInv'
  <1>1. /\ pc' = IF st = "panic" THEN "panicked" ELSE "idle"
        /\ res' = st /\ src' = NoHandle /\ dest' = NoHandle /\ remaining' = 0
        /\ call' = call /\ old' = old /\ calls' = calls
    BY ZenonT(60) DEF Return, control
  <1>2. Types'
    BY <1>1, ClosedHandle, ZenonT(60) DEF IInv, Types
  <1>3. Steps' /\ Begun' /\ Writing' /\ Copying'
    BY <1>1, ZenonT(60) DEF Steps, Begun, Writing, Copying
  <1>4. Reason => Reason'
    BY <1>1 DEF Reason, Copies, From, To, NoRoomFor, Valid
  <1>5. Direct' = Direct
    BY <1>1 DEF Direct
  <1>6. Results'
    BY <1>1, <1>4, <1>5, ZenonT(60) DEF Results, ResultTrue, Returned
  <1> QED
    BY <1>2, <1>3, <1>6, ZenonT(60) DEF IInv

\* An error that leaves the volume as it is
LEMMA EndedUnchanged ==
    ASSUME IInv, NEW st, Return(st), UNCHANGED <<vol, control>>, flushed' = flushed,
           st = "panic" => faults',
           Direct => st # "ok",
           Direct /\ st \notin {"true", "false"} => faults' \/ Reason
    PROVE  IInv'
  <1>1. vol' = vol /\ call' = call /\ old' = old
    BY DEF control
  <1>2. Volume(vol') /\ flushed' \subseteq {l \in Locs : IsFile(vol', l)}
    BY <1>1 DEF IInv, Types
  <1>3. Confined'
    BY <1>1, ZenonT(60) DEF IInv, Confined, Direct, Footprint, Copies, From, To
  <1>4. DataSurvives'
    BY <1>1 DEF IInv, DataSurvives, From, To
  <1> QED
    BY <1>2, <1>3, <1>4, Ended

\* An outcome that leaves the volume as it is leaves the flushed files too.
LEMMA AppliedUnchanged ==
    ASSUME Types, NEW o, Apply(o), o.vol = vol
    PROVE  vol' = vol /\ flushed' = flushed
  BY DEF Types, Apply

\* A firmware effect keeps the flushed files among the files.
LEMMA AppliedFlushed ==
    ASSUME Types, NEW o, Apply(o)
    PROVE  vol' = o.vol /\ flushed' \subseteq {l \in Locs : IsFile(vol', l)}
  BY DEF Types, Apply

\* The operations on one path change the node at that path alone.
LEMMA ConfinedToFrom ==
    ASSUME call.op \in {"write", "create_dir", "remove_file", "remove_dir"},
           UNCHANGED control, SameBut(vol', old, From)
    PROVE  Confined'
  BY ZenonT(60) DEF Confined, Footprint, SameBut, Copies, From, control

\* Only rename and write replace data.
LEMMA NoDataAtStake ==
    ASSUME call.op \notin {"rename", "write"}, UNCHANGED control
    PROVE  DataSurvives'
  BY DEF DataSurvives, control

-----------------------------------------------------------------------------
(* try_exists, create_dir, remove_file, remove_dir *)

\* try_exists (fs.rs:38) preserves the invariant: it changes nothing.
LEMMA TryExistsStep == IInv /\ try_exists_call => IInv'
  <1> SUFFICES ASSUME IInv, try_exists_call PROVE IInv'
    OBVIOUS
  <1>1. PICK st \in try_exists(vol, call.path) : SameVolume(st) /\ Return(st)
    BY DEF try_exists_call
  <1>2. Volume(vol) /\ UNCHANGED control
    BY DEF IInv, Types, try_exists_call
  <1>3. st \in {"true", "false", "IoError", "PathError"} /\ (st = "PathError" => ~ Valid(call.path))
    BY <1>2, TryExistsOutcome
  <1>4. vol' = vol /\ flushed' = flushed /\ (st = "IoError" => faults')
    BY <1>1, ZenonT(60) DEF SameVolume, Faulty
  <1>5. st \notin {"true", "false"} => faults' \/ Reason
    BY <1>3, <1>4 DEF Reason
  <1> QED
    BY <1>1, <1>2, <1>3, <1>4, <1>5, EndedUnchanged

\* create_dir (fs.rs:149) preserves it: a directory is there, or nothing changed.
LEMMA CreateDirStep == IInv /\ create_dir_call => IInv'
  <1> SUFFICES ASSUME IInv, create_dir_call PROVE IInv'
    OBVIOUS
  <1>1. PICK o \in open(vol, call.path, "CreateReadWrite", TRUE) : Apply(o) /\ Return(o.st)
    BY ZenonT(60) DEF create_dir_call, OneStep, create_dir
  <1>2. /\ Types /\ Volume(vol) /\ UNCHANGED control /\ vol = old /\ call.op = "create_dir"
        /\ call' = call /\ old' = old
    BY DEF IInv, Types, create_dir_call, OneStep, Begun, Steps, control
  <1>3. Opened(vol, call.path, "CreateReadWrite", TRUE, o)
    BY <1>2, OpenOutcome, ZenonT(60)
  <1>4. vol' = o.vol /\ (Faulty(o.st) => faults')
    BY <1>1, ZenonT(60) DEF Apply
  <1>5. CASE o.st # "ok"
    <2>1. vol' = vol /\ flushed' = flushed
      BY <1>1, <1>2, <1>3, <1>5, AppliedUnchanged DEF Opened
    <2>2. o.st # "panic" /\ (faults' \/ Reason)
      BY <1>2, <1>3, <1>4, <1>5, ZenonT(60) DEF Opened, Reason, Faulty, NoRoomFor, From
    <2> QED
      BY <1>1, <1>2, <1>5, <2>1, <2>2, EndedUnchanged
  <1>6. CASE o.st = "ok"
    <2>1. Volume(vol') /\ SameBut(vol', old, From)
      BY <1>2, <1>3, <1>4, <1>6 DEF Opened, SameBut, From
    <2>2. OkEffect'
      BY <1>2, <1>3, <1>4, <1>6, ZenonT(60) DEF Opened, OkEffect, From, Copies
    <2>3. flushed' \subseteq {l \in Locs : IsFile(vol', l)}
      BY <1>1, <1>2, AppliedFlushed, ZenonT(60)
    <2>4. Confined' /\ DataSurvives'
      BY <1>2, <2>1, ConfinedToFrom, NoDataAtStake, ZenonT(60)
    <2> QED
      BY <1>1, <1>2, <1>6, <2>1, <2>2, <2>3, <2>4, Ended, ZenonT(60)
  <1> QED
    BY <1>5, <1>6

\* remove_file (fs.rs:314) preserves it: the file is gone, or nothing changed.
LEMMA RemoveFileStep == IInv /\ remove_file_call => IInv'
  <1> SUFFICES ASSUME IInv, remove_file_call PROVE IInv'
    OBVIOUS
  <1>1. PICK o \in remove_node(vol, call.path, "file", "NotAFile") : Apply(o) /\ Return(o.st)
    BY ZenonT(60) DEF remove_file_call, OneStep, remove_file
  <1>2. /\ Types /\ Volume(vol) /\ UNCHANGED control /\ vol = old /\ call.op = "remove_file"
        /\ call' = call /\ old' = old
    BY DEF IInv, Types, remove_file_call, OneStep, Begun, Steps, control
  <1>3. Removed(vol, call.path, "file", "NotAFile", o)
    BY <1>2, RemoveOutcome, ZenonT(60)
  <1>4. vol' = o.vol /\ (Faulty(o.st) => faults')
    BY <1>1, ZenonT(60) DEF Apply
  <1>5. CASE o.st # "ok"
    <2>1. vol' = vol /\ flushed' = flushed
      BY <1>1, <1>2, <1>3, <1>5, AppliedUnchanged DEF Removed
    <2>2. o.st = "NotEmpty" => FALSE
      BY <1>2, <1>3, FilesChildless, ZenonT(60) DEF Removed, IsFile, Exists
    <2>3. (o.st = "panic" => faults') /\ (faults' \/ Reason)
      BY <1>2, <1>3, <1>4, <1>5, <2>2, ZenonT(60) DEF Removed, Reason, Faulty, IsFile, Exists, From
    <2> QED
      BY <1>1, <1>2, <1>5, <2>1, <2>3, EndedUnchanged, SMTT(30)
  <1>6. CASE o.st = "ok"
    <2>1. Volume(vol') /\ SameBut(vol', old, From) /\ vol'[From] = NoNode
      BY <1>2, <1>3, <1>4, <1>6, ZenonT(60) DEF Removed, From
    <2>2. From \in DOMAIN old /\ old[From].kind = "file"
      BY <1>2, <1>3, <1>6, ZenonT(60) DEF Removed, From, Volume, AllLocs
    <2>3. OkEffect'
      BY <1>2, <2>1, <2>2 DEF OkEffect, From, Copies, IsFile, Exists, NoNode
    <2>4. flushed' \subseteq {l \in Locs : IsFile(vol', l)}
      BY <1>1, <1>2, AppliedFlushed, ZenonT(60)
    <2>5. Confined' /\ DataSurvives'
      BY <1>2, <2>1, ConfinedToFrom, NoDataAtStake, ZenonT(60)
    <2> QED
      BY <1>1, <1>2, <1>6, <2>1, <2>3, <2>4, <2>5, Ended, ZenonT(60)
  <1> QED
    BY <1>5, <1>6

\* remove_dir (fs.rs:256) preserves it: the directory is gone, or nothing changed.
LEMMA RemoveDirStep == IInv /\ remove_dir_call => IInv'
  <1> SUFFICES ASSUME IInv, remove_dir_call PROVE IInv'
    OBVIOUS
  <1>1. PICK o \in remove_node(vol, call.path, "dir", "NotADirectory") : Apply(o) /\ Return(o.st)
    BY ZenonT(60) DEF remove_dir_call, OneStep, remove_dir
  <1>2. /\ Types /\ Volume(vol) /\ UNCHANGED control /\ vol = old /\ call.op = "remove_dir"
        /\ call' = call /\ old' = old
    BY ZenonT(60) DEF IInv, Types, remove_dir_call, OneStep, Begun, Steps, control
  <1>3. Removed(vol, call.path, "dir", "NotADirectory", o)
    BY <1>2, RemoveOutcome, ZenonT(60)
  <1>4. vol' = o.vol /\ (Faulty(o.st) => faults')
    BY <1>1, ZenonT(60) DEF Apply
  <1>5. CASE o.st # "ok"
    <2>1. vol' = vol /\ flushed' = flushed
      BY <1>1, <1>2, <1>3, <1>5, AppliedUnchanged, ZenonT(60) DEF Removed
    <2>2. (o.st = "panic" => faults') /\ (faults' \/ Reason)
      BY <1>2, <1>3, <1>4, <1>5, ZenonT(60) DEF Removed, Reason, Faulty, IsDir, Exists, From
    <2> QED
      BY <1>1, <1>2, <1>5, <2>1, <2>2, EndedUnchanged
  <1>6. CASE o.st = "ok"
    <2>1. Volume(vol') /\ SameBut(vol', old, From) /\ vol'[From] = NoNode
      BY <1>2, <1>3, <1>4, <1>6, ZenonT(60) DEF Removed, From
    <2>2. From \in DOMAIN old /\ old[From].kind = "dir"
      BY <1>2, <1>3, <1>6, ZenonT(60) DEF Removed, From, Volume, AllLocs
    <2>3. OkEffect'
      BY <1>2, <2>1, <2>2 DEF OkEffect, From, Copies, IsDir, Exists, NoNode
    <2>4. flushed' \subseteq {l \in Locs : IsFile(vol', l)}
      BY <1>1, <1>2, AppliedFlushed, ZenonT(60)
    <2>5. Confined' /\ DataSurvives'
      BY <1>2, <2>1, ConfinedToFrom, NoDataAtStake, ZenonT(60)
    <2> QED
      BY <1>1, <1>2, <1>6, <2>1, <2>3, <2>4, <2>5, Ended, ZenonT(60)
  <1> QED
    BY <1>5, <1>6, ZenonT(60)

-----------------------------------------------------------------------------
(* write *)

\* A step to another step of the call returns nothing.
LEMMA Moved ==
    ASSUME Types', Steps', Begun', Writing', Copying', Confined', DataSurvives',
           pc' \notin {"idle", "panicked"}
    PROVE  IInv'
  BY DEF IInv, Results, ResultTrue, Returned

\* What write changes, it changes at its path.
LEMMA WriteMoved ==
    ASSUME Types', Writing', call.op = "write", UNCHANGED control,
           pc' \in {"write_remove", "write_open", "write_data", "flush"},
           SameBut(vol', old, From), DataSurvives'
    PROVE  IInv'
  <1>1. call' = call /\ call'.op = "write"
    BY ZenonT(60) DEF control
  <1>2. Steps' /\ Begun' /\ Copying'
    BY <1>1, ZenonT(60) DEF Steps, Begun, Copying, Copies
  <1>3. Confined'
    BY ConfinedToFrom
  <1> QED
    BY <1>2, <1>3, Moved, ZenonT(60)

\* The existence check of write (fs.rs:354) preserves it: it changes nothing.
LEMMA WriteExistsStep == IInv /\ write_exists => IInv'
  <1> SUFFICES ASSUME IInv, write_exists PROVE IInv'
    OBVIOUS
  <1>1. PICK st \in try_exists(vol, call.path) :
          /\ SameVolume(st)
          /\ CASE st = "true" -> Goto("write_remove")
               [] st = "false" -> Goto("write_open")
               [] OTHER -> Return(st)
    BY DEF write_exists
  <1>2. /\ Types /\ Volume(vol) /\ UNCHANGED control /\ vol = old /\ call.op = "write"
        /\ call' = call /\ old' = old
    BY ZenonT(60) DEF IInv, Types, write_exists, Begun, Steps, control
  <1>3. /\ st \in {"true", "false", "IoError", "PathError"}
        /\ st = "true" => Exists(vol, From)
        /\ st = "false" => ~ Exists(vol, From)
        /\ st = "PathError" => ~ Valid(call.path)
    BY <1>2, TryExistsOutcome DEF From
  <1>4. vol' = vol /\ flushed' = flushed /\ (st = "IoError" => faults')
    BY <1>1, ZenonT(60) DEF SameVolume, Faulty
  <1>5. CASE st \in {"true", "false"}
    <2>1. /\ pc' = IF st = "true" THEN "write_remove" ELSE "write_open"
          /\ UNCHANGED <<src, dest, chunk, remaining>>
      BY <1>1, <1>5 DEF Goto, handles
    <2>2. Types'
      BY <1>2, <1>4, <2>1, SMTT(30) DEF Types, control
    <2>3. Writing'
      BY <1>2, <1>3, <1>4, <1>5, <2>1, SMTT(30) DEF Writing, From, SameBut, Exists, IsDir
    <2>4. SameBut(vol', old, From) /\ DataSurvives'
      BY <1>2, <1>4, ZenonT(60) DEF SameBut, DataSurvives
    <2> QED
      BY <1>2, <2>1, <2>2, <2>3, <2>4, WriteMoved
  <1>6. CASE st \notin {"true", "false"}
    <2>1. Return(st) /\ st \notin {"ok", "panic"}
      BY <1>1, <1>3, <1>6, ZenonT(60)
    <2>2. faults' \/ Reason
      BY <1>3, <1>4, <1>6, ZenonT(60) DEF Reason
    <2> QED
      BY <1>2, <1>4, <2>1, <2>2, EndedUnchanged, ZenonT(60)
  <1> QED
    BY <1>5, <1>6

\* The removal of the old file in write preserves it: from here the old contents
\* are gone.
LEMMA WriteRemoveStep == IInv /\ write_remove => IInv'
  <1> SUFFICES ASSUME IInv, write_remove PROVE IInv'
    OBVIOUS
  <1>1. PICK o \in remove_node(vol, call.path, "file", "NotAFile") :
            Apply(o) /\ IF o.st = "ok" THEN Goto("write_open") ELSE Return(o.st)
    BY ZenonT(60) DEF write_remove, remove_file
  <1>2. /\ Types /\ Volume(vol) /\ UNCHANGED control /\ vol = old /\ Exists(vol, From)
        /\ call' = call /\ old' = old /\ call.op = "write"
    BY DEF IInv, Types, write_remove, Writing, Steps, control
  <1>3. Removed(vol, call.path, "file", "NotAFile", o)
    BY <1>2, RemoveOutcome, ZenonT(60)
  <1>4. vol' = o.vol /\ (Faulty(o.st) => faults')
    BY <1>1, ZenonT(60) DEF Apply
  <1>5. CASE o.st = "ok"
    <2>1. pc' = "write_open" /\ UNCHANGED <<src, dest, chunk, remaining>>
      BY <1>1, <1>5, SMTT(30) DEF Goto, handles
    <2>2. Volume(vol') /\ SameBut(vol', old, From) /\ vol'[From] = NoNode /\ old[From].kind = "file"
      BY <1>2, <1>3, <1>4, <1>5 DEF Removed, From
    <2>3. flushed' \subseteq {l \in Locs : IsFile(vol', l)}
      BY <1>1, <1>2, AppliedFlushed, ZenonT(60)
    <2>4. Types'
      BY <1>2, <2>1, <2>2, <2>3, ZenonT(60) DEF Types, control
    <2>5. Writing'
      BY <1>2, <2>1, <2>2, NotFiles, ZenonT(60) DEF Writing, From, Exists, IsDir
    <2>6. DataSurvives'
      BY <1>2, <2>2, ZenonT(60) DEF DataSurvives, From
    <2> QED
      BY <1>2, <2>1, <2>2, <2>4, <2>5, <2>6, WriteMoved, SMTT(30)
  <1>6. CASE o.st # "ok"
    <2>1. vol' = vol /\ flushed' = flushed /\ Return(o.st)
      BY <1>1, <1>2, <1>3, <1>6, AppliedUnchanged, ZenonT(60) DEF Removed
    <2>2. o.st = "NotEmpty" => FALSE
      BY <1>2, <1>3, FilesChildless, ZenonT(60) DEF Removed, IsFile, Exists
    <2>3. o.st = "NotAFile" => IsDir(old, From)
      BY <1>2, <1>3, NodeKinds, ZenonT(60) DEF Removed, IsDir, Exists, From, Volume
    <2>4. (o.st = "panic" => faults') /\ (faults' \/ Reason)
      BY <1>2, <1>3, <1>4, <1>6, <2>2, <2>3, ZenonT(60) DEF Removed, Reason, Faulty, From
    <2> QED
      BY <1>2, <1>6, <2>1, <2>4, EndedUnchanged, ZenonT(60)
  <1> QED
    BY <1>5, <1>6, ZenonT(60)

\* Every contents starts with the empty one.
LEMMA EmptyPrefix ==
    ASSUME NEW d \in Datas
    PROVE  StartsWith(d, << >>)
  <1>1. d \in Seq(Units) /\ Len(d) \in Nat /\ Len(<< >>) = 0
    BY DEF Datas
  <1>2. SubSeq(d, 1, 0) = << >>
    BY <1>1
  <1> QED
    BY <1>1, <1>2 DEF StartsWith

\* A file created where nothing was leaves every other file a file.
LEMMA FilesStay ==
    ASSUME NEW v, Volume(v), NEW w, Volume(w), NEW l, SameBut(w, v, l),
           ~ IsFile(v, l) \/ IsFile(w, l)
    PROVE  \A k : IsFile(v, k) => IsFile(w, k)
  BY DEF Volume, SameBut, IsFile

\* The opening of the new file in write preserves it: the file is there and empty.
LEMMA WriteOpenStep == IInv /\ write_open => IInv'
  <1> SUFFICES ASSUME IInv, write_open PROVE IInv'
    OBVIOUS
  <1>1. PICK o \in open(vol, call.path, "CreateReadWrite", FALSE) :
          IF o.st # "ok" THEN Apply(o) /\ Return(o.st)
          ELSE \E t \in into_type(o.vol, From) :
                 IF t = "file"
                 THEN /\ Apply(o)
                      /\ dest' = Handle(o.vol, From)
                      /\ pc' = "write_data"
                      /\ UNCHANGED <<src, chunk, remaining, dirs, stack, res>>
                 ELSE /\ vol' = o.vol /\ UNCHANGED flushed
                      /\ faults' = (faults \/ t = "Err")
                      /\ Return("panic")
    BY ZenonT(60) DEF write_open, From
  <1>2. /\ Types /\ Volume(vol) /\ UNCHANGED control /\ SameBut(vol, old, From)
        /\ ~ Exists(vol, From) /\ ~ IsDir(old, From) /\ Volume(old)
        /\ call' = call /\ old' = old /\ call.op = "write" /\ call.data \in Datas
    BY ZenonT(60) DEF IInv, Types, write_open, Writing, Steps, control
  <1>3. Opened(vol, call.path, "CreateReadWrite", FALSE, o)
    BY <1>2, OpenOutcome, ZenonT(60)
  <1>4. CASE o.st # "ok"
    <2>1. vol' = vol /\ flushed' = flushed /\ Return(o.st) /\ (Faulty(o.st) => faults')
      BY <1>1, <1>2, <1>3, <1>4, AppliedUnchanged, ZenonT(60) DEF Opened, Apply
    <2>2. \A k : IsDir(old, k) => IsDir(vol, k)
      BY <1>2, ZenonT(60) DEF IsDir, SameBut, Volume
    <2>3. o.st # "panic" /\ (faults' \/ Reason)
      BY <1>2, <1>3, <1>4, <2>1, <2>2, ZenonT(60) DEF Opened, Reason, Faulty, From, NoRoomFor
    <2> QED
      BY <1>2, <1>4, <2>1, <2>3, EndedUnchanged
  <1>5. CASE o.st = "ok"
    <2>1. /\ From \in Locs /\ SameBut(o.vol, vol, From) /\ o.vol[From] = File(<< >>)
          /\ Volume(o.vol) /\ SameBut(o.vol, old, From)
      BY <1>2, <1>3, <1>5, ZenonT(60) DEF Opened, From, SameBut
    <2>2. IsFile(o.vol, From) /\ o.vol[From].kind = "file" /\ o.vol[From].data = << >>
      BY <2>1, FileFields, ZenonT(60) DEF IsFile, Volume, AllLocs
    <2>3. DataSurvives' \/ vol' # o.vol
      BY <1>2, <2>2, EmptyPrefix, ZenonT(60) DEF DataSurvives, From
    <2>4. PICK t \in into_type(o.vol, From) :
             IF t = "file"
             THEN /\ Apply(o)
                  /\ dest' = Handle(o.vol, From)
                  /\ pc' = "write_data"
                  /\ UNCHANGED <<src, chunk, remaining, dirs, stack, res>>
             ELSE /\ vol' = o.vol /\ UNCHANGED flushed
                  /\ faults' = (faults \/ t = "Err")
                  /\ Return("panic")
      BY <1>1, <1>5, ZenonT(60)
    <2>5. CASE t = "file"
      <3>1. vol' = o.vol /\ flushed' \subseteq {l \in Locs : IsFile(vol', l)}
        BY <1>2, <2>4, <2>5, AppliedFlushed, ZenonT(60)
      <3>2. IsHandle(dest') /\ dest'.loc = From /\ dest'.pos = 0
        <4>1. From \in AllLocs /\ 0 \in Nat
          BY <2>1 DEF AllLocs
        <4>2. dest' = Handle(o.vol, From)
          BY <2>4, <2>5, ZenonT(60)
        <4> QED
          BY <4>1, <4>2, ZenonT(60) DEF Handle, IsHandle
      <3>3. Types'
        BY <1>2, <2>1, <2>4, <2>5, <3>1, <3>2, ZenonT(60) DEF Types, control
      <3>4. Writing'
        BY <1>2, <2>1, <2>2, <2>4, <2>5, <3>1, <3>2, ZenonT(60) DEF Writing, From
      <3> QED
        BY <1>2, <2>1, <2>3, <2>4, <2>5, <3>1, <3>3, <3>4, WriteMoved, ZenonT(60)
    <2>6. CASE t # "file"
      <3>1. vol' = o.vol /\ flushed' = flushed /\ Return("panic") /\ faults'
        BY <2>2, <2>4, <2>6, ZenonT(60) DEF into_type
      <3>2. flushed' \subseteq {l \in Locs : IsFile(vol', l)}
        BY <1>2, <2>1, <2>2, <3>1, FilesStay, SMTT(30) DEF Types
      <3>3. Confined'
        BY <1>2, <2>1, <3>1, ConfinedToFrom, ZenonT(60)
      <3> QED
        BY <1>2, <2>1, <2>3, <3>1, <3>2, <3>3, Ended, ZenonT(60)
    <2> QED
      BY <2>5, <2>6, ZenonT(60)
  <1> QED
    BY <1>4, <1>5, ZenonT(60)

\* Data written into an empty file: a prefix of what was to be written
LEMMA FreshUnits ==
    ASSUME NEW d \in Datas, NEW n \in 0 .. Len(d), NEW s \in Datas, Len(s) = n,
           \A i \in 1 .. n : s[i] = d[i]
    PROVE  LET w == Overwritten(<< >>, 0, s)
           IN  w \in Datas /\ StartsWith(d, w) /\ (n = Len(d) => w = d)
  <1> DEFINE w == Overwritten(<< >>, 0, s)
  <1>1. /\ << >> \in Datas /\ Len(<< >>) = 0 /\ 0 \in 0 .. Len(<< >>)
        /\ n \in Nat /\ n <= Len(d) /\ Len(d) \in Nat
    BY DEF Datas
  <1>2. /\ w \in Datas
        /\ Len(w) = IF 0 + Len(s) <= Len(<< >>) THEN Len(<< >>) ELSE 0 + Len(s)
        /\ \A i \in 1 .. Len(w) :
              w[i] = IF i <= 0 THEN << >>[i] ELSE IF i <= 0 + Len(s) THEN s[i - 0] ELSE << >>[i]
    BY <1>1, OverwrittenUnits
  <1> HIDE DEF w
  <1>3. Len(w) = n
    BY <1>1, <1>2
  <1>4. \A i \in 1 .. n : w[i] = d[i]
    BY <1>1, <1>2, <1>3
  <1>5. SubSeq(d, 1, n) = w
    BY <1>1, <1>2, <1>3, <1>4 DEF Datas
  <1>6. n = Len(d) => w = d
    BY <1>1, <1>2, <1>3, <1>4 DEF Datas
  <1> QED
    BY <1>1, <1>2, <1>3, <1>5, <1>6, ZenonT(60) DEF StartsWith, w

\* A write keeps the flushed files among the files.
LEMMA WrittenFlushed ==
    ASSUME Types, NEW o, Written(o), Volume(o.vol), SameBut(o.vol, vol, dest.loc)
    PROVE  vol' = o.vol /\ flushed' \subseteq {l \in Locs : IsFile(vol', l)}
  BY DEF Types, Written, SameBut, IsFile, Volume, AllLocs

\* The writing of the data in write preserves it: a prefix is in the file.
LEMMA WriteDataStep == IInv /\ write_data => IInv'
  <1> SUFFICES ASSUME IInv, write_data PROVE IInv'
    OBVIOUS
  <1>1. PICK o \in fw_write(vol, dest, call.data) :
            Written(o) /\ IF o.st = "ok" THEN Goto("flush") ELSE Return(o.st)
    BY ZenonT(60) DEF write_data
  <1>2. /\ Types /\ Volume(vol) /\ Volume(old) /\ UNCHANGED control /\ SameBut(vol, old, From)
        /\ call' = call /\ old' = old /\ call.op = "write" /\ call.data \in Datas
    BY ZenonT(60) DEF IInv, Types, write_data, Writing, Steps, control
  <1>3. /\ IsFile(vol, From) /\ vol[From] = File(<< >>) /\ dest.loc = From /\ dest.pos = 0
        /\ vol[From].data = << >>
    BY DEF IInv, write_data, Writing, File
  <1>4. dest.pos \in 0 .. Len(vol[dest.loc].data)
    BY <1>3, EmptyData, ZenonT(60)
  <1>5. /\ o.st \in {"ok", "IoError"} /\ Volume(o.vol) /\ SameBut(o.vol, vol, dest.loc)
        /\ IsFile(o.vol, dest.loc)
        /\ \E n \in 0 .. Len(call.data) : WrittenUnits(vol, dest, call.data, o, n)
    BY <1>2, <1>3, <1>4, WriteOutcome, ZenonT(60)
  <1>6. PICK n \in 0 .. Len(call.data) : WrittenUnits(vol, dest, call.data, o, n)
    BY <1>5, ZenonT(60)
  <1> DEFINE w == Overwritten(<< >>, 0, SubSeq(call.data, 1, n))
  <1>7. w \in Datas /\ StartsWith(call.data, w) /\ (n = Len(call.data) => w = call.data)
    BY <1>2, <1>6, FreshUnits, ZenonT(60) DEF WrittenUnits
  <1>8. o.vol[From] = File(w) /\ (o.st = "ok" => o.vol[From] = File(call.data))
    BY <1>3, <1>6, <1>7 DEF WrittenUnits
  <1> HIDE DEF w
  <1>9. vol' = o.vol /\ flushed' \subseteq {l \in Locs : IsFile(vol', l)}
    BY <1>1, <1>2, <1>5, WrittenFlushed, SMTT(30)
  <1>10. DataSurvives'
    <2>1. vol'[From].data = w
      BY <1>8, <1>9, FileFields, ZenonT(60)
    <2>2. IsFile(vol', From) /\ StartsWith(call.data, vol'[From].data)
      BY <1>3, <1>5, <1>7, <1>9, <2>1, ZenonT(60)
    <2> QED
      BY <1>2, <2>2 DEF DataSurvives, From
  <1>11. SameBut(vol', old, From) /\ Volume(vol')
    BY <1>2, <1>3, <1>5, <1>9, ZenonT(60) DEF SameBut
  <1>12. CASE o.st = "ok"
    <2>1. pc' = "flush" /\ UNCHANGED <<src, dest, chunk, remaining>>
      BY <1>1, <1>12, ZenonT(60) DEF Goto, handles
    <2>2. Types'
      BY <1>2, <1>9, <1>11, <2>1, ZenonT(60) DEF Types, control
    <2>3. From \in Locs
      BY <1>2, <1>3, FilesChildless, ZenonT(60)
    <2>4. Writing'
      BY <1>2, <1>3, <1>8, <1>9, <1>11, <1>12, <2>1, <2>3, ZenonT(60) DEF Writing, From
    <2> QED
      BY <1>2, <1>10, <1>11, <2>1, <2>2, <2>4, WriteMoved, ZenonT(60)
  <1>13. CASE o.st # "ok"
    <2>1. Return(o.st) /\ o.st = "IoError" /\ faults'
      BY <1>1, <1>5, <1>13, ZenonT(60) DEF Written, Faulty
    <2>2. Confined'
      BY <1>2, <1>11, ConfinedToFrom
    <2> QED
      BY <1>2, <1>9, <1>10, <1>11, <2>1, <2>2, Ended, ZenonT(60)
  <1> QED
    BY <1>12, <1>13, ZenonT(60)

-----------------------------------------------------------------------------
(* copy and rename *)

\* Until rename removes its source, copy and rename change the destination
\* alone, and they have checked the source before.
LEMMA CopyConfined ==
    ASSUME Copies, UNCHANGED control, IsFile(old, From), SameBut(vol', old, To),
           Volume(old)
    PROVE  Confined' /\ DataSurvives'
  <1>1. call' = call /\ old' = old /\ From \in AllLocs
    BY DEF control, IsFile, Volume
  <1>2. Confined'
    BY <1>1, SMTT(30) DEF Confined, Footprint, SameBut, Copies, From, To, Direct
  <1>3. DataSurvives'
    BY <1>1 DEF DataSurvives, SameBut, Copies, From, To
  <1> QED
    BY <1>2, <1>3

\* A step within copy keeps everything else once it keeps Types and Copying.
LEMMA CopyMoved ==
    ASSUME Types', Copying', Copies, UNCHANGED control, Volume(old),
           pc' \in {"copy_remove_dest", "copy_open_dest", "copy_read", "copy_write", "flush"},
           IsFile(old, From), SameBut(vol', old, To)
    PROVE  IInv'
  <1>1. call' = call /\ Copies'
    BY ZenonT(60) DEF control, Copies
  <1>2. Steps' /\ Begun' /\ Writing'
    BY <1>1, ZenonT(60) DEF Steps, Begun, Writing, Copies
  <1>3. Confined' /\ DataSurvives'
    BY CopyConfined, ZenonT(60)
  <1> QED
    BY <1>2, <1>3, Moved, ZenonT(60)

\* The opening of the source in copy preserves the invariant: the source is a file.
LEMMA CopyOpenSrcStep == IInv /\ copy_open_src => IInv'
  <1> SUFFICES ASSUME IInv, copy_open_src PROVE IInv'
    OBVIOUS
  <1>1. PICK o \in open(vol, call.path, "Read", FALSE) :
          IF o.st # "ok" THEN SameVolume(o.st) /\ Return(o.st)
          ELSE \E t \in into_type(vol, From) : \E info \in {"ok", "IoError"} :
                 CASE t = "file" /\ info = "ok" ->
                        /\ SameVolume("ok")
                        /\ src' = Handle(vol, From)
                        /\ remaining' = Len(vol[From].data)
                        /\ pc' = "copy_remove_dest"
                        /\ UNCHANGED <<dest, chunk, dirs, stack, res>>
                   [] t = "file" /\ info # "ok" -> SameVolume(info) /\ Return(info)
                   [] t = "dir" -> SameVolume("ok") /\ Return("NotAFile")
                   [] t = "Err" -> SameVolume("IoError") /\ Return("NotAFile")
    BY ZenonT(60) DEF copy_open_src, From
  <1>2. /\ Types /\ Volume(vol) /\ UNCHANGED control /\ vol = old /\ Copies
        /\ call' = call /\ old' = old
    BY DEF IInv, Types, copy_open_src, Begun, Steps, control
  <1>3. Opened(vol, call.path, "Read", FALSE, o)
    BY <1>2, OpenOutcome, ZenonT(60)
  <1>4. CASE o.st # "ok"
    <2>1. vol' = vol /\ flushed' = flushed /\ Return(o.st) /\ (Faulty(o.st) => faults')
      BY <1>1, <1>4, ZenonT(60) DEF SameVolume
    <2>2. o.st # "panic" /\ (faults' \/ Reason)
      BY <1>2, <1>3, <1>4, <2>1, ZenonT(60) DEF Opened, Reason, Faulty, From, IsFile, Exists
    <2> QED
      BY <1>2, <1>4, <2>1, <2>2, EndedUnchanged
  <1>5. CASE o.st = "ok"
    <2>1. Exists(vol, From) /\ From \in AllLocs
      BY <1>2, <1>3, <1>5, ZenonT(60) DEF Opened, From, Exists, Volume
    <2>2. /\ vol[From].kind \in {"dir", "file"}
          /\ vol[From].kind = "file" => vol[From].data \in Datas
      BY <1>2, <2>1, NodeKinds, ZenonT(60) DEF Exists
    <2>3. PICK t \in into_type(vol, From), info \in {"ok", "IoError"} :
              \/ /\ t = "file" /\ SameVolume("ok")
                 /\ src' = Handle(vol, From) /\ remaining' = Len(vol[From].data)
                 /\ pc' = "copy_remove_dest" /\ dest' = dest
              \/ t = "file" /\ SameVolume("IoError") /\ Return("IoError")
              \/ t = "dir" /\ SameVolume("ok") /\ Return("NotAFile")
              \/ t = "Err" /\ SameVolume("IoError") /\ Return("NotAFile")
      <3>1. PICK t \in into_type(vol, From) : \E info \in {"ok", "IoError"} :
                 CASE t = "file" /\ info = "ok" ->
                        /\ SameVolume("ok")
                        /\ src' = Handle(vol, From)
                        /\ remaining' = Len(vol[From].data)
                        /\ pc' = "copy_remove_dest"
                        /\ UNCHANGED <<dest, chunk, dirs, stack, res>>
                   [] t = "file" /\ info # "ok" -> SameVolume(info) /\ Return(info)
                   [] t = "dir" -> SameVolume("ok") /\ Return("NotAFile")
                   [] t = "Err" -> SameVolume("IoError") /\ Return("NotAFile")
        BY <1>1, <1>5, ZenonT(60)
      <3>2. t \in {"file", "dir", "Err"}
        BY <2>2, <3>1 DEF into_type
      <3> QED
        BY <3>1, <3>2, ZenonT(60)
    <2>4. vol' = vol /\ flushed' = flushed
      BY <2>3, ZenonT(60) DEF SameVolume
    <2>5. CASE pc' = "copy_remove_dest" /\ t = "file" /\ src' = Handle(vol, From)
               /\ remaining' = Len(vol[From].data) /\ dest' = dest
      <3>1. IsFile(old, From) /\ vol[From].data \in Datas
        BY <1>2, <2>1, <2>2, <2>3, <2>5, ZenonT(60) DEF into_type, IsFile, Exists
      <3>2. /\ IsHandle(src') /\ src'.loc = From /\ src'.pos = 0 /\ src'.live = TRUE
            /\ src'.data = vol[From].data
        BY <2>1, <2>5, ZenonT(60) DEF Handle, IsHandle
      <3>3. Types'
        BY <1>2, <2>4, <2>5, <3>1, <3>2, Lengths, ZenonT(60) DEF Types, control
      <3>4. SameBut(vol', old, To)
        BY <1>2, <2>4, ZenonT(60) DEF SameBut
      <3>5. Source'
        BY <1>2, <2>4, <3>1, <3>2, <3>4, ZenonT(60) DEF Source, From, To
      <3>6. Copying'
        BY <1>2, <2>4, <2>5, <3>2, <3>5, ZenonT(60) DEF Copying, From
      <3> QED
        BY <1>2, <2>5, <3>1, <3>3, <3>4, <3>6, CopyMoved, ZenonT(60) DEF Types
    <2>6. CASE SameVolume("IoError") /\ \E st \in {"IoError", "NotAFile"} : Return(st)
      <3>1. faults'
        BY <2>6, ZenonT(60) DEF SameVolume, Faulty
      <3> QED
        BY <1>2, <2>4, <2>6, <3>1, EndedUnchanged, ZenonT(60)
    <2>7. CASE t = "dir" /\ Return("NotAFile")
      <3>1. Reason
        BY <1>2, <2>2, <2>3, <2>7, ZenonT(60) DEF Reason, into_type, IsFile
      <3> QED
        BY <1>2, <2>4, <2>7, <3>1, EndedUnchanged
    <2> QED
      BY <2>3, <2>5, <2>6, <2>7, ZenonT(60)
  <1> QED
    BY <1>4, <1>5, ZenonT(60)

\* The removal of the destination in copy preserves it: the source handle outlives
\* its file when the two are one.
LEMMA CopyRemoveDestStep == IInv /\ copy_remove_dest => IInv'
  <1> SUFFICES ASSUME IInv, copy_remove_dest PROVE IInv'
    OBVIOUS
  <1>1. PICK o \in remove_node(vol, call.to, "file", "NotAFile") :
          /\ Apply(o)
          /\ IF o.st = "panic" THEN Return("panic")
             ELSE /\ src' = [src EXCEPT !.live = IsFile(o.vol, src.loc)]
                  /\ pc' = "copy_open_dest"
                  /\ UNCHANGED <<dest, chunk, remaining, dirs, stack, res>>
    BY ZenonT(60) DEF copy_remove_dest, remove_file
  <1>2. /\ Types /\ Volume(vol) /\ UNCHANGED control /\ vol = old /\ Copies /\ Volume(old)
        /\ call' = call /\ old' = old /\ Source /\ src.pos = 0
        /\ remaining = Len(old[From].data)
    BY ZenonT(60) DEF IInv, Types, copy_remove_dest, Copying, Steps, control
  <1>3. Removed(vol, call.to, "file", "NotAFile", o)
    BY <1>2, RemoveOutcome, ZenonT(60)
  <1>4. vol' = o.vol /\ (Faulty(o.st) => faults')
    BY <1>1, ZenonT(60) DEF Apply
  <1>5. CASE o.st = "panic"
    <2>1. vol' = vol /\ flushed' = flushed /\ Return("panic") /\ faults'
      BY <1>1, <1>2, <1>3, <1>4, <1>5, AppliedUnchanged DEF Removed, Faulty
    <2> QED
      BY <1>2, <2>1, EndedUnchanged
  <1>6. CASE o.st # "panic"
    <2>1. /\ src' = [src EXCEPT !.live = IsFile(o.vol, src.loc)]
          /\ pc' = "copy_open_dest" /\ dest' = dest /\ remaining' = remaining
      BY <1>1, <1>6, SMTT(30)
    <2>2. IsHandle(src) /\ IsFile(old, From) /\ src.loc = From /\ src.data = old[From].data
      BY <1>2 DEF Types, Source
    <2>3. /\ IsHandle(src') /\ src'.loc = From /\ src'.pos = 0 /\ src'.data = old[From].data
          /\ src'.live <=> IsFile(vol', From)
      BY <1>2, <1>4, <2>1, <2>2, ZenonT(60) DEF IsHandle
    <2>4. Volume(vol') /\ flushed' \subseteq {l \in Locs : IsFile(vol', l)}
      BY <1>1, <1>2, <1>3, AppliedFlushed, ZenonT(60) DEF Removed
    <2>5. \/ o.st # "ok" /\ vol' = old
          \/ o.st = "ok" /\ SameBut(vol', old, To) /\ vol'[To] = NoNode /\ IsFile(old, To)
      BY <1>2, <1>3, <1>4, ZenonT(60) DEF Removed, To, IsFile, Volume, AllLocs
    <2>6. SameBut(vol', old, To)
      BY <2>5, ZenonT(60) DEF SameBut
    <2>7. From \in AllLocs /\ DOMAIN vol' = AllLocs /\ DOMAIN old = AllLocs
      BY <1>2, <2>2, <2>4, ZenonT(60) DEF IsFile, Volume
    <2>8. From # To => vol'[From] = old[From] /\ IsFile(vol', From)
      BY <2>2, <2>6, <2>7, ZenonT(60) DEF SameBut, IsFile
    <2>9. From = To /\ IsFile(vol', From) => vol'[From] = old[From]
      BY <2>5, NotFiles, ZenonT(60) DEF IsFile
    <2>10. Source'
      BY <1>2, <2>2, <2>3, <2>6, <2>8, <2>9, ZenonT(60) DEF Source, From, To
    <2>11. Types'
      BY <1>2, <2>1, <2>3, <2>4, ZenonT(60) DEF Types, control
    <2>12. IsFile(vol', To) => faults' \/ ~ Valid(call.to)
      <3>0. /\ o.st = "PathError" => ~ Valid(call.to)
            /\ o.st = "ok" => ~ IsFile(vol', To)
        BY <1>3, <2>5, NotFiles, ZenonT(60) DEF Removed, IsFile
      <3>1. SUFFICES ASSUME IsFile(vol', To), o.st # "ok", ~ Faulty(o.st), o.st # "PathError"
                     PROVE  FALSE
        BY <1>4, <3>0, ZenonT(60)
      <3>2. vol' = vol /\ o.st \in {"NotFound", "NotEmpty", "NotAFile"}
        BY <1>2, <1>3, <2>5, <3>1, ZenonT(60) DEF Removed, Faulty
      <3>3. Children(vol, To) = {} /\ To # Root
        BY <1>2, <3>1, <3>2, FilesChildless, ZenonT(60)
      <3> QED
        BY <1>3, <3>1, <3>2, <3>3, ZenonT(60) DEF Removed, IsFile, Exists, To
    <2>13. ~ src'.live => ~ IsFile(vol', To)
      BY <2>3, <2>8, ZenonT(60)
    <2>14. Copying'
      BY <1>2, <2>1, <2>3, <2>5, <2>10, <2>12, <2>13, ZenonT(60) DEF Copying, From, To
    <2> QED
      BY <1>2, <2>1, <2>2, <2>6, <2>11, <2>14, CopyMoved
  <1> QED
    BY <1>5, <1>6, ZenonT(60)

\* The opening of the destination in copy preserves it: nothing has been copied yet.
LEMMA CopyOpenDestStep == IInv /\ copy_open_dest => IInv'
  <1> SUFFICES ASSUME IInv, copy_open_dest PROVE IInv'
    OBVIOUS
  <1>1. PICK o \in open(vol, call.to, "CreateReadWrite", FALSE) :
          IF o.st # "ok" THEN Apply(o) /\ Return(o.st)
          ELSE \E t \in into_type(o.vol, To) :
                 /\ vol' = o.vol /\ UNCHANGED flushed
                 /\ faults' = (faults \/ t = "Err")
                 /\ IF t = "file"
                    THEN /\ dest' = Handle(o.vol, To)
                         /\ pc' = "copy_read"
                         /\ UNCHANGED <<src, chunk, remaining, dirs, stack, res>>
                    ELSE Return("OpenError")
    BY ZenonT(60) DEF copy_open_dest, To
  <1>2. /\ Types /\ Volume(vol) /\ UNCHANGED control /\ Copies /\ Volume(old)
        /\ call' = call /\ old' = old /\ Source /\ src.pos = 0
        /\ remaining = Len(old[From].data)
    BY ZenonT(60) DEF IInv, Types, copy_open_dest, Copying, Steps, control
  <1>3. /\ vol = old \/ (IsFile(old, To) /\ vol[To] = NoNode)
        /\ (~ faults /\ Valid(call.to)) \/ ~ src.live => ~ IsFile(vol, To)
    BY ZenonT(60) DEF IInv, copy_open_dest, Copying
  <1>4. Opened(vol, call.to, "CreateReadWrite", FALSE, o)
    BY <1>2, OpenOutcome, ZenonT(60)
  <1>5. IsFile(old, From) /\ SameBut(vol, old, To) /\ From \in AllLocs /\ old[From].data \in Datas
    BY <1>2, NodeKinds DEF Source, IsFile, Volume
  <1>6. CASE o.st # "ok"
    <2>1. vol' = vol /\ flushed' = flushed /\ Return(o.st) /\ (Faulty(o.st) => faults')
      BY <1>1, <1>2, <1>4, <1>6, AppliedUnchanged, ZenonT(60) DEF Opened, Apply
    <2>2. \A k : IsDir(old, k) => IsDir(vol, k)
      BY <1>2, <1>3, <1>5, ZenonT(60) DEF IsDir, IsFile, SameBut, Volume
    <2>3. o.st # "panic" /\ (faults' \/ Reason)
      BY <1>2, <1>4, <1>6, <2>1, <2>2, ZenonT(60) DEF Opened, Reason, Faulty, To, NoRoomFor
    <2> QED
      BY <1>2, <1>6, <2>1, <2>3, EndedUnchanged, ZenonT(60)
  <1>7. CASE o.st = "ok"
    <2>1. PICK t \in into_type(o.vol, To) :
             /\ vol' = o.vol /\ flushed' = flushed
             /\ faults' = (faults \/ t = "Err")
             /\ IF t = "file"
                THEN /\ dest' = Handle(o.vol, To)
                     /\ pc' = "copy_read"
                     /\ UNCHANGED <<src, chunk, remaining, dirs, stack, res>>
                ELSE Return("OpenError")
      BY <1>1, <1>7, ZenonT(60)
    <2>2. \/ Exists(vol, To) /\ vol' = vol
          \/ /\ ~ Exists(vol, To) /\ To \in Locs /\ SameBut(vol', vol, To)
             /\ vol'[To] = File(<< >>)
      BY <1>4, <1>7, <2>1, ZenonT(60) DEF Opened, To
    <2>3. Volume(vol') /\ Valid(call.to)
      BY <1>4, <1>7, <2>1, ZenonT(60) DEF Opened
    <2>4. To \in AllLocs /\ DOMAIN vol = AllLocs /\ DOMAIN vol' = AllLocs
      BY <1>2, <2>2, <2>3, ZenonT(60) DEF Exists, Volume, AllLocs
    <2>5. SameBut(vol', old, To)
      BY <1>5, <2>2, ZenonT(60) DEF SameBut
    <2>6. Exists(vol', To)
      BY <2>2, <2>4 DEF Exists, File
    <2>7. flushed' \subseteq {l \in Locs : IsFile(vol', l)}
      <3>1. ~ IsFile(vol, To) \/ IsFile(vol', To)
        BY <2>2, ZenonT(60) DEF Exists, IsFile
      <3>2. SameBut(vol', vol, To)
        BY <2>2, ZenonT(60) DEF SameBut
      <3>3. \A k : IsFile(vol, k) => IsFile(vol', k)
        BY <1>2, <2>3, <3>1, <3>2, FilesStay, ZenonT(60)
      <3> QED
        BY <1>2, <2>1, <3>3, ZenonT(60) DEF Types
    <2>8. CASE t = "file"
      <3>1. /\ dest' = Handle(vol', To) /\ pc' = "copy_read"
            /\ src' = src /\ remaining' = remaining /\ (~ faults' => ~ faults)
        BY <2>1, <2>8, ZenonT(60)
      <3>2. IsFile(vol', To)
        BY <2>1, <2>4, <2>8 DEF into_type, IsFile
      <3>3. To \in Locs /\ vol'[To].data \in Datas
        BY <2>3, <2>4, <3>2, FilesChildless, NodeKinds, ZenonT(60) DEF IsFile
      <3>4. IsHandle(dest') /\ dest'.loc = To /\ dest'.pos = 0
        BY <2>4, <3>1, ZenonT(60) DEF Handle, IsHandle
      <3>5. Types'
        BY <1>2, <2>3, <2>7, <3>1, <3>4, ZenonT(60) DEF Types, control
      <3>6. src.live => vol'[From] = old[From]
        <4>1. CASE From # To
          BY <4>1, <1>5, <2>5, ZenonT(60) DEF SameBut
        <4>2. CASE From = To /\ src.live
          BY <4>2, <1>2, <1>5, <2>2, <2>4, ZenonT(60) DEF Source, Exists, IsFile
        <4> QED
          BY <4>1, <4>2, ZenonT(60)
      <3>7. Source'
        BY <1>2, <2>5, <3>1, <3>6, ZenonT(60) DEF Source, From, To
      <3>8. ~ faults' \/ ~ src.live => Len(vol'[To].data) = 0
        <4>1. SUFFICES ASSUME ~ IsFile(vol, To) PROVE Len(vol'[To].data) = 0
          BY <1>3, <2>3, <3>1, ZenonT(60)
        <4>2. vol'[To] = File(<< >>)
          BY <2>2, <3>2, <4>1, ZenonT(60)
        <4> QED
          BY <4>2 DEF File
      <3>9. Copied(old[From].data, vol'[To].data, 0)
        BY <1>5, <3>3 DEF Copied, Datas
      <3>10. Len(old[From].data) = Len(old[From].data) - 0
        BY <1>5, Lengths, LeftOver, ZenonT(60)
      <3>11. Destination'
        BY <1>2, <3>1, <3>2, <3>3, <3>4, <3>8, <3>9, <3>10, ZenonT(60) DEF Destination, From, To
      <3>12. Copying'
        BY <1>2, <3>1, <3>4, <3>7, <3>11, ZenonT(60) DEF Copying
      <3> QED
        BY <1>2, <1>5, <2>5, <3>1, <3>5, <3>12, CopyMoved, ZenonT(60)
    <2>9. CASE t # "file"
      <3>1. Return("OpenError") /\ (t = "Err" => faults')
        BY <2>1, <2>9, ZenonT(60)
      <3>2. faults' \/ IsDir(old, To)
        <4>1. SUFFICES ASSUME t # "Err" PROVE IsDir(old, To)
          BY <3>1
        <4>2. vol'[To].kind # "file"
          BY <2>1, <2>9, <4>1, SMTT(30) DEF into_type
        <4>3. vol' = vol /\ Exists(vol, To) /\ vol[To].kind # "file"
          BY <2>2, <4>2 DEF File
        <4>4. vol[To].kind = "dir"
          BY <1>2, <2>4, <4>3, NodeKinds, ZenonT(60) DEF Exists
        <4>5. vol[To] # NoNode
          BY <4>4 DEF NoNode
        <4> QED
          BY <1>3, <2>4, <4>4, <4>5 DEF IsDir
      <3>3. Confined' /\ DataSurvives'
        BY <1>2, <1>5, <2>5, CopyConfined, ZenonT(60)
      <3>4. faults' \/ Reason
        BY <1>2, <3>2, ZenonT(60) DEF Reason
      <3> QED
        BY <1>2, <2>3, <2>7, <3>1, <3>3, <3>4, Ended, ZenonT(60)
    <2> QED
      BY <2>8, <2>9, ZenonT(60)
  <1> QED
    BY <1>6, <1>7, ZenonT(60)

\* The read of one chunk in copy preserves it: the chunk is the next part of the
\* source.
LEMMA CopyReadStep == IInv /\ copy_read => IInv'
  <1> SUFFICES ASSUME IInv, copy_read PROVE IInv'
    OBVIOUS
  <1> DEFINE d == old[From].data
             t == vol[To].data
  <1>1. /\ Types /\ Volume(vol) /\ UNCHANGED control /\ Copies /\ Volume(old)
        /\ call' = call /\ old' = old /\ Source /\ Destination /\ src.pos = dest.pos
    BY ZenonT(60) DEF IInv, Types, copy_read, Copying, Steps, control
  <1>2. /\ IsFile(old, From) /\ SameBut(vol, old, To) /\ From \in AllLocs /\ To \in AllLocs
        /\ IsFile(vol, To) /\ To \in Locs /\ dest.loc = To
    BY <1>1, ZenonT(60) DEF Source, Destination, IsFile, Volume
  <1>3. /\ d \in Datas /\ old[From] = File(d) /\ t \in Datas /\ vol[To] = File(t)
        /\ Len(d) \in Nat /\ Len(t) \in Nat
    BY <1>1, <1>2, NodeKinds, Lengths, ZenonT(60) DEF IsFile
  <1>4. /\ Copied(d, t, dest.pos) /\ remaining = Len(d) - dest.pos
        /\ ~ faults \/ ~ src.live => Len(t) = dest.pos
        /\ dest.pos \in Nat /\ dest.pos <= Len(d)
    BY <1>1 DEF Destination, Copied, Types, IsHandle
  <1>5. vol' = vol /\ flushed' = flushed
    BY DEF copy_read, SameVolume
  <1>6. SameBut(vol', old, To)
    BY <1>2, <1>5, ZenonT(60)
  <1>7. CASE remaining = 0
    <2>1. /\ pc' = "flush" /\ UNCHANGED <<src, dest, chunk, remaining>>
          /\ (~ faults' => ~ faults)
      BY <1>7, ZenonT(60) DEF copy_read, Goto, handles, SameVolume
    <2>2. Types'
      BY <1>1, <1>5, <2>1 DEF Types, control
    <2>3. dest.pos = Len(d)
      BY <1>3, <1>4, <1>7
    <2>4. Len(t) = Len(d) => t = d
      BY <1>3, <1>4, <2>3, CopiedAll
    <2>5. From = To => vol[To] = old[To]
      BY <1>1, <1>3, <1>4, <2>3, <2>4, ZenonT(60) DEF Source
    <2>6. Transferred'
      BY <1>1, <1>2, <1>4, <1>5, <2>1, <2>3, <2>5, ZenonT(60) DEF Transferred, From, To
    <2>7. Copying'
      BY <1>1, <1>2, <2>1, <2>6, ZenonT(60) DEF Copying, To
    <2> QED
      BY <1>1, <1>2, <1>6, <2>1, <2>2, <2>7, CopyMoved, ZenonT(60)
  <1>8. CASE remaining # 0
    <2>1. \/ /\ faults' = (faults \/ src.live) /\ Return("IoError")
          \/ \E bytes \in fw_read(src) :
                /\ SameVolume("ok")
                /\ IF bytes = << >> THEN Return("Aborted")
                   ELSE /\ chunk' = bytes
                        /\ src' = [src EXCEPT !.pos = @ + Len(bytes)]
                        /\ pc' = "copy_write"
                        /\ UNCHANGED <<dest, remaining, dirs, stack, res>>
      BY <1>8, ZenonT(60) DEF copy_read
    <2>2. ~ src.live => Reason
      BY <1>1, ZenonT(60) DEF Source, Reason
    <2>3. CASE faults' = (faults \/ src.live) /\ Return("IoError")
      BY <1>1, <1>5, <2>2, <2>3, EndedUnchanged, ZenonT(60)
    <2>4. ASSUME NEW bytes \in fw_read(src), SameVolume("ok"),
                 IF bytes = << >> THEN Return("Aborted")
                 ELSE /\ chunk' = bytes
                      /\ src' = [src EXCEPT !.pos = @ + Len(bytes)]
                      /\ pc' = "copy_write"
                      /\ UNCHANGED <<dest, remaining, dirs, stack, res>>
          PROVE  IInv'
      <3>0. dest.pos < Len(d)
        BY <1>3, <1>4, <1>8, LeftOver, ZenonT(60)
      <3>1. /\ src.pos \in Nat /\ src.pos < Len(d)
            /\ src.live => vol[src.loc].data = d
            /\ ~ src.live => src.data = d
        BY <1>1, <1>4, <3>0, ZenonT(60) DEF Source
      <3>2. /\ bytes = << >> => ~ src.live
            /\ bytes \in Datas /\ Len(bytes) \in Nat /\ src.pos + Len(bytes) <= Len(d)
            /\ \A i \in 1 .. Len(bytes) : bytes[i] = d[src.pos + i]
        BY <1>3, <3>1, ReadOutcome, ZenonT(60)
      <3>3. CASE bytes = << >>
        <4>1. Return("Aborted") /\ Reason
          BY <2>2, <2>4, <3>2, <3>3
        <4> QED
          BY <1>1, <1>5, <4>1, EndedUnchanged
      <3>4. CASE bytes # << >>
        <4>1. /\ chunk' = bytes /\ src' = [src EXCEPT !.pos = @ + Len(bytes)]
              /\ pc' = "copy_write" /\ dest' = dest /\ remaining' = remaining
              /\ (~ faults' => ~ faults)
          BY <2>4, <3>4, ZenonT(60) DEF SameVolume
        <4>2. /\ IsHandle(src') /\ src'.loc = src.loc /\ src'.pos = src.pos + Len(bytes)
              /\ src'.live = src.live /\ src'.data = src.data
          BY <1>1, <3>1, <3>2, <4>1, SMTT(30) DEF IsHandle, Types
        <4>3. Types'
          BY <1>1, <1>5, <4>1, <4>2 DEF Types, control
        <4>4. Source'
          BY <1>1, <1>5, <4>2, ZenonT(60) DEF Source, From, To
        <4>5. Destination'
          BY <1>1, <1>5, <4>1, <4>2, ZenonT(60) DEF Destination, From, To
        <4>6. Copying'
          BY <1>1, <3>2, <4>1, <4>2, <4>4, <4>5, ZenonT(60) DEF Copying, From
        <4> QED
          BY <1>1, <1>2, <1>6, <4>1, <4>3, <4>6, CopyMoved
      <3> QED
        BY <3>3, <3>4
    <2> QED
      BY <2>1, <2>3, <2>4
  <1> QED
    BY <1>7, <1>8, ZenonT(60)

\* Writing the next units of d where they belong extends what has been copied,
\* and changes nothing where they were already.
LEMMA CopiedMore ==
    ASSUME NEW d \in Datas, NEW t \in Datas, NEW p \in Nat, Copied(d, t, p),
           NEW s \in Datas, p + Len(s) <= Len(d),
           \A i \in 1 .. Len(s) : s[i] = d[p + i]
    PROVE  LET w == Overwritten(t, p, s)
           IN  /\ w \in Datas /\ Copied(d, w, p + Len(s))
               /\ Len(t) = p => Len(w) = p + Len(s)
               /\ t = d => w = d
  <1> DEFINE w == Overwritten(t, p, s)
             m == p + Len(s)
  <1>0. /\ p \in 0 .. Len(t) /\ Len(d) \in Nat /\ Len(t) \in Nat /\ Len(s) \in Nat /\ m \in Nat
        /\ p <= Len(t) /\ p <= m /\ \A i \in 1 .. p : t[i] = d[i]
    BY DEF Copied, Datas
  <1>1. /\ w \in Datas
        /\ Len(w) = IF m <= Len(t) THEN Len(t) ELSE m
        /\ \A i \in 1 .. Len(w) :
              w[i] = IF i <= p THEN t[i] ELSE IF i <= m THEN s[i - p] ELSE t[i]
    BY <1>0, OverwrittenUnits, ZenonT(60)
  <1> HIDE DEF w
  <1>2. ASSUME NEW i \in 1 .. m PROVE i \in 1 .. Len(w) /\ w[i] = d[i]
    <2>1. i \in 1 .. Len(w) /\ i \in Nat /\ i >= 1 /\ i <= m
      BY <1>0, <1>1
    <2>2. CASE i <= p
      BY <2>1, <2>2, <1>0, <1>1
    <2>3. CASE ~ (i <= p)
      <3>1. i - p \in 1 .. Len(s) /\ p + (i - p) = i
        BY <2>1, <2>3, <1>0
      <3>2. w[i] = s[i - p] /\ s[i - p] = d[p + (i - p)]
        BY <2>1, <2>3, <3>1, <1>1, ZenonT(60)
      <3> QED
        BY <2>1, <3>1, <3>2, ZenonT(60)
    <2> QED
      BY <2>2, <2>3, ZenonT(60)
  <1>3. Copied(d, w, m)
    BY <1>0, <1>1, <1>2 DEF Copied
  <1>4. Len(t) = p => Len(w) = m
    BY <1>0, <1>1
  <1>5. ASSUME t = d PROVE w = d
    <2>1. Len(w) = Len(d)
      BY <1>5, <1>0, <1>1
    <2>2. ASSUME NEW i \in 1 .. Len(d) PROVE w[i] = d[i]
      <3>1. CASE i <= m
        BY <3>1, <1>2, <1>0
      <3>2. CASE ~ (i <= m)
        BY <3>2, <2>1, <1>5, <1>0, <1>1, ZenonT(60)
      <3> QED
        BY <3>1, <3>2
    <2>3. Copied(d, w, Len(d))
      BY <2>1, <2>2, <1>0 DEF Copied
    <2> QED
      BY <2>1, <2>3, <1>1, CopiedAll, ZenonT(60)
  <1> QED
    BY <1>1, <1>3, <1>4, <1>5, ZenonT(60) DEF w

\* The write of one chunk in copy preserves it: the destination gained that part.
LEMMA CopyWriteStep == IInv /\ copy_write => IInv'
  <1> SUFFICES ASSUME IInv, copy_write PROVE IInv'
    OBVIOUS
  <1> DEFINE d == old[From].data
             t == vol[To].data
  <1>1. /\ Types /\ Volume(vol) /\ UNCHANGED control /\ Copies /\ Volume(old)
        /\ call' = call /\ old' = old /\ Source /\ Destination
        /\ chunk \in Datas /\ src.pos = dest.pos + Len(chunk) /\ src.pos <= Len(d)
        /\ \A i \in 1 .. Len(chunk) : chunk[i] = d[dest.pos + i]
    BY ZenonT(60) DEF IInv, Types, copy_write, Copying, Steps, control
  <1>2. /\ IsFile(old, From) /\ SameBut(vol, old, To) /\ From \in AllLocs /\ To \in AllLocs
        /\ IsFile(vol, To) /\ To \in Locs /\ dest.loc = To
    BY <1>1, ZenonT(60) DEF Source, Destination, IsFile, Volume
  <1>3. /\ d \in Datas /\ old[From] = File(d) /\ t \in Datas /\ vol[To] = File(t)
        /\ Len(d) \in Nat /\ Len(t) \in Nat /\ Len(chunk) \in Nat
    BY <1>1, <1>2, NodeKinds, Lengths, ZenonT(60) DEF IsFile
  <1>4. /\ Copied(d, t, dest.pos) /\ remaining = Len(d) - dest.pos
        /\ ~ faults \/ ~ src.live => Len(t) = dest.pos
        /\ dest.pos \in Nat /\ dest.pos <= Len(t)
    BY <1>1 DEF Destination, Copied, Types, IsHandle
  <1>5. PICK o \in fw_write(vol, dest, chunk) :
          /\ Written(o)
          /\ IF o.st # "ok" THEN Return(o.st)
             ELSE /\ dest' = [dest EXCEPT !.pos = @ + Len(chunk)]
                  /\ remaining' = left_after(remaining)
                  /\ chunk' = << >>
                  /\ pc' = "copy_read"
                  /\ UNCHANGED <<src, dirs, stack, res>>
    BY ZenonT(60) DEF copy_write
  <1>6. dest.pos \in 0 .. Len(vol[dest.loc].data)
    BY <1>2, <1>3, <1>4, UpTo, ZenonT(60)
  <1>7. /\ o.st \in {"ok", "IoError"} /\ Volume(o.vol) /\ SameBut(o.vol, vol, To)
        /\ IsFile(o.vol, To)
        /\ \E n \in 0 .. Len(chunk) : WrittenUnits(vol, dest, chunk, o, n)
    BY <1>1, <1>2, <1>6, WriteOutcome, ZenonT(60)
  <1>8. PICK n \in 0 .. Len(chunk) : WrittenUnits(vol, dest, chunk, o, n)
    BY <1>7, ZenonT(60)
  <1> DEFINE part == SubSeq(chunk, 1, n)
             w == Overwritten(t, dest.pos, part)
  <1>9. /\ part \in Datas /\ Len(part) = n /\ n \in Nat /\ n <= Len(chunk)
        /\ \A i \in 1 .. n : part[i] = chunk[i]
        /\ o.vol[To] = File(w) /\ (o.st = "ok" => n = Len(chunk))
    BY <1>2, <1>3, <1>8, UpTo, ZenonT(60) DEF WrittenUnits
  <1>10. dest.pos + Len(part) <= Len(d)
    <2>1. dest.pos + Len(chunk) <= Len(d) /\ n <= Len(chunk) /\ Len(part) = n
      BY <1>1, <1>9, ZenonT(60)
    <2>2. dest.pos \in Nat /\ Len(chunk) \in Nat /\ n \in Nat /\ Len(d) \in Nat
      BY <1>3, <1>4, <1>9, ZenonT(60)
    <2>3. dest.pos + n <= Len(d)
      BY <2>1, <2>2, StillFits, ZenonT(60)
    <2> QED
      BY <2>1, <2>3, ZenonT(60)
  <1> HIDE DEF part
  <1>11. ASSUME NEW i \in 1 .. Len(part) PROVE part[i] = d[dest.pos + i]
    <2>1. i \in 1 .. n /\ i \in 1 .. Len(chunk)
      BY <1>3, <1>9, Shorter, ZenonT(60)
    <2> QED
      BY <2>1, <1>1, <1>9, ZenonT(60)
  <1>12. /\ w \in Datas /\ Copied(d, w, dest.pos + n)
         /\ Len(t) = dest.pos => Len(w) = dest.pos + n
         /\ t = d => w = d
    <2> DEFINE p == dest.pos
               x == Overwritten(t, p, part)
    <2> HIDE DEF d, t, p
    <2>1. /\ d \in Datas /\ t \in Datas /\ p \in Nat /\ Copied(d, t, p) /\ part \in Datas
          /\ p + Len(part) <= Len(d) /\ \A i \in 1 .. Len(part) : part[i] = d[p + i]
      BY <1>3, <1>4, <1>9, <1>10, <1>11, ZenonT(60) DEF p
    <2>2. /\ x \in Datas /\ Copied(d, x, p + Len(part))
          /\ Len(t) = p => Len(x) = p + Len(part)
          /\ t = d => x = d
      BY <2>1, CopiedMore
    <2> QED
      BY <2>2, <1>9, ZenonT(60) DEF p
  <1> HIDE DEF w
  <1>13. vol' = o.vol /\ flushed' \subseteq {l \in Locs : IsFile(vol', l)}
    BY <1>1, <1>2, <1>5, <1>7, WrittenFlushed, ZenonT(60)
  <1>14. SameBut(vol', old, To)
    BY <1>2, <1>7, <1>13, ZenonT(60) DEF SameBut
  <1>15. CASE o.st # "ok"
    <2>1. Return("IoError") /\ faults'
      BY <1>5, <1>7, <1>15, ZenonT(60) DEF Written, Faulty
    <2>2. Confined' /\ DataSurvives'
      BY <1>1, <1>2, <1>14, CopyConfined
    <2> QED
      BY <1>1, <1>7, <1>13, <2>1, <2>2, Ended, ZenonT(60)
  <1>16. CASE o.st = "ok"
    <2>1. /\ dest' = [dest EXCEPT !.pos = @ + Len(chunk)]
          /\ remaining' = remaining - Len(chunk)
          /\ pc' = "copy_read" /\ src' = src /\ (~ faults' => ~ faults)
      BY <1>5, <1>16, ZenonT(60) DEF left_after, Written
    <2>2. IsHandle(dest') /\ dest'.loc = To /\ dest'.pos = dest.pos + Len(chunk)
      BY <1>1, <1>2, <1>3, <1>4, <2>1, ZenonT(60) DEF IsHandle, Types
    <2>3. /\ remaining' = Len(d) - dest'.pos /\ remaining' \in Nat
          /\ src.pos = dest'.pos /\ dest'.pos = dest.pos + n
      <3>1. /\ src.pos <= Len(d) /\ src.pos = dest.pos + Len(chunk) /\ n = Len(chunk)
            /\ remaining = Len(d) - dest.pos
        BY <1>1, <1>4, <1>9, <1>16, ZenonT(60)
      <3>2. Len(d) \in Nat /\ Len(chunk) \in Nat /\ dest.pos \in Nat
        BY <1>3, <1>4, ZenonT(60)
      <3>3. dest.pos + Len(chunk) <= Len(d)
        BY <3>1, ZenonT(60)
      <3>4. /\ (Len(d) - dest.pos) - Len(chunk) = Len(d) - (dest.pos + Len(chunk))
            /\ (Len(d) - dest.pos) - Len(chunk) \in Nat
        BY <3>2, <3>3, Advanced, ZenonT(60)
      <3> QED
        BY <2>1, <2>2, <3>1, <3>4, ZenonT(60)
    <2>4. Types'
      BY <1>1, <1>7, <1>13, <2>1, <2>2, <2>3, ZenonT(60) DEF Types, control
    <2>5. vol'[To].data = w
      BY <1>9, <1>13, FileFields, ZenonT(60)
    <2>6. src.live => vol'[From] = old[From]
      <3>1. CASE From # To
        BY <3>1, <1>2, <1>14, ZenonT(60) DEF SameBut
      <3>2. CASE From = To /\ src.live
        <4>1. t = d
          BY <3>2, <1>1, ZenonT(60) DEF Source
        <4> QED
          BY <3>2, <4>1, <1>3, <1>9, <1>12, <1>13, ZenonT(60)
      <3> QED
        BY <3>1, <3>2, ZenonT(60)
    <2>7. Source'
      BY <1>1, <1>14, <2>1, <2>6, ZenonT(60) DEF Source, From, To
    <2>8. Destination'
      BY <1>1, <1>2, <1>4, <1>7, <1>12, <1>13, <2>1, <2>2, <2>3, <2>5, ZenonT(60) DEF Destination, From, To
    <2>9. Copying'
      BY <1>1, <2>1, <2>3, <2>7, <2>8, ZenonT(60) DEF Copying
    <2> QED
      BY <1>1, <1>2, <1>14, <2>1, <2>4, <2>9, CopyMoved, ZenonT(60)
  <1> QED
    BY <1>15, <1>16, ZenonT(60)

\* When everything has been copied, Ok is true.
LEMMA TransferredEffect ==
    ASSUME Transferred, Volume(vol), Volume(old)
    PROVE  /\ StartsWith(vol[To].data, old[From].data)
           /\ ~ faults => vol[To] = old[From]
  <1>1. From \in AllLocs /\ To \in AllLocs
    BY ZenonT(60) DEF Transferred, IsFile, Volume
  <1>2. /\ old[From] = File(old[From].data) /\ old[From].data \in Datas
        /\ vol[To] = File(vol[To].data) /\ vol[To].data \in Datas
    BY <1>1, NodeKinds, ZenonT(60) DEF Transferred, IsFile
  <1>3. /\ StartsWith(vol[To].data, old[From].data)
        /\ Len(vol[To].data) = Len(old[From].data) => vol[To].data = old[From].data
    BY <1>2, CopiedAll, ZenonT(60) DEF Transferred
  <1> QED
    BY <1>2, <1>3, ZenonT(60) DEF Transferred

\* The flush of write, copy and rename preserves it: Ok is true from here.
LEMMA FlushStep == IInv /\ flush => IInv'
  <1> SUFFICES ASSUME IInv, flush PROVE IInv'
    OBVIOUS
  <1>1. PICK st \in {"ok", "IoError"} :
          /\ UNCHANGED vol
          /\ flushed' = IF st = "ok" THEN flushed \cup {dest.loc} ELSE flushed
          /\ faults' = (faults \/ Faulty(st))
          /\ IF st = "ok" /\ removes_source
             THEN /\ pc' = "rename_remove"
                  /\ src' = NoHandle /\ dest' = NoHandle
                  /\ UNCHANGED <<chunk, remaining, dirs, stack, res>>
             ELSE Return(st)
    BY ZenonT(60) DEF flush
  <1>2. /\ Types /\ Volume(vol) /\ UNCHANGED control /\ Volume(old) /\ vol' = vol
        /\ call' = call /\ old' = old /\ (call.op = "write" \/ Copies)
    BY <1>1, ZenonT(60) DEF IInv, Types, flush, Steps, control
  <1>3. CASE st # "ok"
    <2>1. flushed' = flushed /\ faults' /\ Return("IoError")
      BY <1>1, <1>3, ZenonT(60) DEF Faulty
    <2> QED
      BY <1>2, <2>1, EndedUnchanged, ZenonT(60)
  <1>4. CASE st = "ok" /\ call.op = "write"
    <2>1. /\ From \in Locs /\ vol[From] = File(call.data) /\ dest.loc = From
          /\ SameBut(vol, old, From)
      BY <1>4, ZenonT(60) DEF IInv, flush, Writing
    <2>2. flushed' = flushed \cup {From} /\ Return("ok")
      BY <1>1, <1>4, <2>1, ZenonT(60) DEF removes_source
    <2>3. IsFile(vol, From)
      BY <1>2, <2>1, FileFields, ZenonT(60) DEF IsFile, Volume, AllLocs
    <2>4. flushed' \subseteq {l \in Locs : IsFile(vol', l)}
      BY <1>2, <2>1, <2>2, <2>3, ZenonT(60) DEF Types
    <2>5. OkEffect'
      BY <1>2, <1>4, <2>1, <2>2, ZenonT(60) DEF OkEffect, From, Copies
    <2>6. Confined'
      BY <1>2, <1>4, <2>1, ConfinedToFrom, ZenonT(60)
    <2>7. DataSurvives'
      BY <1>2, <1>4, ZenonT(60) DEF IInv, DataSurvives, From
    <2> QED
      BY <1>2, <2>2, <2>4, <2>5, <2>6, <2>7, Ended, SMTT(30)
  <1>5. CASE st = "ok" /\ Copies
    <2>1. Transferred /\ dest.loc = To
      BY <1>5, ZenonT(60) DEF IInv, flush, Copying
    <2>2. /\ flushed' = flushed \cup {To} /\ (~ faults' <=> ~ faults)
          /\ IsFile(old, From) /\ IsFile(vol, To) /\ To \in Locs /\ SameBut(vol, old, To)
      BY <1>1, <1>5, <2>1, ZenonT(60) DEF Transferred, Faulty
    <2>3. flushed' \subseteq {l \in Locs : IsFile(vol', l)}
      BY <1>2, <2>2 DEF Types
    <2>4. Confined' /\ DataSurvives'
      BY <1>2, <1>5, <2>2, CopyConfined
    <2>5. CASE call.op = "rename"
      <3>1. /\ pc' = "rename_remove" /\ src' = NoHandle /\ dest' = NoHandle
            /\ remaining' = remaining
        BY <1>1, <1>5, <2>5, ZenonT(60) DEF removes_source
      <3>2. Types'
        BY <1>2, <2>3, <3>1, ClosedHandle, ZenonT(60) DEF Types, control
      <3>3. Transferred'
        BY <1>2, <2>1, <2>2, ZenonT(60) DEF Transferred, From, To
      <3>4. Copying'
        BY <1>2, <2>2, <3>1, <3>3, ZenonT(60) DEF Copying, To
      <3>5. Steps' /\ Begun' /\ Writing'
        BY <1>2, <2>5, <3>1, ZenonT(60) DEF Steps, Begun, Writing
      <3> QED
        BY <2>4, <3>1, <3>2, <3>4, <3>5, Moved, ZenonT(60)
    <2>6. CASE call.op = "copy"
      <3>1. Return("ok")
        BY <1>1, <1>5, <2>6, ZenonT(60) DEF removes_source
      <3>2. /\ StartsWith(vol[To].data, old[From].data)
            /\ ~ faults => vol[To] = old[From]
            /\ From = To => vol[To] = old[To]
        BY <1>2, <2>1, TransferredEffect, ZenonT(60) DEF Transferred
      <3>3. OkEffect'
        BY <1>2, <2>2, <2>6, <3>2, ZenonT(60) DEF OkEffect, Copies, From, To
      <3> QED
        BY <1>2, <2>3, <2>4, <3>1, <3>3, Ended, ZenonT(60)
    <2> QED
      BY <1>5, <2>5, <2>6, ZenonT(60) DEF Copies
  <1> QED
    BY <1>2, <1>3, <1>4, <1>5, ZenonT(60)

\* The removal of the source in rename (fs.rs:347) preserves it: the data is at the
\* destination and flushed.
LEMMA RenameRemoveStep == IInv /\ rename_remove => IInv'
  <1> SUFFICES ASSUME IInv, rename_remove PROVE IInv'
    OBVIOUS
  <1>1. PICK o \in remove_node(vol, call.path, "file", "NotAFile") : Apply(o) /\ Return(o.st)
    BY ZenonT(60) DEF rename_remove, OneStep, remove_file
  <1>2. /\ Types /\ Volume(vol) /\ UNCHANGED control /\ Volume(old) /\ call.op = "rename" /\ Copies
        /\ call' = call /\ old' = old /\ Transferred /\ To \in flushed
    BY ZenonT(60) DEF IInv, Types, rename_remove, OneStep, Steps, Copying, control, Copies
  <1>3. Removed(vol, call.path, "file", "NotAFile", o)
    BY <1>2, RemoveOutcome, ZenonT(60)
  <1>4. /\ vol' = o.vol /\ (Faulty(o.st) => faults') /\ (~ faults' => ~ faults)
        /\ flushed' = {l \in flushed : IsFile(o.vol, l)}
    BY <1>1, ZenonT(60) DEF Apply
  <1>5. /\ IsFile(old, From) /\ From \in AllLocs /\ IsFile(vol, To) /\ To \in AllLocs
        /\ SameBut(vol, old, To) /\ DOMAIN vol = AllLocs
    BY <1>2 DEF Transferred, IsFile, Volume
  <1>6. /\ StartsWith(vol[To].data, old[From].data)
        /\ ~ faults => vol[To] = old[From]
    BY <1>2, TransferredEffect
  <1>7. CASE o.st # "ok"
    <2>1. vol' = vol /\ flushed' = flushed
      BY <1>1, <1>2, <1>3, <1>7, AppliedUnchanged, ZenonT(60) DEF Removed
    <2>2. From # To => IsFile(vol, From) /\ Children(vol, From) = {} /\ From # Root
      BY <1>2, <1>5, FilesChildless, ZenonT(60) DEF SameBut, IsFile
    <2>3. o.st \in {"NotFound", "NotEmpty", "NotAFile"} => From = To
      BY <1>3, <2>2, ZenonT(60) DEF Removed, IsFile, Exists, From
    <2>4. (o.st = "panic" => faults') /\ (faults' \/ Reason)
      BY <1>2, <1>3, <1>4, <1>7, <2>3, ZenonT(60) DEF Removed, Reason, Faulty
    <2> QED
      BY <1>1, <1>2, <1>7, <2>1, <2>4, EndedUnchanged
  <1>8. CASE o.st = "ok"
    <2>1. Volume(vol') /\ SameBut(vol', vol, From) /\ vol'[From] = NoNode
      BY <1>3, <1>4, <1>8, ZenonT(60) DEF Removed, From
    <2>2. DOMAIN vol' = AllLocs /\ ~ Exists(vol', From)
      BY <2>1 DEF Volume, Exists, NoNode
    <2>3. flushed' \subseteq {l \in Locs : IsFile(vol', l)}
      BY <1>1, <1>2, AppliedFlushed, ZenonT(60)
    <2>4. Confined'
      BY <1>2, <1>5, <2>1, ZenonT(60) DEF Confined, Footprint, SameBut, Copies, From, To
    <2>5. From # To => /\ vol'[To] = vol[To] /\ IsFile(vol', To) /\ To \in flushed'
      BY <1>2, <1>4, <1>5, <2>1, <2>2, ZenonT(60) DEF SameBut, IsFile
    <2>6. DataSurvives'
      BY <1>2, <1>6, <2>5, ZenonT(60) DEF DataSurvives, From, To
    <2>7. OkEffect'
      BY <1>2, <1>4, <1>6, <2>2, <2>5, ZenonT(60) DEF OkEffect, Copies, From, To
    <2> QED
      BY <1>1, <1>2, <1>8, <2>1, <2>3, <2>4, <2>6, <2>7, Ended, ZenonT(60)
  <1> QED
    BY <1>7, <1>8

-----------------------------------------------------------------------------
(* create_dir_all and remove_dir_all: the volume stays a tree *)

\* The steps of an operation that does not work on its argument alone
LabelsOf(op) ==
    IF op = "create_dir_all"
    THEN {"create_dir_all", "create_dir_all_test", "create_dir_all_create"}
    ELSE {"remove_dir_all"}

\* A step within create_dir_all or remove_dir_all
LEMMA IndirectMoved ==
    ASSUME Types, ~ Direct, UNCHANGED <<handles, control>>, pc' \in LabelsOf(call.op),
           Volume(vol'), flushed' \subseteq {l \in Locs : IsFile(vol', l)}
    PROVE  IInv'
  <1>1. /\ call' = call /\ call.op \in {"create_dir_all", "remove_dir_all"} /\ ~ Direct'
        /\ ~ Copies' /\ old' = old /\ calls' = calls
        /\ src' = src /\ dest' = dest /\ remaining' = remaining
    BY ZenonT(60) DEF control, handles, Direct, Copies
  <1>2. Types'
    BY <1>1, ZenonT(60) DEF Types
  <1>3. Steps' /\ Begun' /\ Writing' /\ Copying'
    BY <1>1, ZenonT(60) DEF Steps, Begun, Writing, Copying, LabelsOf
  <1>4. Confined' /\ DataSurvives'
    BY <1>1, ZenonT(60) DEF Confined, DataSurvives
  <1> QED
    BY <1>1, <1>2, <1>3, <1>4, Moved, ZenonT(60) DEF LabelsOf

\* A return from create_dir_all or remove_dir_all
LEMMA IndirectEnded ==
    ASSUME IInv, ~ Direct, UNCHANGED control, NEW st, Return(st), st = "panic" => faults',
           Volume(vol'), flushed' \subseteq {l \in Locs : IsFile(vol', l)}
    PROVE  IInv'
  <1>1. Confined' /\ DataSurvives'
    BY ZenonT(60) DEF Confined, DataSurvives, Direct, control
  <1> QED
    BY <1>1, Ended, ZenonT(60)

\* A step that leaves the volume alone keeps it well formed.
LEMMA SameVolumeTyped ==
    ASSUME Types, NEW st, SameVolume(st)
    PROVE  Volume(vol') /\ flushed' \subseteq {l \in Locs : IsFile(vol', l)}
  BY ZenonT(60) DEF Types, SameVolume

\* The collection of the parents in create_dir_all preserves the invariant.
LEMMA CollectStep == IInv /\ create_dir_all_collect => IInv'
  <1> SUFFICES ASSUME IInv, create_dir_all_collect PROVE IInv'
    OBVIOUS
  <1>1. Types /\ call.op = "create_dir_all" /\ ~ Direct /\ UNCHANGED control
    BY ZenonT(60) DEF IInv, Steps, create_dir_all_collect, Direct
  <1>2. Volume(vol') /\ flushed' \subseteq {l \in Locs : IsFile(vol', l)}
    BY <1>1, ZenonT(60) DEF Types, create_dir_all_collect
  <1>3. pc' \in LabelsOf(call.op) /\ UNCHANGED handles
    BY <1>1, ZenonT(60) DEF create_dir_all_collect, Goto, LabelsOf
  <1> QED
    BY <1>1, <1>2, <1>3, IndirectMoved, ZenonT(60)

\* The existence check of one parent in create_dir_all preserves it.
LEMMA TestStep == IInv /\ create_dir_all_test => IInv'
  <1> SUFFICES ASSUME IInv, create_dir_all_test PROVE IInv'
    OBVIOUS
  <1>1. Types /\ call.op = "create_dir_all" /\ ~ Direct /\ UNCHANGED control /\ Volume(vol)
    BY DEF IInv, Steps, create_dir_all_test, Direct, Types
  <1>2. CASE dirs = << >>
    BY <1>1, <1>2, SameVolumeTyped, IndirectEnded, ZenonT(60) DEF create_dir_all_test
  <1>3. CASE dirs # << >>
    <2>1. PICK st \in try_exists(vol, Head(dirs)) :
              /\ SameVolume(st)
              /\ CASE st = "true" -> /\ dirs' = Tail(dirs)
                                     /\ UNCHANGED <<handles, stack, res, pc>>
                   [] st = "false" -> Goto("create_dir_all_create")
                   [] OTHER -> Return(st)
      BY <1>3, ZenonT(60) DEF create_dir_all_test
    <2>2. st \in {"true", "false", "IoError", "PathError"}
      BY <1>1, TryExistsOutcome, ZenonT(60)
    <2>3. Volume(vol') /\ flushed' \subseteq {l \in Locs : IsFile(vol', l)}
      BY <1>1, <2>1, SameVolumeTyped, ZenonT(60)
    <2>4. CASE st \in {"true", "false"}
      <3>1. pc' \in LabelsOf(call.op) /\ UNCHANGED handles
        BY <1>1, <2>1, <2>4, ZenonT(60) DEF create_dir_all_test, Goto, LabelsOf
      <3> QED
        BY <1>1, <2>3, <3>1, IndirectMoved, ZenonT(60)
    <2>5. CASE st \notin {"true", "false"}
      <3>1. Return(st) /\ st # "panic"
        BY <2>1, <2>2, <2>5, ZenonT(60)
      <3> QED
        BY <1>1, <2>3, <3>1, IndirectEnded, ZenonT(60)
    <2> QED
      BY <2>4, <2>5, ZenonT(60)
  <1> QED
    BY <1>2, <1>3, ZenonT(60)

\* The creation of one parent in create_dir_all preserves it.
LEMMA CreateStep == IInv /\ create_dir_all_create => IInv'
  <1> SUFFICES ASSUME IInv, create_dir_all_create PROVE IInv'
    OBVIOUS
  <1>1. Types /\ call.op = "create_dir_all" /\ ~ Direct /\ UNCHANGED control /\ Volume(vol)
    BY ZenonT(60) DEF IInv, Steps, create_dir_all_create, Direct, Types
  <1>2. PICK o \in open(vol, Head(dirs), "CreateReadWrite", TRUE) :
          /\ Apply(o)
          /\ IF o.st # "ok" THEN Return(o.st)
             ELSE /\ dirs' = Tail(dirs)
                  /\ pc' = "create_dir_all_test"
                  /\ UNCHANGED <<handles, stack, res>>
    BY ZenonT(60) DEF create_dir_all_create, create_dir
  <1>3. Opened(vol, Head(dirs), "CreateReadWrite", TRUE, o)
    BY <1>1, OpenOutcome, ZenonT(60)
  <1>4. Volume(vol') /\ flushed' \subseteq {l \in Locs : IsFile(vol', l)} /\ o.st # "panic"
    BY <1>1, <1>2, <1>3, AppliedFlushed DEF Opened
  <1>5. CASE o.st = "ok"
    <2>1. pc' \in LabelsOf(call.op) /\ UNCHANGED handles
      BY <1>1, <1>2, <1>5, ZenonT(60) DEF LabelsOf
    <2> QED
      BY <1>1, <1>4, <2>1, IndirectMoved, ZenonT(60)
  <1>6. CASE o.st # "ok"
    BY <1>1, <1>2, <1>4, <1>6, IndirectEnded, ZenonT(60)
  <1> QED
    BY <1>5, <1>6, ZenonT(60)

\* the removals of remove_dir_all, whatever their path
LEMMA AnyRemoval ==
    ASSUME Types, NEW path, NEW o, Apply(o),
           o \in remove_file(vol, path) \/ o \in remove_dir(vol, path)
    PROVE  /\ Volume(vol') /\ flushed' \subseteq {l \in Locs : IsFile(vol', l)}
           /\ o.st = "panic" => faults'
  <1>1. Volume(vol)
    BY ZenonT(60) DEF Types
  <1>2. Volume(o.vol)
    <2>1. CASE o \in remove_file(vol, path)
      <3>1. Removed(vol, path, "file", "NotAFile", o)
        BY <1>1, <2>1, RemoveOutcome, ZenonT(60) DEF remove_file
      <3> QED
        BY <3>1, ZenonT(60) DEF Removed
    <2>2. CASE o \in remove_dir(vol, path)
      <3>1. Removed(vol, path, "dir", "NotADirectory", o)
        BY <1>1, <2>2, RemoveOutcome, ZenonT(60) DEF remove_dir
      <3> QED
        BY <3>1, ZenonT(60) DEF Removed
    <2> QED
      BY <2>1, <2>2, ZenonT(60)
  <1>3. vol' = o.vol /\ flushed' \subseteq {l \in Locs : IsFile(vol', l)}
    BY AppliedFlushed, ZenonT(60)
  <1>4. o.st = "panic" => faults'
    BY ZenonT(60) DEF Apply, Faulty
  <1> QED
    BY <1>2, <1>3, <1>4, ZenonT(60)

\* Every step of remove_dir_all preserves it.
LEMMA RemoveAllSteps ==
    /\ IInv /\ remove_dir_all_open => IInv'
    /\ IInv /\ remove_dir_all_entry => IInv'
    /\ IInv /\ remove_dir_all_self => IInv'
    /\ IInv /\ remove_dir_all_read_error => IInv'
  <1> DEFINE Inside == /\ Types /\ ~ Direct /\ Volume(vol) /\ "remove_dir_all" \in LabelsOf(call.op)
  <1>0. IInv /\ pc = "remove_dir_all" => Inside
    BY DEF IInv, Types, Steps, Direct, LabelsOf
  <1>1. ASSUME IInv, remove_dir_all_open PROVE IInv'
    <2>1. Inside /\ pc = "remove_dir_all" /\ UNCHANGED control
      BY <1>0, <1>1 DEF remove_dir_all_open
    <2>2. PICK o \in open(vol, Head(stack).path, "Read", FALSE) :
          IF o.st # "ok" THEN SameVolume(o.st) /\ Return(o.st)
          ELSE \E t \in into_type(vol, Loc(Head(stack).path)) :
                 IF t = "dir"
                 THEN /\ SameVolume("ok")
                      /\ stack' = [stack EXCEPT ![1].opened = TRUE]
                      /\ UNCHANGED <<handles, dirs, res, pc>>
                 ELSE /\ SameVolume(IF t = "Err" THEN "IoError" ELSE "ok")
                      /\ Return("NotADirectory")
      BY <1>1, ZenonT(60) DEF remove_dir_all_open
    <2>3. Opened(vol, Head(stack).path, "Read", FALSE, o)
      BY <2>1, OpenOutcome, ZenonT(60)
    <2>4. Volume(vol') /\ flushed' \subseteq {l \in Locs : IsFile(vol', l)}
      BY <2>1, <2>2, SameVolumeTyped
    <2>5. \/ UNCHANGED <<handles, pc>>
          \/ \E st \in {"IoError", "NotFound", "PathError", "NotADirectory"} : Return(st)
      BY <2>2, <2>3 DEF Opened
    <2>6. CASE UNCHANGED <<handles, pc>>
      BY <2>1, <2>4, <2>6, IndirectMoved
    <2>7. CASE \E st \in {"IoError", "NotFound", "PathError", "NotADirectory"} : Return(st)
      BY <1>1, <2>1, <2>4, <2>7, IndirectEnded
    <2> QED
      BY <2>5, <2>6, <2>7
  <1>2. ASSUME IInv, remove_dir_all_entry PROVE IInv'
    <2>1. Inside /\ pc = "remove_dir_all" /\ UNCHANGED control
      BY <1>0, <1>2, ZenonT(60) DEF remove_dir_all_entry
    <2>2. PICK name \in Unseen(Head(stack)) :
            \/ SameVolume("ok") /\ UNCHANGED <<handles, pc>>
            \/ \E o \in remove_file(vol, abs_entry_path(Head(stack).path, name)) :
                   Apply(o) /\ (UNCHANGED <<handles, pc>> \/ Return(o.st))
      BY <1>2, ZenonT(60) DEF remove_dir_all_entry
    <2>3. CASE SameVolume("ok") /\ UNCHANGED <<handles, pc>>
      <3>1. Volume(vol') /\ flushed' \subseteq {l \in Locs : IsFile(vol', l)}
        BY <2>1, <2>3, SameVolumeTyped, ZenonT(60)
      <3> QED
        BY <2>1, <2>3, <3>1, IndirectMoved, ZenonT(60)
    <2>4. ASSUME NEW o \in remove_file(vol, abs_entry_path(Head(stack).path, name)),
                 Apply(o), UNCHANGED <<handles, pc>> \/ Return(o.st)
          PROVE  IInv'
      <3>1. /\ Volume(vol') /\ flushed' \subseteq {l \in Locs : IsFile(vol', l)}
            /\ o.st = "panic" => faults'
        BY <2>1, <2>4, AnyRemoval, ZenonT(60)
      <3>2. CASE UNCHANGED <<handles, pc>>
        BY <2>1, <3>1, <3>2, IndirectMoved, ZenonT(60)
      <3>3. CASE Return(o.st)
        BY <1>2, <2>1, <3>1, <3>3, IndirectEnded, ZenonT(60)
      <3> QED
        BY <2>4, <3>2, <3>3, ZenonT(60)
    <2> QED
      BY <2>2, <2>3, <2>4, ZenonT(60)
  <1>3. ASSUME IInv, remove_dir_all_self PROVE IInv'
    <2>1. Inside /\ pc = "remove_dir_all" /\ UNCHANGED control
      BY <1>0, <1>3, ZenonT(60) DEF remove_dir_all_self
    <2>2. PICK o \in remove_dir(vol, Head(stack).path) :
              Apply(o) /\ (UNCHANGED <<handles, pc>> \/ Return(o.st))
      BY <1>3, ZenonT(60) DEF remove_dir_all_self
    <2>3. /\ Volume(vol') /\ flushed' \subseteq {l \in Locs : IsFile(vol', l)}
          /\ o.st = "panic" => faults'
      BY <2>1, <2>2, AnyRemoval, ZenonT(60)
    <2>4. CASE UNCHANGED <<handles, pc>>
      BY <2>1, <2>3, <2>4, IndirectMoved, ZenonT(60)
    <2>5. CASE Return(o.st)
      BY <1>3, <2>1, <2>3, <2>5, IndirectEnded, ZenonT(60)
    <2> QED
      BY <2>2, <2>4, <2>5, ZenonT(60)
  <1>4. ASSUME IInv, remove_dir_all_read_error PROVE IInv'
    <2>1. Inside /\ pc = "remove_dir_all" /\ UNCHANGED control /\ SameVolume("IoError")
      BY <1>0, <1>4, ZenonT(60) DEF remove_dir_all_read_error
    <2>2. Volume(vol') /\ flushed' \subseteq {l \in Locs : IsFile(vol', l)}
      BY <2>1, SameVolumeTyped, ZenonT(60)
    <2>3. CASE UNCHANGED <<handles, pc>>
      BY <2>1, <2>2, <2>3, IndirectMoved, ZenonT(60)
    <2>4. CASE Return("panic")
      <3>1. faults'
        BY <2>1, ZenonT(60) DEF SameVolume, Faulty
      <3> QED
        BY <1>4, <2>1, <2>2, <2>4, <3>1, IndirectEnded, ZenonT(60)
    <2> QED
      BY <1>4, <2>3, <2>4, ZenonT(60) DEF remove_dir_all_read_error
  <1> QED
    BY <1>1, <1>2, <1>3, <1>4

-----------------------------------------------------------------------------
(* The specification *)

\* The invariant holds of every volume before the first call.
LEMMA InitialStates == Init => IInv
  <1> SUFFICES ASSUME Init PROVE IInv
    BY ZenonT(60)
  <1>1. << >> \in Datas /\ \A c \in Contents : File(c) \in Nodes
    BY ContentsAssumption DEF Datas, Nodes, File
  <1>2. {NoNode, Dir} \cup {File(c) : c \in Contents} \subseteq Nodes
    BY <1>1, ZenonT(60) DEF Nodes
  <1>3. vol \in [AllLocs -> Nodes] /\ IsTree(vol)
    BY <1>2, ZenonT(60) DEF Init
  <1>4. Volume(vol) /\ old = vol
    BY <1>3, ZenonT(60) DEF Volume, Init
  <1>5. /\ pc = "idle" /\ call.op = "none" /\ call.data = << >> /\ calls = 0 /\ remaining = 0
        /\ src = NoHandle /\ dest = NoHandle /\ flushed = {l \in Locs : IsFile(vol, l)}
    BY ZenonT(60) DEF Init, NoCall
  <1>6. Types
    <2>1. 0 \in Nat /\ 0 \in 0 .. MaxCalls
      BY MaxCallsAssumption
    <2> QED
      BY <1>1, <1>4, <1>5, <2>1, ClosedHandle, ZenonT(60) DEF Types
  <1>7. Steps /\ Begun /\ Writing /\ Copying
    BY <1>5, ZenonT(60) DEF Steps, Begun, Writing, Copying
  <1>8. Confined /\ DataSurvives
    BY <1>4, <1>5, ZenonT(60) DEF Confined, DataSurvives
  <1>9. Results
    BY <1>5, ZenonT(60) DEF Results, ResultTrue, Returned
  <1> QED
    BY <1>6, <1>7, <1>8, <1>9, ZenonT(60) DEF IInv

\* The begin of a call preserves it: nothing has happened since.
LEMMA CallStep ==
    ASSUME IInv, NEW op \in Ops, NEW path, NEW to, NEW data \in Contents \cup {<< >>},
           Call(op, path, to, data)
    PROVE  IInv'
  <1>1. /\ vol' = vol /\ old' = vol /\ flushed' = flushed /\ calls' = calls + 1
        /\ src' = src /\ dest' = dest /\ remaining' = remaining /\ calls < MaxCalls
        /\ call'.op = op /\ call'.data = data
        /\ pc' = IF op = "rename" THEN "copy" ELSE op
    BY ZenonT(60) DEF Call, handles
  <1>2. op \in {"write", "copy", "rename", "create_dir", "create_dir_all",
                "remove_file", "remove_dir", "remove_dir_all", "try_exists"}
    BY OpsAssumption, ZenonT(60)
  <1>3. data \in Datas
    <2>1. << >> \in Datas /\ Contents \subseteq Datas
      BY ContentsAssumption, EmptyData, ZenonT(60) DEF Datas
    <2> QED
      BY <2>1, ZenonT(60)
  <1>4. calls + 1 \in 0 .. MaxCalls
    <2>1. calls \in 0 .. MaxCalls /\ calls < MaxCalls
      BY <1>1, ZenonT(60) DEF IInv, Types
    <2> QED
      BY <2>1, MaxCallsAssumption
  <1>5. Types'
    BY <1>1, <1>3, <1>4, ZenonT(60) DEF IInv, Types
  <1>6. Steps' /\ Begun'
    BY <1>1, <1>2, ZenonT(60) DEF Steps, Begun, Copies
  <1>7. Writing' /\ Copying'
    BY <1>1, <1>2, ZenonT(60) DEF Writing, Copying
  <1>8. Confined' /\ DataSurvives'
    BY <1>1, ZenonT(60) DEF Confined, DataSurvives
  <1> QED
    BY <1>1, <1>2, <1>5, <1>6, <1>7, <1>8, Moved, ZenonT(60)

\* Every step preserves it.
LEMMA InvariantStep == IInv /\ [Next]_vars => IInv'
  <1> SUFFICES ASSUME IInv, [Next]_vars PROVE IInv'
    BY ZenonT(60)
  <1>1. CASE \E op \in Ops, path \in ArgPaths, to \in ArgPaths \cup {EmptyPath},
                data \in Contents \cup {<< >>} : Call(op, path, to, data)
    BY <1>1, CallStep, ZenonT(60)
  <1>2. CASE try_exists_call \/ create_dir_call \/ remove_file_call \/ remove_dir_call
    BY <1>2, TryExistsStep, CreateDirStep, RemoveFileStep, RemoveDirStep, ZenonT(60)
  <1>3. CASE write_exists \/ write_remove \/ write_open \/ write_data \/ flush
    BY <1>3, WriteExistsStep, WriteRemoveStep, WriteOpenStep, WriteDataStep, FlushStep, ZenonT(60)
  <1>4. CASE copy_open_src \/ copy_remove_dest \/ copy_open_dest \/ copy_read \/ copy_write
    BY <1>4, CopyOpenSrcStep, CopyRemoveDestStep, CopyOpenDestStep, CopyReadStep, CopyWriteStep, ZenonT(60)
  <1>5. CASE rename_remove
    BY <1>5, RenameRemoveStep, ZenonT(60)
  <1>6. CASE create_dir_all_collect \/ create_dir_all_test \/ create_dir_all_create
    BY <1>6, CollectStep, TestStep, CreateStep, ZenonT(60)
  <1>7. CASE \/ remove_dir_all_open \/ remove_dir_all_entry \/ remove_dir_all_self
             \/ remove_dir_all_read_error
    BY <1>7, RemoveAllSteps, ZenonT(60)
  <1>8. CASE UNCHANGED vars
    <2>1. UNCHANGED <<vol, flushed, src, dest, chunk, remaining, res, pc, faults, call, old, calls>>
      BY <1>8, ZenonT(60) DEF vars, handles, control
    <2>2. Types' /\ Steps' /\ Begun' /\ Writing'
      BY <2>1, ZenonT(60) DEF IInv, Types, Steps, Begun, Writing, Copies, From
    <2>3. Copying'
      BY <2>1, ZenonT(60) DEF IInv, Copying, Source, Destination, Transferred, Copies, From, To
    <2>4. Confined' /\ DataSurvives'
      BY <2>1 DEF IInv, Confined, DataSurvives, Direct, Footprint, Copies, From, To
    <2>5. Results'
      BY <2>1 DEF IInv, Results, ResultTrue, Returned, OkEffect, Reason, NoRoomFor, Direct,
                  Copies, From, To
    <2> QED
      BY <2>2, <2>3, <2>4, <2>5, ZenonT(60) DEF IInv
  <1> QED
    BY <1>1, <1>2, <1>3, <1>4, <1>5, <1>6, <1>7, <1>8, ZenonT(60) DEF Next, Progress

\* The invariant holds at every step of every operation of fs.rs.
LEMMA AlwaysIInv == Spec => []IInv
  BY InitialStates, InvariantStep, PTL DEF Spec

\* copy decides on every type the source can have.
LEMMA SourceChecked ==
    ASSUME IInv, copy_open_src
    PROVE  \E st : SameVolume(st)
  <1>1. PICK o \in open(vol, call.path, "Read", FALSE) :
          \/ SameVolume(o.st)
          \/ /\ o.st = "ok"
             /\ \E t \in into_type(vol, From) :
                   t \in {"file", "dir", "Err"} => \E st : SameVolume(st)
    BY ZenonT(60) DEF copy_open_src, From
  <1>2. Volume(vol) /\ Opened(vol, call.path, "Read", FALSE, o)
    BY OpenOutcome, ZenonT(60) DEF IInv, Types
  <1>3. CASE o.st = "ok"
    <2>1. Exists(vol, From) /\ From \in AllLocs
      BY <1>2, <1>3, ZenonT(60) DEF Opened, From, Exists, Volume
    <2>2. vol[From].kind \in {"file", "dir"}
      BY <1>2, <2>1, NodeKinds, ZenonT(60) DEF Exists
    <2> QED
      BY <1>1, <2>2, ZenonT(60) DEF into_type
  <1> QED
    BY <1>1, <1>3, ZenonT(60)

\* faults is a truth value: every step of fs.rs sets it anew, adds to it or
\* leaves it alone.
Flag == faults \in BOOLEAN

\* faults stays a truth value.
LEMMA AlwaysFlag == Spec => []Flag
  <1>1. Init => Flag
    BY ZenonT(60) DEF Init, Flag
  <1>2. ASSUME IInv, Flag, [Next]_vars PROVE Flag'
    <2> USE DEF Flag
    <2>1. \A x, y : (x \/ y) \in BOOLEAN
      BY Zenon
    <2>2. \A o : Apply(o) \/ Written(o) \/ SameVolume(o) => faults' \in BOOLEAN
      BY <2>1, Zenon DEF Apply, Written, SameVolume
    <2>3. CASE \E op \in Ops, path \in ArgPaths, to \in ArgPaths \cup {EmptyPath},
                  data \in Contents \cup {<< >>} : Call(op, path, to, data)
      BY <2>3, Zenon DEF Call
    <2>4. CASE try_exists_call \/ create_dir_call \/ remove_file_call \/ remove_dir_call
                   \/ rename_remove
      BY <2>2, <2>4, Zenon DEF try_exists_call, create_dir_call, remove_file_call,
         remove_dir_call, rename_remove, OneStep
    <2>5. CASE write_exists \/ write_remove \/ write_data
      BY <2>2, <2>5, Zenon DEF write_exists, write_remove, write_data
    <2>6. CASE write_open
      BY <2>1, <2>2, <2>6, Zenon DEF write_open
    <2>7. CASE flush
      BY <2>1, <2>7, Zenon DEF flush
    <2>8. CASE copy_open_src
      <3>1. PICK st : SameVolume(st)
        BY <1>2, <2>8, SourceChecked, ZenonT(60)
      <3> QED
        BY <2>2, <3>1, Zenon
    <2>9. CASE copy_remove_dest \/ copy_write
      BY <2>2, <2>9, Zenon DEF copy_remove_dest, copy_write
    <2>10. CASE copy_open_dest
      BY <2>1, <2>2, <2>10, Zenon DEF copy_open_dest
    <2>11. CASE copy_read
      BY <2>1, <2>2, <2>11, Zenon DEF copy_read
    <2>12. CASE create_dir_all_collect \/ create_dir_all_test \/ create_dir_all_create
      BY <1>2, <2>2, <2>12, Zenon DEF create_dir_all_collect, create_dir_all_test,
         create_dir_all_create
    <2>13. CASE remove_dir_all_open \/ remove_dir_all_self \/ remove_dir_all_read_error
      BY <2>2, <2>13, Zenon DEF remove_dir_all_open, remove_dir_all_self,
         remove_dir_all_read_error
    <2>14. CASE remove_dir_all_entry
      BY <2>2, <2>14, ZenonT(60) DEF remove_dir_all_entry
    <2>15. CASE UNCHANGED vars
      BY <1>2, <2>15, ZenonT(60) DEF vars
    <2> QED
      BY <1>2, <2>3, <2>4, <2>5, <2>6, <2>7, <2>8, <2>9, <2>10, <2>11, <2>12, <2>13, <2>14, SMTT(30),
         <2>15 DEF Next, Progress
  <1> QED
    BY <1>1, <1>2, AlwaysIInv, PTL DEF Spec

\* The type invariant: the volume is a tree at every step of every operation
\* of fs.rs, a flush is owed only to a file that is there, and remaining_size
\* of copy never falls below zero.
THEOREM VolumeTyped == Spec => []TypeOK
  <1>1. IInv /\ Flag => TypeOK
    <2> SUFFICES ASSUME IInv, Flag PROVE TypeOK
      BY ZenonT(60)
    <2>1. DOMAIN vol = AllLocs /\ IsTree(vol)
      BY ZenonT(60) DEF IInv, Types, Volume
    <2>2. \A h \in {src, dest} : h.loc \in AllLocs /\ h.pos \in Nat
      BY ZenonT(60) DEF IInv, Types, IsHandle
    <2>3. /\ flushed \subseteq {l \in Locs : IsFile(vol, l)}
          /\ remaining \in Nat /\ calls \in 0 .. MaxCalls
      BY DEF IInv, Types
    <2> QED
      BY <2>1, <2>2, <2>3, Zenon DEF TypeOK, Flag
  <1> QED
    BY <1>1, AlwaysIInv, AlwaysFlag, PTL

\* Data survives a power loss at any step of rename (fs.rs:347) and of write
\* (fs.rs:362), whatever the volume, the paths, the contents, the size of the
\* copy buffer and the faults of the firmware.
THEOREM DataSurvivesCorrect == Spec => []DataSurvives
  <1>1. IInv => DataSurvives
    BY DEF IInv
  <1> QED
    BY <1>1, AlwaysIInv, PTL

\* try_exists, create_dir, remove_file, remove_dir, write, copy and rename
\* (fs.rs) touch only the paths they are given, also when an error or a power
\* loss cuts them off.
THEOREM DirectOperationsConfined == Spec => [](Direct => TouchesOnlyItsPaths)
  <1>1. IInv /\ TypeOK => (Direct => TouchesOnlyItsPaths)
    BY DEF IInv, Confined, TouchesOnlyItsPaths
  <1> QED
    BY <1>1, AlwaysIInv, VolumeTyped, PTL

\* The results of the same operations are true: Ok means done and flushed, an
\* error without a fault of the firmware has a reason in the arguments or the
\* volume.
THEOREM DirectResultsTrue == Spec => [](Direct => ResultTrue)
  <1>1. IInv => (Direct => ResultTrue)
    BY DEF IInv, Results
  <1> QED
    BY <1>1, AlwaysIInv, PTL

\* No unwrap of any operation of fs.rs panics while the firmware does what it
\* is asked.
THEOREM OnlyFaultsPanic == Spec => [](pc = "panicked" => faults)
  <1>1. IInv => (pc = "panicked" => faults)
    BY DEF IInv, Results
  <1> QED
    BY <1>1, AlwaysIInv, PTL

=============================================================================
