---------------------------- MODULE Mountpoints ----------------------------
(***************************************************************************)
(* The root file system on its way into the images (GenimageWrapper.c,     *)
(* collect_mountpoints): it is copied into the temporary directory, and    *)
(* then each mountpoint's directory is moved out of the copy, to a         *)
(* directory named after the mountpoint with its slashes replaced, and     *)
(* made anew, empty, in the copy.  Mountpoints are told apart as strings.  *)
(***************************************************************************)
EXTENDS Integers, Sequences, FiniteSets, SequencesExt

\* A name is a sequence of words, as if joined by "-"; a path is a sequence of
\* names, as if joined by "/".  The empty name is what a slash at the begin or
\* the end of a path leaves.
EmptyName == <<"">>
Path == Seq(Seq(STRING))

\* A tree is the set of the paths in it, directories and files.
IsTree(t) == t \subseteq Path /\ \A q \in t : q # << >> /\ \A n \in 1 .. Len(q) - 1 : SubSeq(q, 1, n) \in t

VARIABLES
  mount,       \* image->mountpoint, without its leading slash (never changes)
  mountpoints, \* the list, without the root's
  next,        \* the one its loop is at; 0 before the copy
  copy,        \* the root directory in tmppath, as a tree
  moved        \* the mp- directories in tmppath: the tree in each, by name

mounting == <<mountpoints, next, copy, moved>>

-----------------------------------------------------------------------------
\* The directory a path names.
DirOf(path) == FlattenSeq([i \in DOMAIN path |-> IF path[i] = EmptyName THEN << >> ELSE <<path[i]>>])

\* sanitize_path: every "/" becomes a "-".
Sanitized(path) == FlattenSeq(path)

Inside(t, dir) == {SubSeq(q, Len(dir) + 1, Len(q)) : q \in {r \in t : IsStrictPrefix(dir, r)}}
Without(t, dir) == t \ {q \in t : IsStrictPrefix(dir, q)}

MountInit ==
  /\ mountpoints = << >> /\ next = 0
  /\ copy = {} /\ moved = << >>

-----------------------------------------------------------------------------
\* cp -a, and the list of the mountpoints of the images, once each, in the
\* order of the images.  "" is the root, which is in the list from the start.
AddMountpoint(list, path) ==
  IF path = << >> \/ path \in Range(list) THEN list ELSE Append(list, path)

\* mountpath: where the files of an image are.
MountOf(f) == IF f \in DOMAIN mount THEN mount[f] ELSE << >>

MountpointsOf(list) ==
  LET of[n \in 0 .. Len(list)] == IF n = 0 THEN << >> ELSE AddMountpoint(of[n - 1], MountOf(list[n]))
  IN  of[Len(list)]

CopyRoot(tree, list) ==
  /\ next = 0 /\ next' = 1
  /\ copy' = tree
  /\ mountpoints' = MountpointsOf(list)
  /\ moved' = moved

\* mv: into a directory that is there already, onto one in it that is empty.
Here == mountpoints[next]
Dir == DirOf(Here)
Target == Sanitized(Here)
Base == <<Last(Dir)>>

CanMove ==
  /\ Dir \in copy
  /\ Target \in DOMAIN moved => Inside(moved[Target], Base) = {}

MovedTree ==
  IF Target \in DOMAIN moved
  THEN moved[Target] \cup {Base} \cup {Base \o q : q \in Inside(copy, Dir)}
  ELSE Inside(copy, Dir)

\* mv, mkdir, chmod and chown for one mountpoint.
\* Mistaken variant: the directory is copied, not moved.
MoveMountpointCopy ==
  /\ next \in 1 .. Len(mountpoints) /\ CanMove
  /\ moved' = [x \in DOMAIN moved \cup {Target} |-> IF x = Target THEN MovedTree ELSE moved[x]]
  /\ next' = next + 1
  /\ UNCHANGED <<mountpoints, copy>>

MoveMountpoint ==
  /\ next \in 1 .. Len(mountpoints) /\ CanMove
  /\ moved' = [x \in DOMAIN moved \cup {Target} |-> IF x = Target THEN MovedTree ELSE moved[x]]
  /\ copy' = Without(copy, Dir)
  /\ next' = next + 1
  /\ UNCHANGED mountpoints

AllMoved == next > 0 /\ next > Len(mountpoints)

\* The files of an image.
TreeOf(f) == IF MountOf(f) = << >> THEN copy ELSE moved[Sanitized(MountOf(f))]

-----------------------------------------------------------------------------
\* What the documentation promises: "The content of ${rootpath}${mountpoint}
\* will be used to fill the filesystem"; what is below another mountpoint goes
\* to that one's image, which leaves an empty directory.
PromisedTree(f, tree) ==
  LET dir == DirOf(MountOf(f))
      below == {DirOf(mount[g]) : g \in {h \in DOMAIN mount : IsStrictPrefix(dir, DirOf(mount[h]))}}
  IN  {q \in Inside(tree, dir) : \A m \in below : ~IsStrictPrefix(m, dir \o q)}

\* Two mountpoints that mean one directory, or get one name, in different words.
Clashes(f) ==
  \E g \in DOMAIN mount :
    /\ mount[g] # MountOf(f)
    /\ \/ DirOf(mount[g]) = DirOf(MountOf(f))
       \/ Sanitized(mount[g]) = Sanitized(MountOf(f)) /\ MountOf(f) # << >>
=============================================================================
