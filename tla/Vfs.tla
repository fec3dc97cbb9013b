-------------------------------- MODULE Vfs --------------------------------
(***************************************************************************)
(* The file-system layer: the list of mounts and the path walk of          *)
(* kernel/src/fs/vfs.c, over archives looked up as in tmpfs.c.             *)
(*                                                                         *)
(* A path is a mount and a sequence of names, a node the mount and the     *)
(* names that lead to it.  vfs_find works on a copy of the path, temp; one *)
(* turn of its loops is a step.  After the last name it goes on reading    *)
(* one byte behind the copy: what it finds there is any name or the end.   *)
(***************************************************************************)
EXTENDS Naturals, Sequences, SequencesExt

CONSTANTS
  Mounts,    \* names of file systems
  Names,     \* names of files and directories
  Tree,      \* the files and directories of an archive, as sequences of names
  Dirs,      \* those that are directories
  MaxPath,   \* bound: names in a path
  MaxFinds   \* bound: calls of vfs_find

NULL == <<"NULL">>

(* What leads to a file is a directory; the null pointer is no node. *)
ASSUME VfsAssumption ==
  /\ Tree \subseteq Seq(Names) /\ <<>> \in Tree /\ Dirs \subseteq Tree /\ NULL \notin Tree
  /\ \A n \in Tree : \A m \in 0 .. Len(n) - 1 : SubSeq(n, 1, m) \in Dirs
  /\ MaxPath \in Nat /\ MaxFinds \in Nat

VARIABLES
  mounted,    \* the list from vfs_head on
  last_next,  \* next of the last mount: 0, or whatever its memory held
  find_at,    \* where vfs_find is
  path,       \* what it looks for
  mount_i,    \* how many mounts it has passed
  name_i,     \* the name it is at
  current,    \* the node it has come to
  temps,      \* copies of paths that are not freed
  result,     \* what the last call returned
  finds,      \* history: calls so far
  found,      \* history: calls that returned a node
  overread    \* history: the last call read a name behind its copy

vfs_vars ==
  <<mounted, last_next, find_at, path, mount_i, name_i, current, temps, result, finds, found, overread>>

Path == [mount : Mounts, names : UNION {[1 .. n -> Names] : n \in 0 .. MaxPath}]
NoPath == [mount |-> "none", names |-> <<>>]

VfsInit ==
  /\ mounted = <<>> /\ last_next = 0
  /\ find_at = "idle" /\ path = NoPath /\ mount_i = 0 /\ name_i = 1 /\ current = <<>>
  /\ temps = 0 /\ result = NULL /\ finds = 0 /\ found = 0 /\ overread = FALSE

----------------------------------------------------------------------------
(* vfs_register: next is set to NULL only for the first mount, and the     *)
(* search for the last one follows it.                                     *)
vfs_register(m) ==
  /\ find_at = "idle" /\ ~Contains(mounted, m)
  /\ IF last_next # 0 THEN find_at' = "fault" /\ UNCHANGED <<mounted, last_next>>
     ELSE /\ mounted' = Append(mounted, m)
          /\ last_next' \in (IF mounted = <<>> THEN {0} ELSE {0, 1})
          /\ find_at' = find_at
  /\ UNCHANGED <<path, mount_i, name_i, current, temps, result, finds, found, overread>>

vfs_find(p) ==
  /\ find_at = "idle" /\ finds < MaxFinds
  /\ find_at' = "mount" /\ path' = p /\ mount_i' = 0 /\ name_i' = 1 /\ current' = <<>>
  /\ temps' = temps + 1 /\ finds' = finds + 1 /\ overread' = FALSE
  /\ UNCHANGED <<mounted, last_next, result, found>>

(* Mutant: the search starts behind the first mount. *)
Mutant_FindMount ==
  /\ find_at = "mount"
  /\ \/ /\ mount_i = Len(mounted)
        /\ find_at' = "fault" /\ UNCHANGED <<mount_i, current>>
     \/ /\ mount_i \in 1 .. Len(mounted) - 1 /\ mounted[mount_i + 1] = path.mount
        /\ find_at' = "walk" /\ current' = <<>> /\ UNCHANGED mount_i
     \/ /\ mount_i < Len(mounted) /\ (mount_i = 0 \/ mounted[mount_i + 1] # path.mount)
        /\ mount_i' = mount_i + 1 /\ UNCHANGED <<find_at, current>>
  /\ UNCHANGED <<mounted, last_next, path, name_i, temps, result, finds, found, overread>>

(* Mutant: the search does not follow next. *)
Mutant_FindMount_stuck ==
  /\ find_at = "mount"
  /\ mount_i < Len(mounted) /\ mounted[mount_i + 1] = path.mount
  /\ find_at' = "walk" /\ current' = <<>>
  /\ UNCHANGED <<mounted, last_next, path, mount_i, name_i, temps, result, finds, found, overread>>

(* The comparison comes before the test for the end of the list.           *)
FindMount ==
  /\ find_at = "mount"
  /\ \/ /\ mount_i = Len(mounted)
        /\ find_at' = "fault" /\ UNCHANGED <<mount_i, current>>
     \/ /\ mount_i < Len(mounted) /\ mounted[mount_i + 1] = path.mount
        /\ find_at' = "walk" /\ current' = <<>> /\ UNCHANGED mount_i
     \/ /\ mount_i < Len(mounted) /\ mounted[mount_i + 1] # path.mount
        /\ mount_i' = mount_i + 1 /\ UNCHANGED <<find_at, current>>
  /\ UNCHANGED <<mounted, last_next, path, name_i, temps, result, finds, found, overread>>

(* arc_lookup in a file finds no table.                                    *)
(* Mutant: the entry after the one that matches. *)
Mutant_arc_lookup(node, name) ==
  IF node \in Dirs /\ \E n \in Names \ {name} : Append(node, n) \in Tree
  THEN Append(node, CHOOSE n \in Names \ {name} : Append(node, n) \in Tree) ELSE NULL

arc_lookup(node, name) ==
  IF node \in Dirs /\ Append(node, name) \in Tree THEN Append(node, name) ELSE NULL

(* Go to the node with this name, or free the copy and return NULL.        *)
(* Mutant: the copy is not freed. *)
Mutant_Lookup(name) ==
  LET node == arc_lookup(current, name)
  IN  IF node # NULL THEN current' = node /\ UNCHANGED <<find_at, temps, result>>
      ELSE find_at' = "idle" /\ result' = NULL /\ UNCHANGED <<current, temps>>

(* Mutant: the copy is freed, but the walk goes on. *)
Mutant_Lookup_on(name) ==
  LET node == arc_lookup(current, name)
  IN  IF node # NULL THEN current' = node /\ UNCHANGED <<find_at, temps, result>>
      ELSE temps' = temps - 1 /\ UNCHANGED <<find_at, result, current>>

Lookup(name) ==
  LET node == arc_lookup(current, name)
  IN  IF node # NULL THEN current' = node /\ UNCHANGED <<find_at, temps, result>>
      ELSE find_at' = "idle" /\ result' = NULL /\ temps' = temps - 1 /\ UNCHANGED current

Walk ==
  /\ find_at = "walk" /\ name_i <= Len(path.names)
  /\ Lookup(path.names[name_i])
  /\ name_i' = name_i + 1
  /\ UNCHANGED <<mounted, last_next, path, mount_i, finds, found, overread>>

(* The walk is at the end of a path without names, or has read a zero      *)
(* behind one with names.  The copy is not freed.                          *)
Return ==
  /\ find_at = "walk" /\ name_i > Len(path.names)
  /\ find_at' = "idle" /\ result' = current /\ found' = found + 1
  /\ UNCHANGED <<mounted, last_next, path, mount_i, name_i, current, temps, finds, overread>>

(* The byte behind a path with names is not zero. *)
Overread(name) ==
  /\ find_at = "walk" /\ name_i > Len(path.names) /\ path.names # <<>>
  /\ overread' = TRUE
  /\ Lookup(name)
  /\ UNCHANGED <<mounted, last_next, path, mount_i, name_i, finds, found>>

Continue == FindMount \/ Walk \/ Return \/ \E name \in Names : Overread(name)
VfsNext ==
  \/ \E m \in Mounts : vfs_register(m)
  \/ \E p \in Path : vfs_find(p)
  \/ Continue

(* A call that has begun goes on. *)
VfsSpec == VfsInit /\ [][VfsNext]_vfs_vars /\ WF_vfs_vars(Continue)

----------------------------------------------------------------------------
(* The shape of the state. *)
VfsTypeOK ==
  /\ IsInjective(mounted) /\ Range(mounted) \subseteq Mounts
  /\ find_at \in {"idle", "mount", "walk", "fault"} /\ last_next \in {0, 1}
  /\ path \in Path \union {NoPath} /\ mount_i \in 0 .. Len(mounted) /\ name_i \in 1 .. MaxPath + 1
  /\ current \in Tree /\ result \in Tree \union {NULL}
  /\ temps \in 0 .. MaxFinds /\ finds \in 0 .. MaxFinds /\ found \in 0 .. MaxFinds

Returned == find_at = "idle" /\ finds > 0

(* A node that vfs_find returns lies on the path or behind it, and is the  *)
(* one that was asked for unless the walk has read behind its copy.        *)
FoundOnPath ==
  Returned /\ result # NULL =>
    /\ IsPrefix(path.names, result)
    /\ overread \/ result = path.names

(* NULL is returned for what does not exist, and after reading behind the  *)
(* copy of the path, but never otherwise.                                  *)
NullCauses ==
  Returned /\ result = NULL => path.names \notin Tree \/ overread

(* The kernel dies on a file system that is not mounted, or when another   *)
(* one is mounted behind one whose next is not NULL.                       *)
FindFaultCauses ==
  find_at = "fault" =>
    \/ last_next # 0
    \/ ~Contains(mounted, path.mount)

(* Each successful call leaves the copy of its path behind; no other does. *)
TempsAreFound == find_at = "idle" => temps = found

(* What a search returns is right, or read behind the copy of its path,    *)
(* and a search keeps that copy exactly when it finds something.           *)
FindSound == VfsTypeOK /\ FoundOnPath /\ NullCauses /\ TempsAreFound

(* Each call of vfs_find returns or kills the kernel. *)
FindReturns == find_at \in {"mount", "walk"} ~> find_at \in {"idle", "fault"}
=============================================================================
