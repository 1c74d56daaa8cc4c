------------------------------- MODULE Ext2Dir -------------------------------
(* The directory operations of the ext2 driver, drivers/fs/ext2: what each  *)
(* does to the entries, the inode bitmap and the link counts of a volume.   *)
(*                                                                          *)
(* A volume is a record: type[no] is the kind of an inode, "free" when its  *)
(* bit of the inode bitmap is clear; links[no] its link count on the disk;  *)
(* ent[no][name] the inode a directory gives a name, 0 when it has no such  *)
(* entry.  "." and ".." are left out: they are never searched by name.      *)
(* Times, modes and the blocks of the directories are left out.  An         *)
(* operation is an operator from the volume before to the volume after; it  *)
(* fails, and changes nothing, where its guard Can... is false.             *)
EXTENDS Naturals, FiniteSets

CONSTANTS Inos, Names, Root

NoEntries == [n \in Names |-> 0]

(* A volume with the directories `dirs` and the files `files` in its root.  *)
Volume(dirs, files) ==
    LET named(f, i) == \E n \in DOMAIN f : f[n] = i
    IN  [type |-> [i \in Inos |-> IF i = Root \/ named(dirs, i) THEN "dir"
                                  ELSE IF named(files, i) THEN "reg" ELSE "free"],
         links |-> [i \in Inos |-> IF i = Root THEN 2 + Cardinality(DOMAIN dirs)
                                   ELSE IF named(dirs, i) THEN 2
                                   ELSE IF named(files, i) THEN 1 ELSE 0],
         ent |-> [i \in Inos |-> [n \in Names |->
                     IF i # Root THEN 0
                     ELSE IF n \in DOMAIN dirs THEN dirs[n]
                     ELSE IF n \in DOMAIN files THEN files[n] ELSE 0]]]

(* ext2_search_inode *)
Search(vol, dir, name) == vol.ent[dir][name]

FreeInodes(vol) == {i \in Inos : vol.type[i] = "free"}

(* ext2_alloc_inode: the first clear bit of the bitmap.                     *)
AllocInode(vol) == CHOOSE i \in FreeInodes(vol) : \A j \in FreeInodes(vol) : i <= j

(* ext2_mknod_generic, for ext2_create and ext2_mkdir.                      *)
CanMknod(vol, dir, name) == Search(vol, dir, name) = 0

Mknod(vol, dir, name, type) ==
    LET no == AllocInode(vol)
        sub == IF type = "dir" THEN 1 ELSE 0
    IN  [type |-> [vol.type EXCEPT ![no] = type],
         links |-> [vol.links EXCEPT ![no] = 1 + sub, ![dir] = @ + sub],
         ent |-> [vol.ent EXCEPT ![no] = NoEntries, ![dir][name] = no]]

(* ext2_rmdir: the name is a directory, without entries nor other links.    *)
(* Its record is reset here; ext2 resets it when the number is used again.  *)
CanRmdir(vol, dir, name) ==
    LET no == Search(vol, dir, name)
    IN  /\ no # 0
        /\ vol.type[no] = "dir"
        /\ vol.ent[no] = NoEntries
        /\ vol.links[no] = 2

Rmdir(vol, dir, name) ==
    LET no == Search(vol, dir, name)
    IN  [type |-> [vol.type EXCEPT ![no] = "free"],
         links |-> [vol.links EXCEPT ![dir] = @ - 1, ![no] = 0],
         ent |-> [vol.ent EXCEPT ![dir][name] = 0]]

(* ext2_unlink: the inode is freed with its last name, open or not.         *)
CanUnlink(vol, dir, name) ==
    LET no == Search(vol, dir, name) IN no # 0 /\ vol.type[no] # "dir"


Unlink(vol, dir, name) ==
    LET no == Search(vol, dir, name)
    IN  [type |-> [vol.type EXCEPT ![no] = IF vol.links[no] = 1 THEN "free" ELSE @],
         links |-> [vol.links EXCEPT ![no] = @ - 1],
         ent |-> [vol.ent EXCEPT ![dir][name] = 0]]

(* ext2_link *)
CanLink(vol, dir, name, no) == vol.type[no] # "dir" /\ Search(vol, dir, name) = 0

Link(vol, dir, name, no) ==
    [vol EXCEPT !.links[no] = @ + 1, !.ent[dir][name] = no]

(* ext2_rename: the name it moves must exist, the one it makes is not       *)
(* looked for.                                                              *)
CanRename(vol, src, name) == Search(vol, src, name) # 0

Rename(vol, src, name, dst, new) ==
    LET no == Search(vol, src, name)
    IN  [vol EXCEPT !.ent = [[@ EXCEPT ![dst][new] = no] EXCEPT ![src][name] = 0]]

(* The links of a volume are those of its names, and no name is left of a   *)
(* freed inode.                                                             *)
NamesOf(vol, no) == {d \in Inos \X Names : vol.ent[d[1]][d[2]] = no}

SubDirs(vol, no) == {n \in Names : vol.ent[no][n] # 0 /\ vol.type[vol.ent[no][n]] = "dir"}

LinksExact(vol) ==
    \A no \in Inos :
        /\ vol.type[no] = "reg" => vol.links[no] = Cardinality(NamesOf(vol, no))
        /\ vol.type[no] = "dir" => vol.links[no] = 2 + Cardinality(SubDirs(vol, no))
        /\ vol.type[no] = "free" => NamesOf(vol, no) = {} /\ vol.links[no] = 0
=============================================================================
