--------------------------------- MODULE SlFs ---------------------------------
(***************************************************************************)
(* The libc file interface of the SimpleLink port (sl_fs.c, sl_fs_slfs.c): *)
(* a table of descriptors and one of size hints over the file system of    *)
(* the network processor, which is external: it may refuse to open a file, *)
(* keeps a file that is open for writing to one handle, reads no further   *)
(* than the end and writes no further than the size a file was made with.  *)
(* Paths are sequences of their parts, data are sequences of bytes.        *)
(***************************************************************************)
EXTENDS Integers, Sequences, SequencesExt, FiniteSets, FiniteSetsExt, Functions

CONSTANTS Names,     \* of files, as paths
          Paths,     \* what open and unlink are called with
          HintSizes, \* what fs_slfs_set_new_file_size is called with
          MaxOpen,   \* MAX_OPEN_SLFS_FILES
          MaxSize,   \* FS_SLFS_MAX_FILE_SIZE
          MaxOpens,  \* bounds the files opened
          MaxHints   \* bounds the hints given

VARIABLES
    fds,     \* s_sl_fds, numbered from 0, with the name and mode of the handle; what a
             \* free entry (fh <= 0) still holds is never read and left out
    hints,   \* s_sl_file_size_hints
    disk,    \* the files on the device: largest size and data
    handles, \* the handles that are open on the device
    opened,  \* history: how often a file was opened
    given,   \* history: the hints that were taken, in order, and those that were used
    reads    \* history: of each descriptor, the bytes read since it was opened,
             \* whether a read failed, and whether its offset was set, which ends the record

vars == <<fds, hints, disk, handles, opened, given, reads>>

NULL == <<>>
SLFS_FD_BASE == 100
Slots == 0..(MaxOpen - 1)
FreeFd == [fh |-> 0, pos |-> 0, size |-> -1, name |-> NULL, reading |-> FALSE]
NoFile == [max |-> -1, data |-> <<>>]
NoReads == [got |-> <<>>, failed |-> FALSE, sought |-> FALSE]

Init ==
    /\ fds = [i \in Slots |-> FreeFd]
    /\ hints = [i \in Slots |-> [name |-> NULL, size |-> 0]]
    /\ disk = [n \in Names |-> NoFile]
    /\ handles = {} /\ opened = 0 /\ given = [taken |-> <<>>, used |-> <<>>]
    /\ reads = [i \in Slots |-> NoReads]
-----------------------------------------------------------------------------
(* Paths and descriptors *)

\* drop_dir: a leading "./" goes, then a "/" that is the only one.
DropDir(path) ==
    LET p == IF path # <<>> /\ path[1] = "./" THEN Tail(path) ELSE path
        slashes == {i \in DOMAIN p : p[i] \in {"/", "d/"}}
    IN  IF p # <<>> /\ p[1] = "/" /\ slashes = {1} THEN Tail(p) ELSE p

\* The callers and fs_slfs_* both do it.
Name(path) == DropDir(DropDir(path))

\* fd_type: the system's descriptors come before those of the table.
IsSlfs(fd) == fd \in SLFS_FD_BASE..(SLFS_FD_BASE + MaxOpen - 1)
Live(fd) == IsSlfs(fd) /\ fds[fd - SLFS_FD_BASE].fh > 0

FreeSlot == {i \in Slots : fds[i].fh <= 0}
FreshHandle == CHOOSE h \in 1..(MaxOpen + 1) : h \notin {x.fh : x \in handles}
InUse(name) == {x \in handles : x.name = name}
-----------------------------------------------------------------------------
(* fs_slfs_open, after _open has seen that the path is one of this file system *)

\* sl_FsOpen (external) gives the handle for slot i, or refuses.
Opened(i, name, reading) ==
    /\ fds' = [fds EXCEPT ![i] = [fh |-> FreshHandle, pos |-> 0, name |-> name, reading |-> reading,
                                  size |-> IF reading /\ disk[name] # NoFile THEN Len(disk[name].data) ELSE -1]]
    /\ handles' = handles \cup {[fh |-> FreshHandle, name |-> name, reading |-> reading]}
    /\ reads' = [reads EXCEPT ![i] = NoReads]

Refused == UNCHANGED <<fds, handles, reads>>

Count == opened < MaxOpens /\ opened' = opened + 1

OpenFull(name) == /\ FreeSlot = {} /\ name \in Names /\ Count
                  /\ UNCHANGED <<fds, hints, disk, handles, given, reads>>

OpenRead(name) ==
    /\ FreeSlot # {} /\ name \in Names /\ Count
    /\ \/ /\ disk[name] # NoFile /\ \A x \in InUse(name) : x.reading
          /\ Opened(Min(FreeSlot), name, TRUE)
       \/ Refused
    /\ UNCHANGED <<hints, disk, given>>

\* O_APPEND, or no O_TRUNC: ENOTSUP.
OpenAppend(name) ==
    /\ FreeSlot # {} /\ name \in Names /\ Count
    /\ Refused /\ UNCHANGED <<hints, disk, given>>

\* O_TRUNC without O_CREAT.
OpenWrite(name) ==
    /\ FreeSlot # {} /\ name \in Names /\ Count
    /\ \/ /\ disk[name] # NoFile /\ InUse(name) = {}
          /\ Opened(Min(FreeSlot), name, FALSE)
          /\ disk' = [disk EXCEPT ![name].data = <<>>]
       \/ Refused /\ UNCHANGED disk
    /\ UNCHANGED <<hints, given>>

\* A slip in the next: the hint stays.
AfterUse_Slip(hs, i) == hs

\* A hint that was used is given back to the table.
AfterUse(hs, i) == [hs EXCEPT ![i].name = NULL]

\* O_CREAT with O_TRUNC: the first hint for the name is used up, also when the
\* device then refuses.
OpenCreate(name) ==
    LET found == {i \in Slots : hints[i].name = name}
        size == IF found = {} THEN MaxSize ELSE hints[Min(found)].size
    IN  /\ FreeSlot # {} /\ name \in Names /\ Count
        /\ IF found = {} THEN UNCHANGED <<hints, given>>
           ELSE /\ hints' = AfterUse(hints, Min(found))
                /\ given' = [given EXCEPT !.used = Append(@, hints[Min(found)])]
        /\ \/ /\ InUse(name) = {}
              /\ Opened(Min(FreeSlot), name, FALSE)
              /\ disk' = [disk EXCEPT ![name] = [max |-> size, data |-> <<>>]]
           \/ Refused /\ UNCHANGED disk

\* fs_slfs_set_new_file_size: without room in the table the hint is lost.
SetNewFileSize(name, size) ==
    LET free == {i \in Slots : hints[i].name = NULL}
    IN  /\ Len(given.taken) < MaxHints
        /\ free # {}
        /\ hints' = [hints EXCEPT ![Min(free)] = [name |-> name, size |-> size]]
        /\ given' = [given EXCEPT !.taken = Append(@, [name |-> name, size |-> size])]
        /\ UNCHANGED <<fds, disk, handles, opened, reads>>
-----------------------------------------------------------------------------
(* The operations on a descriptor: those on one that is not open change nothing *)

\* The end of file, which the device takes for an error.
AtEnd(f) == f.pos = f.size

Read(fd, count) ==
    LET i == fd - SLFS_FD_BASE
        f == fds[i]
        data == disk[f.name].data
        n == Min({count, Len(data) - f.pos})
    IN  /\ Live(fd)
        /\ IF AtEnd(f) THEN UNCHANGED <<fds, reads>>
           ELSE IF f.reading /\ f.pos < Len(data)
           THEN /\ fds' = [fds EXCEPT ![i].pos = @ + n]
                /\ reads' = [reads EXCEPT ![i].got = IF reads[i].sought THEN @
                                                     ELSE @ \o SubSeq(data, f.pos + 1, f.pos + n)]
           ELSE reads' = [reads EXCEPT ![i].failed = ~reads[i].sought] /\ UNCHANGED fds
        /\ UNCHANGED <<hints, disk, handles, opened, given>>

\* Bytes are numbered by their place; what is skipped is 0.
Write(fd, count) ==
    LET i == fd - SLFS_FD_BASE
        f == fds[i]
        old == disk[f.name].data
        data == [k \in 1..Max({Len(old), f.pos + count}) |->
                    IF k \in (f.pos + 1)..(f.pos + count) THEN k ELSE IF k <= Len(old) THEN old[k] ELSE 0]
    IN  /\ Live(fd)
        /\ IF ~f.reading /\ f.pos + count <= disk[f.name].max
           THEN /\ fds' = [fds EXCEPT ![i].pos = @ + count]
                /\ disk' = [disk EXCEPT ![f.name].data = data]
           ELSE UNCHANGED <<fds, disk>>
        /\ UNCHANGED <<hints, handles, opened, given, reads>>

\* SEEK_SET; SEEK_END is not supported.
Lseek(fd, offset) ==
    /\ Live(fd)
    /\ fds' = [fds EXCEPT ![fd - SLFS_FD_BASE].pos = offset]
    /\ reads' = [reads EXCEPT ![fd - SLFS_FD_BASE] = [NoReads EXCEPT !.sought = TRUE]]
    /\ UNCHANGED <<hints, disk, handles, opened, given>>

Close(fd) ==
    LET i == fd - SLFS_FD_BASE
    IN  /\ Live(fd)
        /\ handles' = {x \in handles : x.fh # fds[i].fh}
        /\ fds' = [fds EXCEPT ![i] = FreeFd]
        /\ reads' = [reads EXCEPT ![i] = NoReads]
        /\ UNCHANGED <<hints, disk, opened, given>>

\* The device does not delete a file that is open.
Unlink(name) ==
    /\ name \in Names /\ disk[name] # NoFile /\ InUse(name) = {}
    /\ disk' = [disk EXCEPT ![name] = NoFile]
    /\ UNCHANGED <<fds, hints, handles, opened, given, reads>>

Next ==
    \/ \E p \in Paths : \/ OpenFull(Name(p)) \/ OpenRead(Name(p)) \/ OpenAppend(Name(p))
                        \/ OpenWrite(Name(p)) \/ OpenCreate(Name(p)) \/ Unlink(Name(p))
    \/ \E name \in Names, size \in HintSizes : SetNewFileSize(name, size)
    \/ \E fd \in {1} \cup SLFS_FD_BASE..(SLFS_FD_BASE + MaxOpen) :
          \/ \E n \in {1, 2} : Read(fd, n) \/ Write(fd, n)
          \/ Lseek(fd, 0) \/ Lseek(fd, MaxSize) \/ Close(fd)

Spec == Init /\ [][Next]_vars
-----------------------------------------------------------------------------
(* Properties *)

TypeOK ==
    /\ \A i \in Slots : fds[i].fh \in 0..(MaxOpen + 1) /\ fds[i].pos \in Nat
    /\ \A n \in Names : disk[n] # NoFile => Len(disk[n].data) <= disk[n].max
    /\ opened \in 0..MaxOpens

\* Every handle that is open on the device is that of one descriptor, with the
\* file and the mode it was opened for, and every open descriptor has one: a
\* refusal, a full table or a failed open leaks none.
HandlesOwned ==
    /\ handles = {[fh |-> fds[i].fh, name |-> fds[i].name, reading |-> fds[i].reading] : i \in Slots \ FreeSlot}
    /\ \A i, j \in Slots \ FreeSlot : fds[i].fh = fds[j].fh => i = j

\* A file that is only read from its start gives its data in order and then an
\* end of file, never an error, whatever is opened, written or closed besides.
ReadsWhole ==
    \A i \in Slots \ FreeSlot : fds[i].reading /\ ~reads[i].sought =>
        /\ reads[i].got = SubSeq(disk[fds[i].name].data, 1, fds[i].pos)
        /\ ~reads[i].failed

\* A hint that was taken is kept until a file of that name is created, and used
\* for one; a file has the size that was asked for it, or the default.
HintsUsedOnce ==
    LET Times(h, s) == Cardinality({k \in DOMAIN s : s[k] = h})
    IN  /\ \A name \in Names, size \in HintSizes :
              LET h == [name |-> name, size |-> size]
              IN  Times(h, hints) + Times(h, given.used) = Times(h, given.taken)
        /\ \A n \in Names : disk[n] # NoFile =>
              disk[n].max = MaxSize \/ [name |-> n, size |-> disk[n].max] \in Range(given.used)
=============================================================================
