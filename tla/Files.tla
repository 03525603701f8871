------------------------------- MODULE Files --------------------------------
(***************************************************************************)
(* newlib/_syscalls.c, as built with OS_USE_SEMIHOSTING: the descriptors   *)
(* of the C library are slots of a table, each with the handle of a file   *)
(* the debugger's host has open and the position in it.  The host is       *)
(* external; of a file it keeps the length.                                *)
(***************************************************************************)
EXTENDS Integers, FiniteSetsExt

CONSTANTS
  MaxOpenFiles, \* MAX_OPEN_FILES
  HostHandle,   \* the handles the host has
  Path,         \* the names of files
  FlagSets,     \* the flags files are opened with
  FileCaller,   \* the tasks that use files
  HostFails,    \* the calls that may fail for no reason the model knows
  MaxLength     \* no file grows, and no position moves, beyond (a bound)

ASSUME FilesAssumption ==
  /\ MaxOpenFiles \in Nat /\ MaxOpenFiles >= 3
  /\ HostHandle \subseteq Nat /\ Cardinality(HostHandle) >= 3
  /\ {"tt", "none"} \cap Path = {}
  /\ MaxLength \in Nat
  /\ \A flags \in FlagSets :
       flags \subseteq {"wronly", "rdwr", "creat", "trunc", "excl", "append"}
  /\ HostFails \subseteq {"open", "close", "flen", "seek", "transfer"}
  /\ ~({"close", "flen"} \subseteq HostFails) \* never both calls of one _stat

VARIABLES
  openfiles, \* the table: handle, -1 in a free slot, and pos
  length,    \* the length of every file of the host, -1 if there is none
  host,      \* the open handles of the host: their file, uses and position
  asked,     \* the open a task is in, with the slot newslot gave it
  opened     \* the last open that ended: its flags, and whether the file was there

filesVars == <<openfiles, length, host, asked, opened>>

Fd       == 0 .. MaxOpenFiles - 1
NoHandle == -1
Nobody   == [file |-> "none", uses |-> {}, at |-> 0]
NotAsked == [fd |-> -1, path |-> "none", flags |-> {}]
NotOpened == [flags |-> {}, existed |-> FALSE, fd |-> -1]

Terminal(use) == [file |-> "tt", uses |-> {use}, at |-> 0]

Lowest(n) == {h \in HostHandle : Cardinality({g \in HostHandle : g < h}) < n}

(* initialise_monitor_handles.  The host may give stderr the handle of     *)
(* stdout, or none, which comes to the same.                               *)
FilesInit ==
  \E h \in [0 .. 2 -> Lowest(3)] :
    /\ h[0] < h[1] /\ h[0] < h[2] /\ h[1] <= h[2]
    /\ openfiles = [fd \in Fd |-> [handle |-> IF fd <= 2 THEN h[fd] ELSE NoHandle, pos |-> 0]]
    /\ host = [g \in HostHandle |->
                 CASE g = h[0] -> Terminal("read")
                   [] g = h[1] -> Terminal("write")
                   [] g = h[2] -> Terminal("append")
                   [] OTHER    -> Nobody]
    /\ length \in [Path -> {-1, 1}]
    /\ asked = [t \in FileCaller |-> NotAsked]
    /\ opened = NotOpened

-----------------------------------------------------------------------------
(* The host's calls.                                                       *)
Exists(path)   == length[path] >= 0
FreeHandles    == {h \in HostHandle : host[h] = Nobody}
Opens(path, mode) ==
  FreeHandles # {} /\ (Exists(path) \/ mode \cap {"w", "a"} # {})
Uses(mode) ==
  (IF mode \cap {"r", "+"} # {} THEN {"read"} ELSE {}) \cup
  (IF mode \cap {"w", "+"} # {} THEN {"write"} ELSE {}) \cup
  (IF "a" \in mode THEN {"append"} ELSE {})

(* findslot, and newslot: the lowest slot that is free.                    *)
Valid(fd)   == openfiles[fd].handle # NoHandle
FreeSlots   == {fd \in Fd : ~Valid(fd)}
NewSlot(fd) == fd \in FreeSlots /\ \A other \in FreeSlots : fd <= other
Outside(t)  == asked[t] = NotAsked
Handle(fd)  == openfiles[fd].handle

(* The flags of open as those of fopen.                                    *)
AFlags(flags) ==
  (IF "rdwr" \in flags THEN {"+"} ELSE {}) \cup
  (IF "append" \in flags THEN {"a"}
   ELSE IF flags \cap {"creat", "trunc", "wronly"} # {} THEN {"w"} ELSE {"r"})

(* _open, up to newslot; with no free slot it fails.                       *)
OpenChoosesSlot(t, path, flags) ==
  /\ \E fd \in Fd :
       /\ NewSlot(fd)
       /\ asked' = [asked EXCEPT ![t] = [fd |-> fd, path |-> path, flags |-> flags]]
  /\ opened' = NotOpened
  /\ UNCHANGED <<openfiles, length, host>>

Refuses(t, flags, existed) ==
  /\ opened' = [flags |-> flags, existed |-> existed, fd |-> -1]
  /\ asked' = [asked EXCEPT ![t] = NotAsked]
  /\ UNCHANGED <<openfiles, length>>

StatNever(path) == FALSE                                         \* mutant

(* _stat succeeds when the file can be opened and its length read.         *)
StatSucceeds(path) == FreeSlots # {} /\ Opens(path, {"r"})

(* The host opens a file, and its handle goes into a slot of the table.    *)
Opened(fd, h, path, mode) ==
  /\ host' = [host EXCEPT ![h] = [file |-> path, uses |-> Uses(mode), at |-> 0]]
  /\ openfiles' = [openfiles EXCEPT ![fd] = [handle |-> h, pos |-> 0]]

(* _stat closes what it opened; when that fails its slot, the lowest free  *)
(* one, keeps the handle.                                                  *)
StatLeaves(path) ==
  /\ "close" \in HostFails
  /\ \E fd \in Fd, h \in FreeHandles : NewSlot(fd) /\ Opened(fd, h, path, {"r"})

(* _swiopen after newslot.  O_EXCL asks _stat first; if that fails, for    *)
(* whatever reason, the file is opened.                                    *)
OpenEnds(t) ==
  LET path    == asked[t].path
      flags   == asked[t].flags
      mode    == AFlags(flags)
      existed == Exists(path)
      excl    == {"creat", "excl"} \subseteq flags
  IN
  /\ ~Outside(t)
  /\ \/ /\ excl /\ StatSucceeds(path)
        /\ StatLeaves(path) \/ UNCHANGED <<openfiles, host>>
        /\ opened' = [flags |-> flags, existed |-> existed, fd |-> -1]
        /\ asked' = [asked EXCEPT ![t] = NotAsked]
        /\ UNCHANGED length
     \/ /\ excl => ~StatSucceeds(path) \/ HostFails \cap {"open", "flen"} # {}
        /\ IF Opens(path, mode)
             THEN /\ \E h \in FreeHandles : Opened(asked[t].fd, h, path, mode)
                  /\ length' = IF "w" \in mode \/ ~existed THEN [length EXCEPT ![path] = 0]
                               ELSE length
                  /\ opened' = [flags |-> flags, existed |-> existed, fd |-> asked[t].fd]
                  /\ asked' = [asked EXCEPT ![t] = NotAsked]
             ELSE Refuses(t, flags, existed) /\ UNCHANGED host
     \/ /\ "open" \in HostFails
        /\ Refuses(t, flags, existed)
        /\ UNCHANGED host

-----------------------------------------------------------------------------
OnFile(fd)   == Valid(fd) /\ host[Handle(fd)].file # "tt"

AdvanceAll(len, res) == len                                      \* mutant

(* By how much a transfer of len bytes moves the position, when the host   *)
(* says that it left res of them.                                          *)
Advance(len, res)    == len - res

(* _read and _write of len bytes, of which n are transferred from at on.   *)
Transfer(fd, at, len, n) ==
  /\ host' = [host EXCEPT ![Handle(fd)].at = at + n]
  /\ openfiles' = [openfiles EXCEPT ![fd].pos = @ + Advance(len, len - n)]

(* Of len bytes the host reads what the file has.                          *)
ReadFile(fd, len) ==
  LET h   == Handle(fd)
      can == "read" \in host[h].uses
      has == length[host[h].file]
  IN
  /\ OnFile(fd)
  /\ \/ can /\ Transfer(fd, host[h].at, len, Min({len, Max({0, has - host[h].at})}))
     \/ (~can \/ "transfer" \in HostFails) /\ UNCHANGED <<openfiles, host>>
  /\ opened' = NotOpened
  /\ UNCHANGED <<length, asked>>

(* The host writes at its own position, or at the end of the file when it  *)
(* was opened to append; it may have no room for all of it.                *)
WriteFile(fd, len) ==
  LET h   == Handle(fd)
      can == host[h].uses \cap {"write", "append"} # {}
      has == length[host[h].file]
      at  == IF "append" \in host[h].uses THEN has ELSE host[h].at
  IN
  /\ OnFile(fd)
  /\ \/ /\ can
        /\ \E n \in 0 .. Min({len, MaxLength - at}) :
             /\ Transfer(fd, at, len, n)
             /\ length' = [length EXCEPT ![host[h].file] = IF n = 0 THEN has ELSE Max({has, at + n})]
     \/ (~can \/ "transfer" \in HostFails) /\ UNCHANGED <<openfiles, host, length>>
  /\ opened' = NotOpened
  /\ UNCHANGED asked

(* _lseek, where the position is the slot's or the length, and seeks of    *)
(* the host are absolute.                                                  *)
SeekTarget(fd, offset, whence) ==
  CASE whence = "set" -> offset
    [] whence = "cur" -> openfiles[fd].pos + offset
    [] whence = "end" -> length[host[Handle(fd)].file] + offset

Lseek(fd, offset, whence) ==
  /\ OnFile(fd)
  /\ LET target == SeekTarget(fd, offset, whence)
     IN  /\ target \in 0 .. MaxLength
         /\ openfiles' = [openfiles EXCEPT ![fd].pos = target]
         /\ host' = [host EXCEPT ![Handle(fd)].at = target]
  /\ opened' = NotOpened
  /\ UNCHANGED <<length, asked>>

CloseShares(fd) == FALSE                                         \* mutant

(* stdout and stderr may be one handle, which the last of them closes.  The *)
(* position of a free slot is not looked at.                               *)
Shares(fd)      == fd \in {1, 2} /\ Handle(1) = Handle(2)

CloseFile(fd) ==
  /\ Valid(fd)
  /\ \/ /\ openfiles' = [openfiles EXCEPT ![fd] = [handle |-> NoHandle, pos |-> 0]]
        /\ host' = IF Shares(fd) THEN host ELSE [host EXCEPT ![Handle(fd)] = Nobody]
     \/ /\ "close" \in HostFails /\ ~Shares(fd)
        /\ UNCHANGED <<openfiles, host>>
  /\ opened' = NotOpened
  /\ UNCHANGED <<length, asked>>

(* _unlink and _rename, of files the host has not open; a file may be      *)
(* renamed to or from a name that is no Path.                              *)
NotInUse(path) == \A h \in HostHandle : host[h].file # path

UnlinkFile(path) ==
  /\ Exists(path) /\ NotInUse(path)
  /\ length' = [length EXCEPT ![path] = -1]
  /\ opened' = NotOpened
  /\ UNCHANGED <<openfiles, host, asked>>

RenameTo(path) ==
  /\ NotInUse(path)
  /\ length' = [length EXCEPT ![path] = 1]
  /\ opened' = NotOpened
  /\ UNCHANGED <<openfiles, host, asked>>

FilesNext ==
  \E t \in FileCaller :
    \/ OpenEnds(t)
    \/ /\ Outside(t)
       /\ \/ \E path \in Path : UnlinkFile(path) \/ RenameTo(path)
          \/ \E path \in Path, flags \in FlagSets : OpenChoosesSlot(t, path, flags)
          \/ \E fd \in Fd :
               \/ \E len \in 1 .. 2 : ReadFile(fd, len) \/ WriteFile(fd, len)
               \/ \E offset \in -1 .. 1, whence \in {"set", "cur", "end"} :
                    Lseek(fd, offset, whence)
               \/ CloseFile(fd)

FilesSpec == FilesInit /\ [][FilesNext]_filesVars

-----------------------------------------------------------------------------
(* A descriptor is always backed by a handle the host has open, also once  *)
(* the other of two that share one is closed, and no handle of a file is   *)
(* forgotten (_syscalls.c:607-653, 853-923, 941-972).                      *)
HandlesKept ==
  /\ \A fd \in Fd : Valid(fd) => host[Handle(fd)] # Nobody
  /\ \A h \in HostHandle :
       host[h].file \in Path => \E fd \in Fd : Handle(fd) = h

(* The position SEEK_CUR starts from is where the host reads and writes    *)
(* next, after short transfers and failed calls too                        *)
(* (_syscalls.c:704-797, 820-851).                                         *)
PositionsAgree ==
  \A fd \in Fd :
    Valid(fd) /\ host[Handle(fd)].file \in Path => openfiles[fd].pos = host[Handle(fd)].at

(* O_CREAT with O_EXCL never opens a file that was there                   *)
(* (_syscalls.c:868-878).                                                  *)
ExclusiveCreates ==
  {"creat", "excl"} \subseteq opened.flags /\ opened.existed => opened.fd = -1

(* A file is truncated only when O_TRUNC asks for it.  The code truncates  *)
(* it for O_CREAT or O_WRONLY alone (_syscalls.c:896-899).                 *)
OpenKeepsContents ==
  [][\A path \in Path :
       length[path] > 0 /\ length'[path] = 0 => "trunc" \in opened'.flags]_filesVars

=============================================================================
