---------------------------------- MODULE Files ----------------------------------
(***************************************************************************)
(* The files of a task (src/idker/src/file): the descriptors of            *)
(* TaskFileStorage with the calls FsOpen, FsHandleSeek, FsHandleRead,      *)
(* FsHandleClose, the mounts of ProcRootFs, navigation through ProcRoot    *)
(* and InitFs, the two kinds of file handles, and read_file_to_memory,     *)
(* which exec uses.                                                        *)
(*                                                                         *)
(* A call holds the task's lock from its first access to its return, so a  *)
(* call is one step.  A path is the sequence of its components, split at   *)
(* "/", the last one not empty; a name is one byte in the text of a folder,*)
(* and reads have the granularity of that byte.  Of the buffer an argument *)
(* describes only what the checks make of it is kept (Buffers).            *)
(***************************************************************************)
EXTENDS Integers, Sequences, SequencesExt

CONSTANTS
  Folders,    \* the folders of the init directory, by number: sequences of entries
  Content,    \* the contents of its files, by number
  Roots,      \* the folders that can be mounted later
  Names,      \* the names mounts can have
  BootMounts, \* what the kernel has mounted when the task starts
  Paths, Lens, Seeks,  \* the arguments programs pass
  MaxFd,      \* bound: descriptors a task opens
  MaxMounts   \* bound: mounts of a task

\* An entry of a folder: its name and the number of a file or of a folder.
Entry == [name : Names, file : BOOLEAN, to : Nat]

ASSUME FilesAssumption ==
  /\ Names \subseteq STRING /\ \A f \in DOMAIN Content : Content[f] \in Seq(STRING)
  /\ \A f \in DOMAIN Folders : Folders[f] \in Seq(Entry)
  /\ \A f \in DOMAIN Folders : \A e \in ToSet(Folders[f]) :
       e.to \in IF e.file THEN DOMAIN Content ELSE DOMAIN Folders
  /\ Roots \subseteq DOMAIN Folders
  /\ BootMounts \in Seq([name : Names, folder : DOMAIN Folders])
  /\ Lens \subseteq Nat /\ Seeks \subseteq Nat /\ Paths \subseteq Seq(STRING)
  /\ MaxFd \in Nat /\ MaxMounts \in Nat
  /\ {"", ".", ".."} \cap Names = {}

VARIABLES
  mounts,           \* ProcRootFs::mounts, in order
  handles,          \* TaskFileStorage::handles, in order
  next_descriptor,
  halted,           \* a panic stopped the machine
  ret,              \* the last call and its result
  seen,             \* history: what a program was given through each descriptor
  listed            \* history: the names each descriptor's folder had when opened

vars == <<mounts, handles, next_descriptor, halted, ret, seen, listed>>

Init ==
  /\ mounts = BootMounts
  /\ handles = <<>>
  /\ next_descriptor = 1
  /\ halted = FALSE
  /\ ret = [call |-> "other", arg |-> 0, code |-> ""]
  /\ seen = [d \in 1 .. MaxFd |-> <<>>]
  /\ listed = [d \in 1 .. MaxFd |-> <<>>]

-------------------------------------------------------------------------------
(* Paths.  A "..._fault" is a broken form of the definition after it, used *)
(* only to show that a property notices.                                   *)

\* The component of a path that path_step splits off.
path_step_fault(x) == IF x = "" THEN "Current" ELSE IF x = ".." THEN "Parent" ELSE "RelCh"
path_step(x) == IF x \in {"", "."} THEN "Current" ELSE IF x = ".." THEN "Parent" ELSE "RelCh"

None == 0

\* A place: the root of the task, or a folder of an InitFs, or a file in a folder.
Root  == [root |-> TRUE, folder |-> 0, file |-> None]
Place(folder, file) == [root |-> FALSE, folder |-> folder, file |-> file]
Found(p) == [ok |-> TRUE, at |-> p]
Err      == [ok |-> FALSE, at |-> Root]

\* InitFsFolderHandle::rel_open.  A handle that is not a file answers PathIsFile.
rel_open(p, x) ==
  LET es == Folders[p.folder]
      i  == SelectInSeq(es, LAMBDA e : e.name = x)
  IN  IF p.file = None \/ i = 0 THEN Err
      ELSE IF es[i].file THEN Found(Place(p.folder, es[i].to)) ELSE Found(Place(es[i].to, None))

\* One turn of the loop of InitFsFolderHandle::open_dir.
init_step_fault(r, x) == r                                 \* what does not open is ignored
init_step(r, x) ==
  IF ~ r.ok \/ path_step(x) = "Current" THEN r
  ELSE IF path_step(x) = "Parent" THEN Err
  ELSE rel_open(r.at, x)

find_mount(x) == SelectInSeq(mounts, LAMBDA m : m.name = x)

\* ProcRootPathHandle::open_dir: the place and the rest of the path.
proc_open_dir(path) ==
  LET i == SelectInSeq(path, LAMBDA x : path_step(x) # "Current")
      m == find_mount(path[i])
  IN  IF i = 0 THEN [res |-> Found(Root), rest |-> <<>>]
      ELSE IF path_step(path[i]) = "Parent" \/ m = 0 THEN [res |-> Err, rest |-> <<>>]
      ELSE [res |-> Found(Place(mounts[m].folder, None)), rest |-> SubSeq(path, i + 1, Len(path))]

\* What is mounted is an InitFs, so one more open_dir ends the loop.
open_path_full(path) ==
  LET p == proc_open_dir(path)
      after[n \in 0 .. Len(p.rest)] == IF n = 0 THEN p.res ELSE init_step(after[n - 1], p.rest[n])
  IN  after[Len(p.rest)]

-------------------------------------------------------------------------------
(* File handles.                                                           *)

NamesOf(s) == [i \in DOMAIN s |-> s[i].name]

\* dir_names_to_handle: every name, each followed by a line feed.
dir_names_to_handle(ns) ==
  [i \in 1 .. 2 * Len(ns) |-> IF i % 2 = 1 THEN ns[(i + 1) \div 2] ELSE "\n"]

\* PathHandle::read of the three kinds of places.  A folder's handle is an iterator.
Listing(p) == NamesOf(IF p.root THEN mounts ELSE Folders[p.folder])
open_handle(p) ==
  IF p.file = None
  THEN [folder |-> TRUE, data |-> dir_names_to_handle(Listing(p)), index |-> 0]
  ELSE [folder |-> FALSE, data |-> Content[p.file], index |-> 0]

\* Reading into a buffer of n bytes: the bytes given and the handle after.
Given(bytes, h) == [panic |-> FALSE, bytes |-> bytes, handle |-> h]
Panics(h)       == [panic |-> TRUE, bytes |-> <<>>, handle |-> h]

\* IteratorFileHandle stores its byte before it looks at the size of the buffer.
iterator_read_fault(h, n) ==                               \* two steps for one byte
  IF n = 0 THEN Panics(h)
  ELSE Given(IF h.index < Len(h.data) THEN <<h.data[h.index + 1]>> ELSE <<>>,
             [h EXCEPT !.index = @ + 2])
iterator_read(h, n) ==
  IF h.index = Len(h.data) THEN Given(<<>>, h)
  ELSE IF n = 0 THEN Panics(h)
  ELSE Given(<<h.data[h.index + 1]>>, [h EXCEPT !.index = @ + 1])

\* InitFsFileHandle copies the slice index .. len, which has the length len only for
\* index 0, and does not move its index.
init_read(h, n) ==
  IF h.index # 0 THEN Panics(h)
  ELSE Given(SubSeq(h.data, 1, IF n < Len(h.data) THEN n ELSE Len(h.data)), h)

handle_read(h, n) == IF h.folder THEN iterator_read(h, n) ELSE init_read(h, n)

\* InitFsFileHandle::seek; an iterator is not seekable.
handle_seek(h, to) ==
  IF h.folder THEN "FsNotSeekable" ELSE IF to > Len(h.data) THEN "FsSeekOutOfRange" ELSE "Ok"

-------------------------------------------------------------------------------
(* System calls.                                                           *)

Position(fd) == SelectInSeq(handles, LAMBDA x : x.fd = fd)

\* Results: of an open the path and the code, of a read or a seek that is done the
\* descriptor; of anything else nothing is kept.
Answer(call, arg, code) == ret' = [call |-> call, arg |-> arg, code |-> code]
Quiet == Answer("other", 0, "")
Fail(code) ==
  /\ halted' = (code = "panic")
  /\ UNCHANGED <<mounts, handles, next_descriptor, seen, listed>>

\* A buffer is in user memory (and UTF-8, where it is a path), is not, or has an end
\* beyond the last address: the sum that computes the end panics in a build with
\* overflow checks, and in one without wraps round, which leaves the other outcomes.
Buffers == {"user", "foreign", "wraps"}

allocate_descriptor_fault == Len(handles) + 1              \* numbers given again
allocate_descriptor == next_descriptor

open(path, buffer, write) ==
  LET r  == open_path_full(path)
      fd == allocate_descriptor
  IN  /\ ~ halted /\ next_descriptor <= MaxFd
      /\ IF buffer = "foreign" THEN Fail("WrongParameters") /\ Answer("open", path, "WrongParameters")
         ELSE IF buffer = "wraps" THEN Fail("panic") /\ Answer("open", path, "panic")
         ELSE IF write THEN Fail("panic") /\ Answer("open", path, "panic")
         ELSE IF ~ r.ok THEN Fail("InvalidPath") /\ Answer("open", path, "InvalidPath")
         ELSE /\ next_descriptor' = next_descriptor + 1
              /\ handles' = Append(handles, [fd |-> fd, handle |-> open_handle(r.at)])
              /\ seen' = [seen EXCEPT ![fd] = <<>>]
              /\ listed' = [listed EXCEPT ![fd] = IF r.at.file = None THEN Listing(r.at) ELSE <<>>]
              /\ Answer("open", path, "Ok")
              /\ UNCHANGED <<mounts, halted>>

seek(fd, to) ==
  LET i == Position(fd)
      h == handles[i].handle
  IN  /\ ~ halted
      /\ IF i = 0 THEN Fail("WrongDescriptor") /\ Quiet
         ELSE IF handle_seek(h, to) # "Ok" THEN Fail(handle_seek(h, to)) /\ Quiet
         ELSE /\ handles' = [handles EXCEPT ![i].handle.index = to]
              /\ Answer("seek", fd, "Ok")
              /\ UNCHANGED <<mounts, next_descriptor, halted, seen, listed>>

read(fd, n, buffer) ==
  LET i == Position(fd)
      r == handle_read(handles[i].handle, n)
  IN  /\ ~ halted
      /\ IF buffer = "foreign" THEN Fail("WrongParameters") /\ Quiet
         ELSE IF buffer = "wraps" THEN Fail("panic") /\ Quiet
         ELSE IF i = 0 THEN Fail("WrongDescriptor") /\ Quiet
         ELSE IF r.panic THEN Fail("panic") /\ Quiet
         ELSE /\ handles' = [handles EXCEPT ![i].handle = r.handle]
              /\ seen' = [seen EXCEPT ![fd] = @ \o r.bytes]
              /\ Answer("read", fd, "Ok")
              /\ UNCHANGED <<mounts, next_descriptor, halted, listed>>

close(fd) ==
  LET i == Position(fd)
  IN  /\ ~ halted
      /\ IF i = 0 THEN Fail("WrongDescriptor") /\ Quiet
         ELSE /\ handles' = RemoveAt(handles, i)
              /\ seen' = [seen EXCEPT ![fd] = <<>>]
              /\ listed' = [listed EXCEPT ![fd] = <<>>]
              /\ Quiet
              /\ UNCHANGED <<mounts, next_descriptor, halted>>

\* What exec does with a descriptor.  The buffer is resized to the length it has,
\* so the file is asked for no bytes, and the first round is the last.
read_file_to_memory(fd) ==
  LET i == Position(fd)
      r == handle_read(handles[i].handle, 0)
  IN  /\ ~ halted
      /\ IF i = 0 THEN Fail("WrongDescriptor") /\ Quiet
         ELSE IF r.panic THEN Fail("panic") /\ Quiet
         ELSE Fail("FsNotExecutable") /\ Quiet

-------------------------------------------------------------------------------
(* Mounts, by the kernel.                                                  *)

mount(name, folder) ==
  /\ ~ halted /\ Len(mounts) < MaxMounts
  /\ mounts' = Append(mounts, [name |-> name, folder |-> folder])
  /\ Quiet
  /\ UNCHANGED <<handles, next_descriptor, halted, seen, listed>>

unmount(name) ==
  LET i == find_mount(name)
  IN  /\ ~ halted /\ i # 0
      /\ mounts' = RemoveAt(mounts, i)
      /\ Quiet
      /\ UNCHANGED <<handles, next_descriptor, halted, seen, listed>>

\* After a panic the machine halts; at the bound on descriptors the other calls go on.
Halted == halted /\ UNCHANGED vars

Next ==
  \/ \E path \in Paths, buffer \in Buffers, write \in BOOLEAN : open(path, buffer, write)
  \/ \E fd \in 0 .. MaxFd, to \in Seeks : seek(fd, to)
  \/ \E fd \in 0 .. MaxFd, n \in Lens, buffer \in Buffers : read(fd, n, buffer)
  \/ \E fd \in 0 .. MaxFd : close(fd)
  \/ \E fd \in 0 .. MaxFd : read_file_to_memory(fd)
  \/ \E name \in Names, folder \in Roots : mount(name, folder)
  \/ \E name \in Names : unmount(name)
  \/ Halted

Spec == Init /\ [][Next]_vars

-------------------------------------------------------------------------------
(* Properties.                                                             *)

Open(d) == Position(d) # 0
HandleOf(d) == handles[Position(d)].handle

\* The state stays in its domain; in particular no handle reads past its end.
TypeOK ==
  /\ mounts \in Seq([name : Names, folder : DOMAIN Folders])
  /\ \A i \in DOMAIN handles :
       /\ handles[i].fd \in 1 .. MaxFd
       /\ handles[i].handle.index \in 0 .. Len(handles[i].handle.data)
  /\ next_descriptor \in 1 .. MaxFd + 1
  /\ halted \in BOOLEAN

\* A descriptor means one open file from its open to its close, whatever is opened,
\* closed or mounted in between; only its own reads and seeks move it; and a number that was
\* closed is never given again.
DescriptorsStable ==
  [][\A d \in 1 .. MaxFd :
       /\ d < next_descriptor /\ ~ Open(d) => ~ Open(d)'
       /\ Open(d) /\ Open(d)' =>
            /\ HandleOf(d)'.data = HandleOf(d).data
            /\ HandleOf(d)' # HandleOf(d) => ret'.call \in {"read", "seek"} /\ ret'.arg = d]_vars

\* system.rs, "when you read them you get back a list of files": what a program has
\* read of a folder, and what it has not read yet, are together the names the
\* folder had when it was opened, a line each: no mount in between shows, no name
\* is skipped or given twice.
ListingWhole ==
  \A i \in DOMAIN handles :
    LET h == handles[i].handle
        d == handles[i].fd
        text == seen[d] \o SubSeq(h.data, h.index + 1, Len(h.data))
    IN  h.folder => /\ Len(text) = 2 * Len(listed[d])
                    /\ \A k \in DOMAIN listed[d] : text[2 * k - 1] = listed[d][k]
                                                   /\ text[2 * k] = "\n"

\* The reference for navigation: the tree of the mounts and what is mounted there.
\* Of mounts with one name the oldest counts.  At most one place is denoted.
Child(p, x) ==
  LET es == Folders[p.folder]
  IN  IF p.root
      THEN {Place(mounts[i].folder, None) :
              i \in {j \in DOMAIN mounts : mounts[j].name = x
                                           /\ \A k \in 1 .. j - 1 : mounts[k].name # x}}
      ELSE {IF es[i].file THEN Place(p.folder, es[i].to) ELSE Place(es[i].to, None) :
              i \in {j \in DOMAIN es : p.file = None /\ es[j].name = x}}
Denoted(path) ==
  LET reach[n \in 0 .. Len(path)] ==
        IF n = 0 THEN {Root}
        ELSE IF path[n] \in {"", "."} THEN reach[n - 1]
        ELSE UNION {Child(p, path[n]) : p \in reach[n - 1]}
  IN  reach[Len(path)]

\* A path that opens opens what it denotes: it never stops at a folder on the way,
\* and never lists another one.
OpensWhatThePathSays ==
  ret.call = "open" /\ ret.code = "Ok" =>
    LET d == next_descriptor - 1
    IN  /\ handles # <<>> /\ handles[Len(handles)].fd = d
        /\ \E p \in Denoted(ret.arg) :
             IF p.file = None THEN listed[d] = Listing(p) /\ HandleOf(d).folder
             ELSE HandleOf(d).data = Content[p.file] /\ ~ HandleOf(d).folder

\* common.rs says of FsOpen that it "opens a path".  Where it does not although the path
\* denotes a file or a folder, that is below a mount, which rel_open never goes: the
\* root and every mount open, however they are written and whatever was mounted when.
RefusesOnlyBelowMounts ==
  ret.call = "open" /\ ret.code = "InvalidPath" =>
    \/ Denoted(ret.arg) = {}
    \/ Len(SelectSeq(ret.arg, LAMBDA x : x \notin {"", "."})) > 1

===============================================================================
