---------------------------------- MODULE Elf ----------------------------------
(***************************************************************************)
(* What Elf::new accepts and what Elf::mount_into writes (context/elf.rs), *)
(* as functions of the file.                                               *)
(*                                                                         *)
(* A file is its length, whether its magic is right, the offset of its     *)
(* program headers and the headers; byte i of it is represented by i.      *)
(* Names and sizes are those of the ELF format: a segment is filesz bytes  *)
(* from offset on, to be found at vaddr, zeroes following up to memsz.     *)
(***************************************************************************)
EXTENDS Integers, Sequences, SequencesExt

CONSTANTS
  PageSize,    \* bytes of a page (4096)
  Canonical,   \* size of the user half of the addresses (2^47)
  Top,         \* size of the address space (2^64)
  OverflowChecks   \* the build panics where a sum or a difference wraps

ASSUME AddressAssumption ==
  /\ {PageSize, Canonical, Top} \subseteq Nat \ {0}
  /\ Canonical % PageSize = 0 /\ Top % PageSize = 0 /\ 4 * Canonical <= Top
  /\ OverflowChecks \in BOOLEAN

SIZEOF_EHDR == 64
SIZEOF_PHDR == 56

Zero == -1   \* a byte of the zeroed frame

HeaderT == [load : BOOLEAN, read : BOOLEAN, vaddr : 0 .. Top - 1, memsz : 0 .. Top - 1,
            offset : Nat, filesz : Nat]
FileT   == [len : Nat, magic : BOOLEAN, phoff : Nat, headers : Seq(HeaderT)]

-------------------------------------------------------------------------------
(* Addresses.                                                              *)

\* VirtAddr::new panics unless the bits above bit 47 are equal to it, or clear;
\* what it makes of the address has them equal.
VirtAddr(a) == a < 2 * Canonical \/ a >= Top - Canonical
extend(a) == IF a \in Canonical .. 2 * Canonical - 1 THEN a + (Top - 2 * Canonical) ELSE a

\* The page of such an address: the upper half of the pages is the kernel's.
page_of(a) == (IF a < Canonical THEN a ELSE a - (Top - 2 * Canonical)) \div PageSize

check_addr_userspace(a) == a < Top \div 2

PageRange(from, to) == [i \in 1 .. (to - from) |-> from + i - 1]

-------------------------------------------------------------------------------
(* The file.  A "..._fault" is a broken form of the definition after it,   *)
(* used only to show that a property notices.                              *)

\* Elf::new: room for the header, the magic, the program headers inside the file.
new(f) ==
  /\ f.len > SIZEOF_EHDR
  /\ f.magic
  /\ f.phoff + Len(f.headers) * SIZEOF_PHDR < f.len

\* The headers mount_into does not skip.
Mounted(h) == h.load /\ h.memsz > 0

\* A header that stops the loader: its data is not in the file (looked at before
\* its type is), its addresses are no user addresses, or it cannot be read.  Where
\* the segment ends is looked at after the sum was cut to the width of an address.
wraps(h) == h.vaddr + h.memsz >= Top
to_addr(h) == (h.vaddr + h.memsz) % Top

Rejected(f, h) ==
  \/ h.offset + h.filesz > f.len
  \/ Mounted(h) /\ \/ wraps(h) /\ OverflowChecks
                   \/ \E a \in {h.vaddr, to_addr(h)} :
                        ~ VirtAddr(a) \/ ~ check_addr_userspace(extend(a))
                   \/ ~ h.read

\* The headers before the first that stops the loader.
Accepted(f) ==
  LET bad == SelectInSeq(f.headers, LAMBDA h : Rejected(f, h))
  IN  IF bad = 0 THEN f.headers ELSE SubSeq(f.headers, 1, bad - 1)

from_page(h) == page_of(h.vaddr)
to_page(h) == page_of((to_addr(h) - 1) % Top)
PagesOf(h) == IF Mounted(h) THEN PageRange(from_page(h), to_page(h) + 1) ELSE <<>>

\* The pages mount_into maps, in its order.
ElfPages(f) ==
  FlattenSeq([i \in 1 .. Len(Accepted(f)) |-> PagesOf(Accepted(f)[i])])

\* The header whose turn it is when page p is mapped: a page that two segments
\* share is refused the second time.
HeaderOf(f, p) ==
  Accepted(f)[SelectInSeq(Accepted(f), LAMBDA h : \E i \in 1 .. Len(PagesOf(h)) : PagesOf(h)[i] = p)]

-------------------------------------------------------------------------------
(* The copy.  The index into the data is that of the segment's first page, *)
(* on every page of the segment.                                           *)

file_index(h) == from_page(h) * PageSize - h.vaddr
data_start(h) == Max({file_index(h), 0})
data_end_fault(h) == file_index(h) + PageSize              \* the file not looked at
data_end(h) == Min({file_index(h) + PageSize, h.filesz})
off_fault(h) == 0                                          \* to the start of the page
off(h) == Max({-file_index(h), 0})

\* A frame after the loader zeroed it and copied data_start .. data_end - 1 to off.
copied(h) ==
  [b \in 0 .. PageSize - 1 |->
     IF off(h) <= b /\ b < off(h) + data_end(h) - data_start(h)
     THEN h.offset + data_start(h) + b - off(h)
     ELSE Zero]

-------------------------------------------------------------------------------
(* The reference: what the format says the page p of a segment holds.      *)

Reference(h, p) ==
  [b \in 0 .. PageSize - 1 |->
     LET i == p * PageSize + b - h.vaddr
     IN  IF 0 <= i /\ i < h.filesz THEN h.offset + i ELSE Zero]

===============================================================================
