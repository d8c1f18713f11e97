----------------------------- MODULE MCAddressSpace -----------------------------
(* Two tasks for TLC; 8 user pages of 2 bytes and 8 of the kernel, tables of 4   *)
(* entries on 2 levels, stacks of 1 page or, when they start inside one, of 2.  *)
(* Task 1 may map RAM; task 2 may map a physical range that ends inside a page.  *)
EXTENDS AddressSpace

MCPhysCap == <<{}, {<<4, 8>>}>>

Load(vaddr, memsz, offset, filesz) ==
  [load |-> TRUE, read |-> TRUE, vaddr |-> vaddr, memsz |-> memsz, offset |-> offset, filesz |-> filesz]
File(magic, headers) == [len |-> 300, magic |-> magic, phoff |-> 64, headers |-> headers]

\* Two pages from the middle of the first; a page, a page without data and a segment that wraps
\* to before its start; no program at all; a note and a segment whose data is not in the file;
\* a segment that ends where the user half does; one that wraps to address 0.
MCPrograms == {
  File(TRUE, <<Load(5, 2, 280, 2)>>),
  File(TRUE, <<Load(6, 2, 280, 1), Load(5, 1, 290, 0), Load(7, 127, 280, 1)>>),
  File(FALSE, <<>>),
  File(TRUE, <<[Load(0, 2, 280, 1) EXCEPT !.load = FALSE], Load(4, 1, 299, 2)>>),
  File(TRUE, <<Load(14, 2, 280, 1)>>),
  File(TRUE, <<Load(15, 113, 280, 1)>>) }

\* One segment on two pages.
MCTwoPages == { File(TRUE, <<Load(3, 2, 280, 2)>>) }
===============================================================================
