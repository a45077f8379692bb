------------------------------ MODULE MCMemory ------------------------------
(* Memory with pages of 16 bytes and tables of two entries: 32 pages of    *)
(* addresses, of which 2..9 are the user's and 10..31 the kernel heap's.   *)
EXTENDS Memory, TLC

(* Frames 2 to 20 are available; the kernel image is in frame 2, boot data *)
(* in frame 4.                                                             *)
MCMap == {[start |-> 0, end |-> 20], [start |-> 26, end |-> 338]}
MCReserved == {[start |-> 0, end |-> 32], [start |-> 32, end |-> 45], [start |-> 66, end |-> 70]}

Ph(load, offset, vaddr, filesz, memsz) ==
  [load |-> load, offset |-> offset, vaddr |-> vaddr, filesz |-> filesz, memsz |-> memsz]
Img(phdrs, entry) ==
  [size |-> 60, ident |-> TRUE, phoff |-> 6, phdrs |-> phdrs, entry |-> entry]

Run(img, args) == [image |-> img, argv |-> args]

(* One page beside the stack; two pages and two tables, with a part that   *)
(* is zeroed.                                                              *)
Small == Img(<<Ph(TRUE, 20, 64, 16, 16)>>, 64)
Large == Img(<<Ph(FALSE, 0, 0, 0, 0), Ph(TRUE, 20, 32, 10, 20)>>, 36)

(* Overlapping segments, a segment on the stack, an entry and a segment    *)
(* outside the user range, data past the end, sums that wrap, file data    *)
(* larger than the segment, nothing to load.                               *)
Bad == {Img(<<Ph(TRUE, 20, 64, 4, 16), Ph(TRUE, 20, 64, 4, 4)>>, 64),
        Img(<<Ph(TRUE, 20, 80, 4, 4)>>, 80),
        Img(<<Ph(TRUE, 20, 64, 4, 4)>>, 160),
        Img(<<Ph(TRUE, 20, 144, 4, 17)>>, 144),
        Img(<<Ph(TRUE, 50, 64, 16, 16)>>, 64),
        Img(<<Ph(TRUE, 500, 64, 16, 16)>>, 64),
        Img(<<Ph(TRUE, 20, 32, 20, 4)>>, 32),
        Img(<<Ph(FALSE, 20, 64, 4, 4)>>, 64),
        [Img(<<Ph(TRUE, 20, 64, 4, 4)>>, 64) EXCEPT !.phoff = 508]}

MCLater == {Run(Small, <<1, 1>>)}
MCCommands == MCLater \cup {Run(Large, <<0, 2>>), Run(Large, <<3>>)} \cup {Run(img, <<0>>) : img \in Bad}
Symmetric == Permutations(Space)
=============================================================================
