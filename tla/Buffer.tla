------------------------------- MODULE Buffer -------------------------------
(***************************************************************************)
(* The paged, copy-on-write byte buffer of core/buffer.cc, as operators on *)
(* a Buffer object seen together with the pages its cow_info_ points to.   *)
(* Pages are kept end to end in one sequence of cells, Len(cells) being a  *)
(* multiple of PageSize.  left cells at the front are consumed, right      *)
(* cells at the back are free.                                             *)
(***************************************************************************)
EXTENDS Integers, Sequences, SequencesExt

CONSTANTS PageSize   \* Buffer::kPageSize

ASSUME BufferAssumption == PageSize \in Nat \ {0}

\* A cell that no byte was written to yet.
NoByte == 0

\* A list of pages that holds data from its first cell on.
Cells(npage, data) ==
  [k \in 1..(npage * PageSize) |-> IF k <= Len(data) THEN data[k] ELSE NoByte]

EmptyPages == Cells(1, <<>>)

NumPages(cells) == Len(cells) \div PageSize

-----------------------------------------------------------------------------
(* What the buffer holds, page by page as get_page_segment cuts the pages: *)
(* the first one loses left cells, the last one right cells.               *)

get_page_segment(b, i) ==
  SubSeq(b.cells,
         (i - 1) * PageSize + 1 + (IF i = 1 THEN b.left ELSE 0),
         i * PageSize - (IF i = NumPages(b.cells) THEN b.right ELSE 0))

Content(b) ==
  FlattenSeq([i \in 1..NumPages(b.cells) |-> get_page_segment(b, i)])

\* copy_front: the caller's buffer gets the first sz bytes.
copy_front(b, sz) == SubSeq(b.cells, b.left + 1, b.left + sz)

-----------------------------------------------------------------------------
(* Operations that write.  The copies they make of shared pages are in     *)
(* OutputStream, where the sharing is.                                     *)

\* The cells in use or consumed.
Filled(b) == SubSeq(b.cells, 1, Len(b.cells) - b.right)

\* Data that ends on a page boundary opens one more, empty page.
append(b, data) ==
  LET all == Filled(b) \o data
      last == Len(all) % PageSize
  IN  [b EXCEPT !.cells = Cells(Len(all) \div PageSize + 1, all),
                !.right = PageSize - last,
                !.size = @ + Len(data)]

\* readv fills the free cells of the last page, then the extra page, which
\* joins the list when it is reached.  Up to right + PageSize bytes fit.
read_from_fd(b, data) ==
  LET over == b.right <= Len(data)
  IN  [b EXCEPT !.cells = Cells(NumPages(b.cells) + (IF over THEN 1 ELSE 0),
                                Filled(b) \o data),
                !.right = (IF over THEN PageSize ELSE 0) + @ - Len(data),
                !.size = @ + Len(data)]

PopWhole(b, n) ==
  LET npage == (n + b.left) \div PageSize
      gone == IF npage < NumPages(b.cells) THEN npage ELSE NumPages(b.cells) - 1
      cells == SubSeq(b.cells, gone * PageSize + 1, Len(b.cells))
      size == b.size - n
  IN  [b EXCEPT !.cells = cells,
                !.left = IF size = 0 THEN 0 ELSE (n + b.left) % PageSize,
                !.right = IF size = 0 THEN PageSize ELSE @,
                !.size = size]

PopNoReset(b, n) ==
  IF b.size < n THEN b ELSE [PopWhole(b, n) EXCEPT !.right = b.right]

PopFirstPageOnly(b, n) ==
  IF b.size < n THEN b ELSE [PopWhole(b, n) EXCEPT !.left = n + b.left]

\* pop fails, and changes nothing, when fewer bytes are held.
pop(b, n) == IF b.size < n THEN b ELSE PopWhole(b, n)

OfferToTheEnd(b) == SubSeq(b.cells, b.left + 1, Len(b.cells))

\* What writev is offered: at most two pages.  right is taken off the second
\* one even when it is not the last.
writev_offer(b) ==
  IF NumPages(b.cells) = 1 THEN get_page_segment(b, 1)
  ELSE SubSeq(b.cells, b.left + 1, 2 * PageSize - b.right)
=============================================================================
