------------------------------- MODULE PagedKV -------------------------------
(***************************************************************************)
(* The paged key/value cache as its readers see it: page tables, the slots *)
(* of positions, the CSR page lists FlashInfer takes, the virtual          *)
(* sequences FA4 takes, and which keys a query may see.  Positions and     *)
(* pages are counted from 0 as in the code; a row of a page table is a     *)
(* tuple of PagesPerSeq page ids, 0 where no page is set.                  *)
(***************************************************************************)
EXTENDS Integers, Sequences, SequencesExt

CONSTANTS PageSize, BlockLength, PagesPerSeq

Tuple(s) == <<>> \o s

PagesFor(length) == (length + PageSize - 1) \div PageSize

\* PagedKVCache.slot_mapping
SlotMapping(row, pos) == row[pos \div PageSize + 1] * PageSize + (pos % PageSize)

\* PagedKVCache.set_page_table: an empty list leaves the row as it is
SetPageTable(row, pages) ==
  IF pages = <<>> THEN row
  ELSE Tuple([i \in 1..PagesPerSeq |-> IF i \in DOMAIN pages THEN pages[i] ELSE 0])

\* the checks of set_page_table; pages past the scheduler's own are accepted
PagesAccepted(pages, numPages) ==
  Len(pages) <= PagesPerSeq /\ \A i \in DOMAIN pages : pages[i] \in 1..(numPages - 1)

Cumulative(counts) == FoldLeft(LAMBDA acc, c : Append(acc, Last(acc) + c), <<0>>, counts)

Csr(indptr, indices, last) == [indptr |-> indptr, indices |-> indices, last |-> last]

\* flashinfer_paged_metadata, _page_plan: the CSR page list of rows with lengths
PagedMetadata(rows, lengths) ==
  LET counts == [i \in DOMAIN rows |-> PagesFor(lengths[i])] IN
  Csr(Cumulative(counts),
      Tuple(FlattenSeq([i \in DOMAIN rows |-> SubSeq(rows[i], 1, counts[i])])),
      Tuple([i \in DOMAIN rows |-> ((lengths[i] - 1) % PageSize) + 1]))

\* FlashInfer: the slot of a position of row i, and the number of keys of row i
CsrSlot(csr, i, pos) ==
  csr.indices[csr.indptr[i] + pos \div PageSize + 1] * PageSize + (pos % PageSize)
CsrLength(csr, i) == (csr.indptr[i + 1] - csr.indptr[i] - 1) * PageSize + csr.last[i]

\* mutant: pages a row does not own are scattered too, over those of the next row
RefreshNoTrash(csr, tables, lens) ==
  LET counts == [i \in DOMAIN tables |-> PagesFor(lens[i])]
      indptr == Cumulative(counts)
      writes == FlattenSeq([i \in DOMAIN tables |->
                  [p \in 1..PagesPerSeq |-> <<indptr[i] + p, tables[i][p]>>]])
      At(j) == {w \in DOMAIN writes : writes[w][1] = j}
  IN Csr(indptr,
         Tuple([j \in DOMAIN csr.indices |->
           IF At(j) = {} THEN csr.indices[j]
           ELSE writes[CHOOSE w \in At(j) : \A v \in At(j) : w <= v][2]]),
         Tuple([i \in DOMAIN tables |-> ((lens[i] - 1) % PageSize) + 1]))
\* FlashInferTokenPagedGraphState.refresh: pages a row does not own go to the
\* trash slot past the list, and what lies behind the last row stays as it was
Refresh(csr, tables, lens) ==
  LET counts == [i \in DOMAIN tables |-> PagesFor(lens[i])]
      indptr == Cumulative(counts)
      Of(j) == {i \in DOMAIN tables : j \in (indptr[i] + 1)..(indptr[i] + counts[i])}
  IN Csr(indptr,
         Tuple([j \in DOMAIN csr.indices |->
           IF Of(j) = {} THEN csr.indices[j]
           ELSE LET i == CHOOSE i \in Of(j) : TRUE IN tables[i][j - indptr[i]]]),
         Tuple([i \in DOMAIN tables |-> ((lens[i] - 1) % PageSize) + 1]))

-----------------------------------------------------------------------------
(* Which keys of its row a query at absolute position q sees.              *)

\* build_block_diffusion_paged_metadata: each block of the launch is a
\* sequence of its own whose keys end with the block
TaskKeys(off, q) == 0..(off + ((q - off) \div BlockLength + 1) * BlockLength - 1)

\* block_extend of the FlashInfer wrappers, make_mask, the packed mask of the
\* prefill graph: keys of earlier blocks and of the query's own
BlockExtendKeys(q, kvLen) == {k \in 0..(kvLen - 1) : q \div BlockLength >= k \div BlockLength}

\* the causal mask of the kernels is aligned at the end of the keys
CausalKeys(off, qLen, kvLen, q) == {k \in 0..(kvLen - 1) : k <= (q - off) + (kvLen - qLen)}

\* splice_cache and FlashInferRaggedAttention: a row's keys are the cached
\* prefix and the block, which lies at the end of the batch's cache slice;
\* the result gives for each key its place in the spliced slice
RaggedKeys(kvLen, qLen, cacheLength) ==
  [k \in 0..(kvLen - 1) |-> IF k < kvLen - qLen THEN k ELSE cacheLength - kvLen + k]
=============================================================================
